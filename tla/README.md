# Verification of the SIP bridge

TLA+ specifications of the OpenAI SIP voice bridge in `src/`, the TLC configurations
that check them, and proofs for the TLA+ proof system. Paths below are relative to `src/`.

The bridge answers phone calls. A webhook announces a call, the bridge accepts it at the
provider with a REST request, opens a WebSocket to the Realtime server, and runs a
six-phase conversation in which the model calls tools. The call ends by the end of
WRAP_UP, by a transfer (SIP REFER), by an operator, by the caller, or by an error. All of
it runs in one asyncio process: nothing is parallel, but every `await` that really
suspends lets any other coroutine run, and most of the defects one can have here sit
between a check before such an `await` and a write after it.

## Inventory

| component | code | state | operations | in TLA+ |
|---|---|---|---|---|
| Conversation state machine | `sip_bridge/conversation_fsm.py` | phase, turns in the phase, tools called in the phase | `enter`, `advance`, `transition`, `record_turn`, `record_tool_failure`, `record_frustration`, `check_escalation`, `_end_session` | `Conversation`, `CallLifecycle` |
| Session | `sip_bridge/session_manager.py` | WebSocket, response gate, tool lock, closing flag, greeting flag, transcript index | `connect` with its reconnect loop, `_event_loop`, `_dispatch_event`, `send_event`, `wait_for_response_done`, `close`, `_teardown`, `_save_cdr` | `Conversation`, `CallLifecycle` |
| Tool executor | `sip_bridge/tool_executor.py` | none of its own; one task per function call | `handle`, `_dispatch` with guard, retry and timeout, the tools | `Conversation`, `ToolDesk` |
| Call control | `sip_bridge/call_controller.py`, `dashboard/routes/calls.py` | none; writes the call record | `accept`, `reject`, `refer`, `hangup`, and the operator's hangup and escalate | `CallLifecycle`, `Admission` |
| Admission | `sip_bridge/webhook_handler.py` | none; reads maintenance mode, budget and circuit breaker | webhook, `_accept_call`, `_reject_call` | `Admission`; one accept task in `CallLifecycle` |
| State store | `core/state_store.py`, `core/models.py` | call records, breaker, daily cost, settings | upsert, counters, reload, snapshot | `CallLifecycle`, `Admission`, `Dashboard` |
| Event bus | `core/event_bus.py` | bounded queue per subscriber | publish, subscribe | `Dashboard` |
| Dashboard | `dashboard/ws_manager.py`, `dashboard/routes/` | connected clients | snapshot, register, broadcast, drop | `Dashboard` |
| Browser client | `dashboard/static/js/` | socket, backoff timer, panels | connect, close, reconnect, merge | `Dashboard` |
| Prompt builder | `sip_bridge/prompt_builder.py` | none | prompt and tools of a phase | `ToolCatalogue`; a few of the tools in `Conversation` |
| Repository | `db/` | the database | lookups, tickets, turns, events, detail records | `ToolDesk`, `Dashboard`, `Admission` |
| Start-up, logging, retention | `main.py`, `core/logger.py` | none shared with a call | start, daily clean-up | a restart, in `Admission` |
| Configuration, authentication | `config/settings.py`, `dashboard/auth.py` | constants | key check | constants; the check's outcome in `Dashboard` |

How they interact. The webhook handler creates the call record and an accept task. That
task ends in `SessionManager.connect`, which is the event loop of the call. The event loop
feeds the state machine with turns and frustration, and creates a task per function call;
those tasks take the session's tool lock, wait for the response gate, drive the state
machine, send results over the socket and may transfer or close. Operators reach the same
call record and session over HTTP. Everybody publishes to the event bus, the dashboard
subscribes to it. Calls are synchronous or awaited; what is shared is the `Call` object,
the session's gate, lock and flags, and the phase.

What is hard, and what makes each part correct:

- *Tool handlers overlap* when the model calls several tools in one response or a response
  follows quickly. Correct: they run one at a time, in order (`HandlersSerialised`), a
  guarded tool runs once per phase (`OncePerPhase`), and every one ends
  (`ToolCallsAreHandled`).
- *The gate is a local picture of a remote state*, updated by messages that arrive late.
  Correct: it differs from the server only by messages on the way (`GateFollowsServer`).
- *The phase moves under a waiting handler*: the turn counter advances it from the event
  loop, a `report_new_issue` sends it back. Correct: a `phase_complete` completes the phase
  it was called in. It does not (see Findings): one called in GREETING may end VERIFY before
  the caller has said a word there. What does hold is that VERIFY is not ended without a turn
  by anything called in VERIFY itself (`VerifyTakesATurn`), and that no stale category is
  stored (`ClassifiedInTriage`).
- *Two sources reach one threshold check*, and each then waits for seconds. Correct: one
  transfer (`EscalatesOnce`), and it is completed even if the waiting coroutine is the
  event loop that alone could end the wait (`EscalationCompletes`).
- *Eight writers share the call record* and write after their REST answers, in any order.
  Correct: one session, bounded reconnects, one detail record (`KeepsContract`), a cause
  on every final call (`FinalCallHasCause`), an end (`SessionEnds`).
- *A webhook may come twice, and its gates are counters that forget*: a bounded deque, a
  day that is looked at by two readers and changed by one, a process that restarts.
  Correct: the gates tell the truth about the history (`BreakerMatchesHistory`,
  `BudgetGateTellsTheTruth`), the breaker closes again (`BreakerCloses`), every call is
  decided unless its lookup hangs (`CallsAreDecided`, `RingingIsPending`), a call that the
  store counts as open has a task that will close it (`OpenCallsAreClosed`), and finished
  calls come back finished (`FinishedCallsSurvive`). The last two fail for a call whose
  transfer is answered after its session has ended, which both name as their exception.
- *The dashboard joins a snapshot with a stream*, over a queue that drops and a socket that
  stalls or breaks. Correct: of what is published a browser misses nothing but what these
  and the limit for ended calls can explain (`CaughtUp`), never shows a turn that is not
  stored, goes back only to what was queued, and comes to rest (`ClientSettles`).
- *Tools are retried and abandoned although they may have committed*, and calls share the
  tables. Correct: what a caller was told of a ticket is in the table
  (`AnnouncedTicketExists`, `ReadBackHolds`), a ticket that is done has its date
  (`DoneTicketsAreDated`), a request makes one ticket unless its acknowledgement was lost
  (`OneTicketPerRequest`), what is offered is let through while the phase moves
  (`OfferedToolsRun`), and what the instructions name is offered, in the phases where that
  is so at all (`InstructedToolsOffered`).

`PROJECT.json` lists each of these hazards at its line with the properties that cover it,
or why none does.

## Modules

| module | what it is |
|---|---|
| `Conversation` | one conversation: event loop, state machine, tool tasks, server |
| `MCConversation` | TLC's instance of it: the task slots and their symmetry |
| `CallLifecycle` | one call record and everything that writes it |
| `SessionContract` | what a session promises, whatever interferes |
| `Admission` | webhooks, gates, accept and reject tasks, the store, restarts |
| `MCAdmission` | TLC's instance of it: which delivery is about which call |
| `Dashboard` | publishers, event bus, fan-out, the browser's socket and panels, for one call |
| `ToolCatalogue` | the three lists of tools, as operators without state |
| `ToolDesk` | tool calls of several conversations on one database |
| `MCToolDesk` | TLC's instance of it: who calls what, with whom |
| `ConversationProofs` | theorems about `Conversation`, for every value of its constants |
| `CallLifecycleProofs` | theorems about `CallLifecycle`, for every value of its constants |
| `AdmissionProofs` | theorems about `Admission`, for every value of its constants |
| `BreakerProofs` | the theorem about the circuit breaker of `Admission`, on top of them |
| `DashboardProofs` | theorems about `Dashboard`, for every value of its constants |
| `ToolDeskProofs` | theorems about `ToolCatalogue` and `ToolDesk`, for every value of their constants |

### Conversation

A step is the code between two points where a coroutine really suspends. Those points are:
`async for` on the socket, `tool_lock`, `wait_for_response_done`, a tool under
`asyncio.wait_for`, `call_controller.refer`, the closing handshake, and the reconnect
backoff. The state store's lock is never held across a suspension and `EventBus.publish`
uses `put_nowait`, so neither suspends; a `send` suspends only when the socket's write
buffer is full, which the model leaves out.

| state | code |
|---|---|
| `phase`, `turns`, `called` | `_phase`, `_turns_in_phase`, `_phase_tools_called` |
| `category`, `known`, `failures`, `frustration`, `escalated` | fields of `Call` |
| `ready` | `_response_ready` (an `asyncio.Event`) |
| `lockQueue` | `_tool_lock`: its holder, then its waiters; asyncio locks are FIFO |
| `job[t]` | a task of `ToolExecutor.handle`, with `pc` its point of suspension |
| `loop` | where `connect()` is |
| `closing`, `ws`, `greeted` | `_closing_intentionally`, `_ws`, `_greeting_triggered` |
| `inbox`, `resp`, `respPhase` | messages on the way, and the server's active response (external) |
| `fresh`, `runs`, `announcements`, `referred`, `asked` | history, for the properties only |

Correspondence of actions. `WaitForResponse` / `WaitTimesOut` are the two ends of
`wait_for_response_done`; `CompletePhase`, `CompleteWrapUp` + `AfterWrapUp`, `WaitForUser`,
`ReportNewIssue`, `RejectDuplicate` are the branches of `handle`; `Dispatch` →
`ToolReturns` | `ToolFails`, and `BlockedTool`, are `_dispatch` with the phase guard and
everything `handle` does with the outcome; `Escalate` with `ReferAccepted` | `ReferFails`
is `check_escalation`; `On...` are the branches of `_dispatch_event`, with
`OnResponseDone`, `AutoAdvance` and `AutoEnd` the three outcomes of `record_turn`;
`LoopEnds`, `LoopSeesDrop`, `Reconnect`, `GiveUp` are `connect` around the event loop.
`RequestResponse` is the one way to `response.create`, including what `send_event` does to
the gate when the send raises. When the gate opens, every waiter is marked as woken at that
moment (`Woken`): an `asyncio.Event` waiter that was woken does not look at the event
again, so the gate may be shut before the handler runs.

The server (external) answers a `response.create` unless a response is active, calls tools
of the phase the response was configured for, and may speak, hang up or send malformed
arguments as far as `Env` allows.

Abstractions: tool results, transcripts and prompts are left out; the outcome of a tool is
*returned*, *failed* or *blocked*. `Offered` lists the tools that the runs use, without the
narrowing of the DIAGNOSE tools by category. Tool failures and frustration stop counting
at their limit. Reconnect attempts are not counted here but in `CallLifecycle`. A broken
socket takes the messages with it that had arrived unread (`SocketDrops`; the library would
still deliver them), and after the last reconnect the loop is over before the hangup of
`_handle_ws_failure` is answered (`GiveUp`; `CallLifecycle` has that wait).

### CallLifecycle

The record of one call, from `_accept_call` to the detail record. A handler of the code is
three parts: what it checks and sends (`SendAccept`, `BeginEscalation`, `EscalateToAgent`,
`ForceEscalate`, `OperatorHangsUp`, `GiveUp`, `GraceOver`), the provider's answer
(`ProviderGrants`, `ProviderRefuses`: a granted request may also lose its answer), and what
it writes on the answer (`Accepted`, `ReferAccepted(a)`, `ReferFails(a)`,
`OperatorHangupAnswered`, `FailureHangupAnswered`, `FarewellAnswered`). `request[r]` says
how far each of the eight requests is. `conn` is the position of `connect`:
`starting → connecting → open → backoff → connecting …`, then `gaveUp` (the hangup of
`_handle_ws_failure`) and `grace`, `farewell` (the sleep and the hangup of `_teardown`),
then `done`. The writers of the record are operators on the record (`Answered`, `HungUp`,
`Referred`, …), one for each place of the code that assigns to it. `SaveCdr` is the task of
`_save_cdr`, which reads the record when it runs.

The conversation appears by what it does to the record: `EndSession` (end of WRAP_UP, any
number of times, since several handlers may complete WRAP_UP), the two thresholds, and the
tool `escalate_to_agent`; when it does so is left open, since tool tasks outlive the event
loop. `Conversation` says when these really happen.

### SessionContract

The abstract specification: a session waits, runs once, survives at most `MaxReconnects`
losses, and when it is over — not before, and in the same step — one detail record is due,
which is then written. `CallLifecycle` implements it with
`stage <- Stage, losses <- attempt, record <- cdr.status`.

### Admission

A webhook is handled in one step, because nothing in the state store suspends. The tasks it
creates suspend at the database (`StartAccept`, then `CallerFound` or `CallerUnknown`) and at
the provider (`Accepted`, `AcceptFails`, `Rejected`, `RejectFails`; a failing request may have
been carried out). The store keeps *objects*: a second delivery puts a new `Call` into
`record` while a task may still hold the old one and store it again, so `object`, `record` and
`held` are separate variables, and every write goes to the object that is stored when its
`await` returns.

A session is here what it and others write to the state of the stored call. Its own end is
`SessionEnds` or `SessionFails` with `FailureHangupAnswered`, then the branches of
`_teardown` (`Teardown`: a call that is TRANSFERRING waits in `grace`, until
`FarewellAnswered`; any other is ended by `Ends`, unless it is final), then `SaveCdr`, which
reads the object when it runs. Meanwhile, or afterwards, `Escalates`, `AsksRefer` with
`ReferAnswered`, `AsksHangup` with `HangupAnswered`, and `WrapsUp` write TRANSFERRING and
ENDED, as `check_escalation`, `refer`, `hangup` and `_end_session` do; when they happen is
left open, since handlers outlive the event loop. A REFER answered after the session has
ended puts a final call back to TRANSFERRING, and nothing closes it again: `late` keeps
these calls.

`Tick` ages the failures, `Midnight` turns the date, `Restart` empties the memory and runs
`load_recent_cdrs`, which makes a `Call` of each of the latest `HistoryLimit` records in the
state that was saved. `tally`, `spent`, `alerts`, `restarted` and `late` are history: the full
account that the properties compare the code's state with. A constant, `Casts`, picks who
takes part in a behaviour, so that TLC need not combine everything with everything; the
proofs are for any.

### Dashboard

One call and one browser. `version` is the state of the `Call` object; a message carries the
version it was made from. `CallChanges` is an update that is published, as most are;
`CallChangesQuietly` one that is not: the account found by the accept task, the service
category, the counts of tool failures and of frustration, the tokens, the cause of a failed
session. `said` is the version published last, and the browser learns of a quiet change only
with the next publish or snapshot. `live` says whether the call is in a state for which the
snapshot has all turns and events; for an ended call it has the last 50 of each (`Limit`,
`Transcript`, `CallEvents`). `conn` is the server's task for the browser's latest socket: it
has *listed* the calls, *read* their turns and events, *sent* the snapshot, and is
*registered* or *discarded*. `SnapshotReads` and `SnapshotSent` are two steps because the
call object is dumped after the database was read; that `_fetch` looks at the state and that
the calls are listed is one step, with the start of the connection (`Opened`). A wrong key
is accepted and then closed with 4001, so the browser passes through CONNECTED
(`OpenedWithWrongKey`, `AuthFailed`). `row`, `turns` and `events` are what the panels keep;
`Broken` is a row made of a raw event only, on which `_render` throws. Messages of all other
topics (logs, tokens, health) only take room in the queue. A socket that is open delivers in
order; what was sent to an older socket of the browser is not followed.

### ToolCatalogue and ToolDesk

`ToolCatalogue` has the tool lists as sets: what `_tools_for_phase` offers, what the
instructions name — the base instructions in front of every phase (`BaseNames`) and the
phase's own with its hints (`PhaseNames`) —, what `_PHASE_TOOL_ALLOWLIST` lets through, and
what `_dispatch` can run. The instructions that a single `response.create` carries
(`tool_executor.py:104-121` for RESOLVE, which names `create_ticket` whatever the category)
are not in it.

`ToolDesk` has conversations that move through the phases (`Moving`) or stay in RESOLVE,
and one tool call at a time in each (`Conversation` has the queue for the lock).
`ToolCall` → `Start` → the branches of `_dispatch` → for tickets a transaction, that loads
(`BeginCreate`, `BeginUpdate`) and commits (`Committed`, `AckLost`, `CommitFails`,
`NumberTaken`) in two steps. `TransientError` is the retry, `ToolTimesOut` the timeout
around both attempts, which leaves a transaction in `abandoned`; `AbandonedSettles` commits
it late or rolls it back. `Updated` writes the columns that differ from what was loaded, as
SQLAlchemy does. `made`, `ackLost` and `overtaken` are history. `Fail` ends the session at
the failure limit in the step of the failure; the wait and the REFER of `check_escalation`
are in `Conversation`. What the lookups return is left out, but for the customer's number.

## Runs

| run | module, cfg | checks |
|---|---|---|
| `conv_phases` | `MCConversation`, `ConvPhases.cfg` | `TypeOK`, `HandlersSerialised`, `GateFollowsServer`, `VerifyTakesATurn`, `ClassifiedInTriage` |
| `conv_troubles` | `MCConversation`, `ConvTroubles.cfg` | `OncePerPhase`, `EscalatesOnce` |
| `conv_live` | `MCConversation`, `ConvLive.cfg` | `ToolCallsAreHandled`, `EscalationCompletes`, `CloseEndsSession` |
| `lifecycle` | `CallLifecycle`, `Lifecycle.cfg` | `TypeOK`, `FinalCallHasCause`, `KeepsContract`, `SessionEnds` |
| `admission` | `MCAdmission`, `Admission.cfg` | `TypeOK`, `BreakerMatchesHistory`, `BudgetGateTellsTheTruth`, `OneAlertPerDay`, `RingingIsPending`, `OpenCallsAreClosed`, `FinishedCallsSurvive`, `CallsAreDecided`, `BreakerCloses` |
| `dashboard` | `Dashboard`, `Dashboard.cfg` | `TypeOK`, `ShownTurnsAreStored`, `CaughtUp`, `BrokenRowMissedCreation`, `GoesBackOnlyToQueued`, `ClientSettles` |
| `tool_desk` | `MCToolDesk`, `ToolDesk.cfg` | `TypeOK`, `OfferedToolsRun`, `InstructedToolsOffered`, `AnnouncedTicketExists`, `OneTicketPerRequest`, `ReadBackHolds`, `DoneTicketsAreDated`, `OwnNumberIsFound`, `ToolCallsEnd` |
| `double_advance`, `blocked_transfer`, `synonym_twice`, `end_not_published`, `cause_lost` | see Findings | one statement of the documents each, which TLC refutes |

Bounds, and why they are enough:

- Two task slots: one handler that holds the lock and one that waits is the smallest
  overlap, and every hazard listed is between two actors (two handlers, or a handler and
  the event loop). A slot is free again when its task has ended, so a run has any number of
  handlers over time. The tasks are interchangeable, so the safety runs use symmetry; the
  liveness run does not.
- Turn limits of 1 to 3 in the passing runs (the code has 2 in TRIAGE, 4 in DIAGNOSE and a
  setting elsewhere): every value makes the counter, the limit and the reset happen; the phases
  with equal and different limits both occur.
- `InboxBound` 1 to 3 unread messages: enough for a `response.done` behind a function call
  behind a `response.created`. The server just waits when it is reached.
- `FailureLimit = FrustrationLimit = 1`: the first failure and the first frustrated
  transcript each cross a threshold, so that both can at once.
- `MaxReconnects = 1` in `lifecycle` (the code has 3): the first loss retries, the second
  gives up. The proofs are for every value.
- One service category in `Conversation`: stored, or not. `ToolDesk` has all six.
- `admission`: five casts, one of which each behaviour picks. Two deliveries of one webhook,
  which is where records collide, without and with transfers and restarts; one call with
  everything that can be written to it late; two calls of which a restart reloads one
  (`HistoryLimit` 1), so that the cut between the latest records and the others is
  exercised; and one call with spending and outages for the gates. Threshold and deque of 2,
  window and cooldown of 2 ticks: a failure can be in the cooldown and no longer new, it
  leaves the cooldown while the window still holds it, and the deque overflows. Budget 2:
  below, at and past it, over midnights and restarts.
- `dashboard`: two versions, two turns, two events, of which two in all happen, a queue of two
  and a limit of one: small enough that the queue overflows at any moment and that an ended
  call has more turns, or more events, than a snapshot takes; one reconnect and then
  exhaustion.
- `tool_desk`: each initial state picks one cast, so that each question has the calls it
  needs and no others: one moving call with every tool that writes no ticket; two calls that
  update the same ticket; two that create tickets, one for an account nobody has; one that
  creates tickets and goes on after a first failure. Four ticket numbers, one of them taken.
  Two statuses, one of them final; the failure limit is reached by the first or by the
  second failure.

Each run names the troubles its environment may cause (`Env`). `GateFollowsServer` is
checked without frustration, timeouts and broken sockets: after a timed-out wait the code
opens the gate by itself, a frustrated transcript always leads to one, and after a broken
socket there is no server to follow. `CloseEndsSession` is
checked without broken sockets: a session closed during the backoff connects again (see
the hazard at `session_manager.py:128`). `EscalationCompletes` is checked with transfers
that are accepted: a refused one leaves the call transferring (hazard at
`conversation_fsm.py:196`). `VerifyTakesATurn` is about steps taken while the socket is up,
and is checked where `GateFollowsServer` is.

Fairness. Weak fairness of each task, of the event loop and of each handler of an answer:
asyncio runs every coroutine that can run. Weak fairness of the timeouts: every wait for
the gate has one (8, 10 or 15 seconds), and `close()` is bounded by the library's
`close_timeout`. Weak fairness of the answer to a request: httpx bounds every request with
a timeout, so it is granted or refused. The server closes the Realtime session of a call
that is gone. Nothing is assumed of the caller, of the operators, or of the server in a
conversation: it need not end a response, call a tool or speak. `Admission` assumes that
time passes, that each accept or reject task is started, and that its request is answered or
times out. It assumes nothing of the database: no step out of `lookup` is fair, because the
two awaits of `_accept_call` (`webhook_handler.py:173`, `:182`) have no timeout, and
`CallsAreDecided` is about calls whose lookup comes back. `Dashboard` assumes only that the
timer of the reconnect fires and that a connect comes to an end. `ToolDesk` assumes that a
handler starts when its turn has come (`ToolCallsAreHandled` in `Conversation`), that the
sleep before a retry ends, and that the timeout fires. Of the database it assumes one thing:
`asyncio.wait_for` cancels the query and waits until the cancelled session has come back,
and this it does; a driver that never returned from a cancellation would delay the timeout.

`CHECK_DEADLOCK` is off in the violation runs of `Conversation` and in `dashboard`, where
everything really stops when the call is over and the browser has given up. In all other
passing runs deadlock is checked; a conversation or call that is over stutters by
`CallOver` or `CallsOver`, whose guard says what over means, so a handler stuck for good
would be reported.

## Findings

The five violation runs each refute a statement of the repository about itself.

- `double_advance` — `CompletesThePhaseItWasCalledIn`. `phase_complete` waits for the
  response that called it; the same `response.done` first counts a turn and may advance the
  phase; then the handler advances once more. A phase is skipped.
  (`sip_bridge/tool_executor.py:53`)
- `blocked_transfer` — `ClosesAfterTransferOrWrapUp`. An `escalate_to_agent` refused by the
  phase guard counts as succeeded and closes the session with no transfer.
  (`sip_bridge/tool_executor.py:311`)
- `synonym_twice` — `DuplicatesAreRejected`. `get_tickets` is dispatched as
  `get_service_status`, but the one-call guard looks for the name the model used, so the
  lookup runs again in the same phase. (`sip_bridge/tool_executor.py:231`) `OncePerPhase`
  in `conv_troubles` is about calls by the tool's own name; its instance has no synonym.
- `end_not_published` — `TeardownPublishesCallEnded`. After the end of WRAP_UP no
  `CALL_ENDED` is published and no duration is set. (`sip_bridge/session_manager.py:307`)
- `cause_lost` — `CauseSurvivesHangup`. The hangup after a transfer overwrites the cause
  `transferred` by `normal`, and the hangup after the last reconnect overwrites
  `ws_failure`; neither writes FAILED, which only a failed accept and a reject do.
  (`sip_bridge/session_manager.py:298`, `:161`)

Seen while modelling, without a run of their own:

- README.md:270 says a handoff packet is written when escalation fires; only the tool
  `escalate_to_agent` writes one (`tool_executor.py:710`), the thresholds and the operator
  do not.
- README.md speaks of *consecutive* tool failures; the count is never reset by a success
  (`tool_executor.py:430`).
- README.md:45 lists 16 stub tools; 7 of them read the database now, 9 are stubs
  (`tool_executor.py:609`).
- A closed ticket is listed as open (`repository.py:208` excludes only `resolved`), against
  the docstring at `repository.py:165`, and in the history as well, which has the last ten
  (`repository.py:379`). The contents of the two lists are not modelled.
- README.md:234 lists `escalate_to_agent` as a tool of TRIAGE; README.md:210 and the code
  (`prompt_builder.py:715`) do not offer it there.
- The base instructions have every caller looked up first (`prompt_builder.py:91`), while
  `lookup_customer` is not offered in GREETING and TRIAGE.
- `create_ticket` takes any account id; SQLite does not enforce the foreign key, and a
  ticket for an unknown account is in no list.
- A second delivery of a webhook whose call is active is accepted again; the provider
  refuses, and `_accept_call` marks the active call FAILED (`webhook_handler.py:220`).
- After a reconnect an event of the timeline may be shown twice, live and from the
  database (`transcript-panel.js:57`).
- WRAP_UP's hints for follow-up questions name technical tools whatever the category
  (`prompt_builder.py:1086`).

## Proofs

Every step of the six proof modules is checked by the TLA+ proof system, for every value of
the constants. Each safety property of a passing run is stated by a theorem, three
of them under a condition that their theorem states: `GateFollowsServer`,
`VerifyTakesATurn` and `OncePerPhase`.

The only assumptions are those named in the modules. `ConversationAssumption`,
`LifecycleAssumption` and `AdmissionAssumption`: the limits are positive numbers,
`MaxReconnects`, `Window`, `Cooldown` and `Budget` are numbers, the deque is long enough for
the breaker's threshold, every delivery is about a call, deliveries and calls are different
things, and the named sets are sets of the names the specification knows.
`DashboardAssumption`: there is at least one version, room for one message and a limit of at
least one, turns and events are numbered from 1, and they are finitely many.
`DeskAssumption`: what a call does and what the tables hold initially is what its type says,
no two customers have one phone number (the column is unique, and the seed stores E.164), a
new ticket's status `open` is a status, and each call starts below the failure limit.

### ConversationProofs

| theorem | says |
|---|---|
| `TypesHold` | `TypeOK`, with the turn limit of every phase |
| `HandlersAreSerialised` | `HandlersSerialised`: any number of handlers, one at a time, in order |
| `OneThresholdTransfer` | `EscalatesOnce` |
| `CategoryFromTriage` | `ClassifiedInTriage` |
| `GuardedToolsRunOnce` | `OncePerPhase`, when the model does not call `get_tickets` |
| `GateFollows` | `GateFollowsServer`, without frustration, slow responses and broken sockets |
| `VerificationTakesATurn` | `VerifyTakesATurn`, under the same condition |

The inductive invariant is `Inv == TypeOK /\ HandlersSerialised /\ AnnouncedWhenMarked`.
`HandlersSerialised` is inductive only with the types: a handler that finishes pops the
head of the queue, and that the rest of the queue holds each other handler exactly once
(`Pop`, `Push`) needs a queue without repetitions of tasks that are all alive.
`AnnouncedWhenMarked` ties the count of escalations to `call.escalated`, which is set in
the step that reads it. The step is proved by groups of variables (`FsmStep`,
`CountedStep`, `SocketStep`, `OrderedStep`), each with one step per kind of action; three
lemmas carry the handlers: one that stays in its place or is the head (`HandlersStay`), one
that leaves (`HandlerLeaves`), one that arrives (`OrderedCall`). `RequestKeeps` says that a
`response.create`, even one whose send raises and wakes everybody, moves nobody past the
lock.

`GuardedToolsRunOnce` needs `RunsRecorded`: a tool that ran since the phase was entered is in
`_phase_tools_called`, and a task that was let through the guard and has not run yet
(`Cleared`) has a tool that is not. A reconnect or an auto-advance empties both sides at
once; another handler cannot record in between because it has not got the lock, which is
where `HandlersSerialised` comes in. The theorem states its condition on `Tools`; the run
`synonym_twice` shows that it cannot be dropped.

`GateFollows` needs to know the order of what is on its way. `GateFollowsServer` says that
the gate is open during a response only while a `response.created` is unread, but reading
one event of the inbox must leave another true statement behind. `GateSound` therefore says
of the unread events (`Orderly`) that each `response.created` is followed by the end of that
response, and each `response.done` by the start of the next, unless the server is in that
state now. Then the last of them agrees with the server, whatever the event loop has read.
The steps are a `response.create` (`GateRequest`), which shuts the gate and starts a
response at once or finds one active, an event that is read and one that is appended, and the
steps that leave the gate alone (`GateStays`). The theorem's condition on `Env` is what the
code's own shortcuts require: a wait that times out opens the gate without a message, a
frustrated transcript makes the event loop wait for an event that only it could read, so
that this wait always times out, and behind a broken socket there is no server to follow.
With failures, malformed arguments, speech and hangups it holds.

`VerificationTakesATurn` stands on `GateSound`. Its own part is `VerifyHeld`: as long as
VERIFY has had no turn, a handler whose call was made in VERIFY waits for a shut gate
(`Held`), and such a call still unread has, if the gate is open, a `response.created` or
`response.done` before it (`Heralded`). So reading the calls in order shuts the gate first, or
counts a turn, and a gate that opens does so in the step that counts the turn. It starts from
`NotAskedYet`: in GREETING no event and no handler holds a call made in VERIFY, since the
server's response is still that of GREETING.

### CallLifecycleProofs

| theorem | says |
|---|---|
| `TypeCorrect` | `TypeOK`, with `attempt` within `MaxReconnects` |
| `FinalCallsHaveCauses` | `FinalCallHasCause` |
| `ContractKept` | `Spec => Contract!Safety`: the safety part of `KeepsContract` |

The inductive invariant is `TypeOK` with five parts about who can still be at work:
`RetryBounded` (a retry being prepared is still allowed), `AcceptFirst` (no session before
the accept request is answered, so it starts once), `LoopHeld` (while `check_escalation`
runs inside the event loop, the loop is where it was, so a refused transfer ends a session
that is running), `Leaving` (a call in its grace period is transferring or ended), and
`RecordWhenOver` (the detail record is due exactly when the session is over).
`FinalCallHasCause` needs that every writer of a final state leaves a cause, and that no
later writer takes it away (`Caused`). For `ContractKept`, each step of the session maps to
a step of `SessionContract` or changes nothing of it (`ContractStep`).

### AdmissionProofs

| theorem | says |
|---|---|
| `TypeCorrect` | `TypeOK`, with the deque within its length |
| `GateFollowsBudget` | `BudgetGateTellsTheTruth` |
| `AlertsOnce` | `OneAlertPerDay` |
| `RingingCallsArePending` | `RingingIsPending` |
| `OpenCallsGetClosed` | `OpenCallsAreClosed` |
| `RecordsSurvive` | `FinishedCallsSurvive` |

`TypeOK` is inductive; each of the others has its own strengthening. For the budget,
`DayCounted`: the accumulator's date is stale exactly until the first usage of the day, and
nothing was spent by then. For the alert, `AlertRemembered`: no flag, or a flag of another
day, means that no alert went out.

The three properties of the calls come from one invariant, `AllSound`, with `Linked`: an
object is stored, and held by an accept task, only for the call it was made for, so that what
one call's tasks do leaves other calls alone (`Untouched`). For each call, `OpenSound` ties
the stored state to a task that will change it: RINGING to one that decides, ACTIVE to a
session or an accept request under way, TRANSFERRING to the same or to a session in its grace
period, unless the call is in `late`. `OneSession` is why a hangup or a wrap-up cannot be
undone by another delivery: a call has at most one session, because the provider accepts a leg
once. `SavedSound` says that what is saved, or due to be saved, is final unless a transfer came
late; a record is only due when `_teardown` has left a final state, and until `_save_cdr` runs
nothing but a transfer takes it back. `Alone` is about a call delivered once: its object is
the one stored, until a restart puts the one made from its record in its place, in the state
of the record. `RecentGrows` says that a record only becomes recent by being saved, and
`LatestIsRecent` that the condition of `FinishedCallsSurvive` picks the records which
`get_recent_cdrs` returns.

### BreakerProofs

| theorem | says |
|---|---|
| `BreakerIsTrue` | `BreakerMatchesHistory` |

The breaker counts in a deque that forgets its oldest entry; the property counts in `tally`,
which has for each age how many failures there were, up to the threshold. The proof compares
the two counts without adding up. The invariant `Reflects` says that the deque is ordered by
age, that a run of `k` entries of one age is counted (`Counted`), and that `k` counted
failures of one age are such a run, or the deque is full of failures that are no older
(`Remembered`); that a full deque is enough is where `Threshold <= Remember` is needed. A
tick, a failure that pushes the oldest out, and a restart keep it (`ReflectsTick`,
`ReflectsFailure`, `ReflectsNothing`). `EnoughCounted` and `EnoughKept` then map the entries
of the deque one to one into the counted failures, and back, so that one side reaches the
threshold exactly when the other does; `CooldownSeen` is the same for the latest failure.
The history is a set of failures (`Failures`), so that a cardinality can be compared.

### DashboardProofs

| theorem | says |
|---|---|
| `TypeCorrect` | `TypeOK`, with the queue within its size |
| `ShownTurnsStored` | `ShownTurnsAreStored` |
| `CatchesUp` | `CaughtUp` |
| `BrokenRowMissed` | `BrokenRowMissedCreation` |
| `GoesBackToQueued` | `GoesBackOnlyToQueued`, an action property |

One invariant carries all of them. A message that was published is *pending* — in the queue,
dropped from it, or broadcast past the browser (`missed`) — or it has been shown
(`EventsCovered`), or, for turns and the call itself, it is in the snapshot or beyond its
limit (`TurnsCovered`, `RowSound`). `CaughtUp` is the case of an empty queue. What it takes: a
registered browser's row is the version published last, or a later one that a snapshot showed,
or that message is pending; every call message still in the queue is newer than the row unless
the snapshot was ahead of the queue (`RowSound`), for which the queue must be in the order of
versions, with the creation, which is always published, at its head (`QueueSound`); and nothing
is published before the call exists (`NothingBefore`). `TurnsStored` says that a turn is in the
queue, in the snapshot or on the screen only after its commit. `StoredGrows` and `LimitStays`
say that what the limit left out of a snapshot stays left out, as stored turns only become
more; `EventsRead` does the same for events, which a limited snapshot may choose among.
`StepKinds` sorts the actions by what they do to queue, row and snapshot.

### ToolDeskProofs

| theorem | says |
|---|---|
| `TypeCorrect` | `TypeOK` |
| `GuardLetsOfferedToolsRun` | `OfferedToolsRun` |
| `InstructionsKept` | `InstructedToolsOffered` |
| `AnnouncedTicketsExist` | `AnnouncedTicketExists` |
| `OneTicket` | `OneTicketPerRequest` |
| `ReadBack` | `ReadBackHolds` |
| `DoneTicketsDated` | `DoneTicketsAreDated` |
| `OwnNumberFound` | `OwnNumberIsFound` |

`Inv` says that whatever may still write to the tables is lawful, the transactions of
running handlers (`JobSound`) as well as the abandoned ones (`AbandonedSound`): an insert is
for an account the model gave, an update is of a row that is there. Rows are never deleted,
so a transaction stays lawful however late it commits. `StepKinds` shows that every action is
a new call or one of five kinds: a step up to the commit (`Moves`), an end without a write
(`Ends`), a commit that is acknowledged or lost (`Commits`), a late commit (`CommitsLate`),
a change of nothing that matters (`Rests`); the theorems go by these.

`OneTicket` needs `CountSound`, what the current call has committed at each place: nothing
during the first attempt, at most one, with a lost acknowledgement, during the second.
`ReadBack` needs `ReadSound`: as long as no other call has
written to the ticket, its status is the one that was loaded for the update or read back. A
commit of another call to the same ticket is in `overtaken` (`OvertakenStep`).
`DoneTicketsDated` holds for overlapping updates because an update that is to finish a ticket
sets the date even if it writes no status (`DatedStep`). `OfferedAllowed` compares the tool
lists of the three modules, for every phase and category; a handler keeps the phase that
offered its tool (`from`), and being refused in that same phase is what `OfferedToolsRun`
excludes. `InstructionsKept` compares the lists for the phases in `Followable` and needs
`EarlyUncategorised` (`CategoryStep`): a call has no category before TRIAGE, and does not come
back to VERIFY with one; with the category `billing` the base instructions would name two
tools that VERIFY does not offer.

## What is only model-checked, and what is not modelled

Liveness (`ToolCallsAreHandled`, `EscalationCompletes`, `CloseEndsSession`, `SessionEnds`,
`CallsAreDecided`, `BreakerCloses`, `ClientSettles`, `ToolCallsEnd`) and the liveness part
of `KeepsContract` are checked by TLC only: fairness and ENABLED are outside the prover's
reach. Of the safety properties, `GateFollowsServer` with frustrated callers and
`OncePerPhase` with `get_tickets` are outside their theorems, since neither is true there;
`VerifyTakesATurn` outside its theorem's condition is neither proved nor checked.
The violation runs are TLC's alone: a counterexample is their result.

Not modelled:

- prompt texts, tool descriptions and parameters, spoken answers: wording;
- the contents of the lookups (balances, products, appointments, service areas), which
  nothing else depends on; they appear as lookups that find or fail. The lists of open and
  of past tickets, with the limit of ten, belong to them;
- the log buffer, setup latencies and the health summary of the state store, the panels
  that print them, and the read-only REST routes: they read, and nobody waits for them;
- the daily clean-up of transcripts;
- the instructions given with a single `response.create`;
- the signature and age check of the webhook, which filters before anything modelled here,
  and the optional POST of the handoff packet;
- lookups by e-mail or account id beyond *found or not*; numbers outside the North American
  plan, which ten digits would mistake for one of it;
- a socket whose write buffer is full; several browsers at once, which share nothing but
  the queue;
- style sheets and markup.

## Plan

1. An abstract specification of the dashboard, a table that shows some earlier state of the
   call, and the refinement with its proof (`RowSound` has the facts it needs).
2. The same for the ticket desk: requests that take effect at most once per
   acknowledgement, at any time, implemented by handlers with retries and timeouts.

The modules use no RECURSIVE operator, name their constants' assumptions, and have one
action per operation so that the proofs can follow `Next`.
