---------------------------- MODULE Conversation ----------------------------
(***************************************************************************)
(* One phone call's conversation: the Realtime event loop of               *)
(* session_manager.py, the six-phase machine of conversation_fsm.py and    *)
(* the tool-handler tasks of tool_executor.py, all running on one asyncio  *)
(* thread, against the Realtime server.                                    *)
(*                                                                         *)
(* A step is the code between two points where a coroutine really          *)
(* suspends: waiting for the next event, for the tool lock, for the        *)
(* response gate, for a tool, for SIP REFER, for the closing handshake.    *)
(* The state store and the event bus never suspend their caller, and a     *)
(* send does not either (the socket's buffer is never full here).          *)
(***************************************************************************)
EXTENDS Naturals, Sequences, FiniteSets

CONSTANTS
  Tasks,             \* slots for the tool-handler tasks alive at one time
  Tools,             \* the tools the model may call in this instance
  Categories,        \* the service categories (SERVICE_CATEGORIES)
  NoCategory,        \* no category given, or none stored yet
  NoTool,            \* the tool of an empty slot
  TriageMaxTurns,    \* _TRIAGE_MAX_TURNS
  DiagnoseMaxTurns,  \* _DIAGNOSE_MAX_TURNS
  MaxTurns,          \* settings.max_turns_per_phase
  FailureLimit,      \* settings.escalation_tool_failure_limit
  FrustrationLimit,  \* settings.escalation_frustration_limit
  InboxBound,        \* events the server lets pile up unread (a model bound)
  Env                \* which troubles the environment may cause

Phases == {"GREETING", "VERIFY", "TRIAGE", "DIAGNOSE", "RESOLVE", "WRAP_UP"}

Troubles == {"speech",       \* the caller speaks: a response nobody asked for
             "slow",         \* a response outlasts the wait for it
             "frustration",  \* the caller's words hold a frustration keyword
             "failure",      \* a tool raises or outlasts its timeout
             "drop",         \* the WebSocket breaks and is connected again
             "hangup",       \* the server closes the WebSocket
             "malformed"}    \* a function call whose arguments are not JSON

ASSUME ConversationAssumption ==
  /\ {TriageMaxTurns, DiagnoseMaxTurns, MaxTurns} \subseteq Nat \ {0}
  /\ {FailureLimit, FrustrationLimit, InboxBound} \subseteq Nat \ {0}
  /\ NoCategory \notin Categories
  /\ NoTool \notin Tools
  /\ Env \subseteq Troubles

VARIABLES
  phase, turns,      \* ConversationFSM._phase, _turns_in_phase
  called,            \* _phase_tools_called, the guarded tools of it
  category,          \* call.service_category
  known,             \* call.account_id was found from the caller ID
  failures,          \* call.tool_failure_count, up to FailureLimit
  frustration,       \* call.frustration_count, up to FrustrationLimit
  escalated,         \* call.escalated
  referred,          \* a SIP REFER was accepted
  ready,             \* _response_ready
  lockQueue,         \* _tool_lock: its holder, then its waiters in order
  job,               \* the tool-handler task in each slot
  loop,              \* where connect() and its event loop are
  closing,           \* _closing_intentionally
  ws,                \* the WebSocket
  greeted,           \* _greeting_triggered
  inbox,             \* events on their way to the event loop
  resp, respPhase,   \* the server: is a response active, configured for which phase
  fresh, runs,       \* history: dispatches begun, runs finished since enter()
  announcements      \* history: threshold escalations begun, up to 2

fsmVars    == <<phase, turns, called, category, known, fresh, runs>>
callVars   == <<failures, frustration, escalated, referred, announcements>>
sockVars   == <<closing, ws, greeted>>
serverVars == <<inbox, resp, respPhase>>
vars == <<fsmVars, callVars, sockVars, serverVars, ready, lockQueue, job, loop>>

----------------------------------------------------------------------------
(* Static facts of the code: phases, tools and limits.                     *)

Successor(p) == CASE p = "GREETING" -> IF known THEN "TRIAGE" ELSE "VERIFY"
                  [] p = "VERIFY"   -> "TRIAGE"
                  [] p = "TRIAGE"   -> "DIAGNOSE"
                  [] p = "DIAGNOSE" -> "RESOLVE"
                  [] OTHER          -> "WRAP_UP"

TurnLimit(p) == CASE p = "TRIAGE"   -> TriageMaxTurns
                  [] p = "DIAGNOSE" -> DiagnoseMaxTurns
                  [] OTHER          -> MaxTurns

\* Mutant: the limit is compared with > instead of >=.
LimitExceeded == turns + 1 > TurnLimit(phase)

\* record_turn: this response is the last one the phase may take.
LimitReached == turns + 1 >= TurnLimit(phase)

\* Names the model invents for a tool are dispatched as that tool.
Canonical(tool) == IF tool = "get_tickets" THEN "get_service_status" ELSE tool

OneCallTools == Tools \cap {"get_service_status"}

Control == {"phase_complete", "wait_for_user", "report_new_issue"}

\* What session.update offers the model in a phase, invented names included.
Offered(p) ==
  Tools \cap (  {"phase_complete", "wait_for_user"}
          \cup (IF p = "TRIAGE" THEN {} ELSE {"escalate_to_agent"})
          \cup (IF p \in {"RESOLVE", "WRAP_UP"} THEN {"report_new_issue"} ELSE {})
          \cup (IF p \in {"DIAGNOSE", "RESOLVE", "WRAP_UP"}
                THEN {"get_service_status", "get_tickets", "create_ticket"} ELSE {}))

\* The phase guard of _dispatch.
Allowed(p) ==
  CASE p \in {"GREETING", "VERIFY"} -> {"phase_complete", "escalate_to_agent"}
    [] p = "TRIAGE"                 -> {"phase_complete"}
    [] OTHER -> {"phase_complete", "escalate_to_agent", "get_service_status", "create_ticket"}

----------------------------------------------------------------------------
(* Types.                                                                  *)

Notice == [kind : {"updated", "created", "done", "frustrated", "malformed"}]
Call   == [kind : {"call"}, tool : Tools, cat : Categories \cup {NoCategory}, asked : Phases]
Event  == Notice \cup Call

JobPC == {"queued",      \* created; waits for the tool lock
          "gate",        \* holds the lock, waits for the response to be done
          "open",        \* that wait is over
          "dispatch",    \* the tool runs
          "announce",    \* threshold escalation: waits for the announcement
          "announced",   \* that wait is over; the REFER is under way
          "closing"}     \* awaits the closing handshake

Idle == [pc |-> "idle", tool |-> NoTool, cat |-> NoCategory, asked |-> "GREETING", dup |-> FALSE]
Job  == [pc : JobPC, tool : Tools, cat : Categories \cup {NoCategory}, asked : Phases, dup : BOOLEAN]

LoopPC == {"recv", "announce", "announced", "closing", "backoff", "ended"}

TypeOK ==
  /\ phase \in Phases /\ respPhase \in Phases
  /\ turns \in Nat /\ (phase # "WRAP_UP" => turns < TurnLimit(phase))
  /\ called \subseteq OneCallTools
  /\ category \in Categories \cup {NoCategory}
  /\ known \in BOOLEAN /\ escalated \in BOOLEAN /\ referred \in BOOLEAN
  /\ failures \in 0..FailureLimit /\ frustration \in 0..FrustrationLimit
  /\ ready \in BOOLEAN /\ closing \in BOOLEAN /\ greeted \in BOOLEAN
  /\ lockQueue \in Seq(Tasks)
  /\ job \in [Tasks -> Job \cup {Idle}]
  /\ loop \in LoopPC
  /\ ws \in {"up", "down", "closing", "closed"}
  /\ inbox \in Seq(Event)
  /\ resp \in {"idle", "active"}
  /\ fresh \subseteq Tasks
  /\ runs \in [OneCallTools -> 0..2]
  /\ announcements \in 0..2

----------------------------------------------------------------------------
(* Building blocks of the handlers.                                        *)

Notify(kind) == [kind |-> kind]

\* _response_ready.set() wakes every task and the event loop if they wait for
\* it. A woken waiter does not look at the event again.
Woken(jobs) == [t \in Tasks |->
                  CASE jobs[t].pc = "gate"     -> [jobs[t] EXCEPT !.pc = "open"]
                    [] jobs[t].pc = "announce" -> [jobs[t] EXCEPT !.pc = "announced"]
                    [] OTHER                   -> jobs[t]]
LoopWoken(l) == IF l = "announce" THEN "announced" ELSE l

\* send_event({"type": "response.create"}): clears the gate, and sets it again
\* when the send raises; once connect() has dropped the socket nothing is sent.
\* jobs, l and q are the tasks, the loop and the inbox the step leaves behind.
RequestResponse(jobs, l, q) ==
  LET raises == ws # "up" /\ loop # "ended"
      starts == ws = "up" /\ resp = "idle"
  IN /\ ready' = raises
     /\ job'   = IF raises THEN Woken(jobs) ELSE jobs
     /\ loop'  = IF raises THEN LoopWoken(l) ELSE l
     /\ resp'  = IF starts THEN "active" ELSE resp
     /\ respPhase' = IF starts THEN phase' ELSE respPhase
     /\ inbox' = IF starts THEN Append(q, Notify("created")) ELSE q

\* ConversationFSM.enter
Enter(p) ==
  /\ phase' = p /\ turns' = 0 /\ called' = {}
  /\ fresh' = {} /\ runs' = [tool \in OneCallTools |-> 0]

StayInPhase == UNCHANGED <<phase, turns, called, fresh, runs>>

\* Mutant: close() sets the flag and forgets the socket.
FlagOnly == closing' = TRUE /\ UNCHANGED <<ws, resp>>

\* SessionManager.close: the caller then waits until the socket is not closing.
CloseSocket == /\ closing' = TRUE
               /\ ws'   = IF ws = "up" THEN "closing" ELSE ws
               /\ resp' = IF ws = "up" THEN "idle" ELSE resp

Settled == ws # "closing"

ShouldEscalate == /\ ~escalated
                  /\ failures' >= FailureLimit \/ frustration' >= FrustrationLimit

Saturated(n, bound) == IF n < bound THEN n + 1 ELSE n

\* Mutant: call.escalated is left for the end of the transfer.
BeginUnmarked == /\ UNCHANGED escalated
                 /\ announcements' = Saturated(announcements, 2)

BeginEscalation == /\ escalated' = TRUE
                   /\ announcements' = Saturated(announcements, 2)

----------------------------------------------------------------------------
(* Tool-handler tasks. The lock is held by the head of lockQueue.          *)

Release(jobs, t) == [jobs EXCEPT ![t] = Idle]

\* Mutants: one kind of handler does not take the lock.
UnlockedWait(t)   == \E i \in DOMAIN lockQueue :
                       lockQueue[i] = t /\ (i = 1 \/ job[t].tool = "wait_for_user")
UnlockedLookup(t) == \E i \in DOMAIN lockQueue :
                       lockQueue[i] = t /\ (i = 1 \/ job[t].tool = "get_service_status")

HoldsLock(t) == lockQueue # <<>> /\ t = Head(lockQueue)

\* Mutant: a handler goes on as soon as it holds the lock.
LockIsEnough(t) == HoldsLock(t) /\ job[t].pc \in {"queued", "open"}

\* The holder is past its wait for the response to be done, if it had to wait.
Unblocked(t) == /\ HoldsLock(t)
                /\ job[t].pc = "open" \/ (job[t].pc = "queued" /\ ready)

\* Evaluated when the lock is acquired, before the wait.
IsDuplicate(t) == IF job[t].pc = "queued"
                  THEN job[t].tool \in OneCallTools /\ job[t].tool \in called
                  ELSE job[t].dup

WaitForResponse(t) ==
  /\ HoldsLock(t) /\ job[t].pc = "queued" /\ ~ready
  /\ job' = [job EXCEPT ![t] = [@ EXCEPT !.pc = "gate", !.dup = IsDuplicate(t)]]
  /\ UNCHANGED <<fsmVars, callVars, sockVars, serverVars, ready, lockQueue, loop>>

\* Mutant: the wait has no timeout.
WaitsForGood(t) == t \notin Tasks /\ UNCHANGED vars

\* wait_for_response_done gives up and sets the gate itself. Without a socket
\* no response is ever done and the wait always ends this way.
WaitTimesOut(t) ==
  /\ "slow" \in Env \/ ws # "up"
  /\ job[t].pc \in {"gate", "announce"}
  /\ ready' = TRUE /\ job' = Woken(job) /\ loop' = LoopWoken(loop)
  /\ UNCHANGED <<fsmVars, callVars, sockVars, serverVars, lockQueue>>

\* Mutant: the category is stored for a call made in TRIAGE, not handled in it.
CategoryAsked(t) ==
  IF job[t].asked = "TRIAGE" /\ job[t].cat \in Categories THEN job[t].cat ELSE category

CategoryAfter(t) ==
  IF phase = "TRIAGE" /\ job[t].cat \in Categories THEN job[t].cat ELSE category

\* phase_complete outside WRAP_UP.
CompletePhase(t) ==
  /\ Unblocked(t) /\ job[t].tool = "phase_complete" /\ phase # "WRAP_UP"
  /\ category' = CategoryAfter(t)
  /\ Enter(Successor(phase))
  /\ lockQueue' = Tail(lockQueue)
  /\ RequestResponse(Release(job, t), loop, inbox)
  /\ UNCHANGED <<known, callVars, sockVars>>

\* phase_complete in WRAP_UP ends the session; the rest follows the close.
CompleteWrapUp(t) ==
  /\ Unblocked(t) /\ job[t].tool = "phase_complete" /\ phase = "WRAP_UP"
  /\ CloseSocket
  /\ job' = [job EXCEPT ![t].pc = "closing"]
  /\ UNCHANGED <<fsmVars, callVars, greeted, inbox, respPhase, ready, lockQueue, loop>>

AfterWrapUp(t) ==
  /\ job[t].pc = "closing" /\ job[t].tool = "phase_complete" /\ Settled
  /\ lockQueue' = Tail(lockQueue)
  /\ StayInPhase
  /\ RequestResponse(Release(job, t), loop, inbox)
  /\ UNCHANGED <<category, known, callVars, sockVars>>

WaitForUser(t) ==
  /\ Unblocked(t) /\ job[t].tool = "wait_for_user"
  /\ lockQueue' = Tail(lockQueue) /\ job' = Release(job, t)
  /\ UNCHANGED <<fsmVars, callVars, sockVars, serverVars, ready, loop>>

ReportNewIssue(t) ==
  /\ Unblocked(t) /\ job[t].tool = "report_new_issue"
  /\ IF phase = "TRIAGE" THEN StayInPhase ELSE Enter("TRIAGE")
  /\ lockQueue' = Tail(lockQueue)
  /\ RequestResponse(Release(job, t), loop, inbox)
  /\ UNCHANGED <<category, known, callVars, sockVars>>

RejectDuplicate(t) ==
  /\ Unblocked(t) /\ job[t].tool \notin Control /\ IsDuplicate(t)
  /\ lockQueue' = Tail(lockQueue)
  /\ StayInPhase
  /\ RequestResponse(Release(job, t), loop, inbox)
  /\ UNCHANGED <<category, known, callVars, sockVars>>

Dispatchable(t) == Unblocked(t) /\ job[t].tool \notin Control /\ ~IsDuplicate(t)

Dispatch(t) ==
  /\ Dispatchable(t) /\ Canonical(job[t].tool) \in Allowed(phase)
  /\ fresh' = fresh \cup {t}
  /\ job' = [job EXCEPT ![t].pc = "dispatch"]
  /\ UNCHANGED <<phase, turns, called, category, known, runs, callVars, sockVars, serverVars,
                 ready, lockQueue, loop>>

\* record_tool_called, and the history of runs begun and ended between two enter()s.
RecordToolCalled(t, begunHere) ==
  /\ called' = called \cup ({job[t].tool} \cap OneCallTools)
  /\ fresh'  = fresh \ {t}
  /\ runs'   = [tool \in OneCallTools |->
                  IF begunHere /\ tool = Canonical(job[t].tool)
                  THEN Saturated(runs[tool], 2) ELSE runs[tool]]
  /\ UNCHANGED <<phase, turns>>

\* check_escalation below its thresholds, then the result and a response.create.
Reply(t) ==
  /\ ~ShouldEscalate
  /\ lockQueue' = Tail(lockQueue)
  /\ RequestResponse(Release(job, t), loop, inbox)
  /\ UNCHANGED <<category, known, escalated, announcements, referred, sockVars>>

\* check_escalation over a threshold: announce, and wait for the announcement.
Escalate(t) ==
  /\ ShouldEscalate
  /\ BeginEscalation
  /\ IF loop = "ended"  \* get_session finds no session: nobody to announce it to
     THEN /\ job' = [job EXCEPT ![t].pc = "announced"]
          /\ UNCHANGED <<ready, loop, serverVars>>
     ELSE RequestResponse([job EXCEPT ![t].pc = "announce"], loop, inbox)
  /\ UNCHANGED <<lockQueue, category, known, referred, sockVars>>

\* The phase guard answers with an error, which counts as a successful run.
BlockedTool(t) ==
  /\ Dispatchable(t) /\ Canonical(job[t].tool) \notin Allowed(phase)
  /\ job[t].tool # "escalate_to_agent"
  /\ RecordToolCalled(t, TRUE)
  /\ UNCHANGED <<failures, frustration>>
  /\ Reply(t) \/ Escalate(t)

ToolReturns(t) ==
  /\ job[t].pc = "dispatch" /\ job[t].tool # "escalate_to_agent"
  /\ RecordToolCalled(t, t \in fresh)
  /\ UNCHANGED <<failures, frustration>>
  /\ Reply(t) \/ Escalate(t)

ToolFails(t) ==
  /\ "failure" \in Env
  /\ job[t].pc = "dispatch" /\ job[t].tool # "escalate_to_agent"
  /\ failures' = Saturated(failures, FailureLimit)
  /\ fresh' = fresh \ {t}
  /\ UNCHANGED <<phase, turns, called, runs, frustration>>
  /\ Reply(t) \/ Escalate(t)

\* escalate_to_agent "succeeds" when the REFER is accepted and also when the
\* phase guard blocks it; either way the session is closed.
TransferReturns(t) ==
  /\ job[t].tool = "escalate_to_agent"
  /\ \/ job[t].pc = "dispatch" /\ referred' = TRUE
     \/ Dispatchable(t) /\ "escalate_to_agent" \notin Allowed(phase) /\ UNCHANGED referred
  /\ RecordToolCalled(t, FALSE)
  /\ CloseSocket
  /\ job' = [job EXCEPT ![t].pc = "closing"]
  /\ UNCHANGED <<category, known, failures, frustration, escalated, announcements,
                 greeted, inbox, respPhase, ready, lockQueue, loop>>

\* The REFER raised, or the tool timeout cancelled it after it may have been accepted.
TransferFails(t) ==
  /\ "failure" \in Env
  /\ job[t].pc = "dispatch" /\ job[t].tool = "escalate_to_agent"
  /\ failures' = Saturated(failures, FailureLimit)
  /\ referred' \in {referred, TRUE}
  /\ fresh' = fresh \ {t}
  /\ lockQueue' = Tail(lockQueue)
  /\ UNCHANGED <<phase, turns, called, runs, category, known>>
  /\ RequestResponse(Release(job, t), loop, inbox)
  /\ UNCHANGED <<frustration, escalated, announcements, sockVars>>

\* check_escalation after the announcement: the REFER is accepted ...
ReferAccepted(t) ==
  /\ job[t].pc = "announced"
  /\ referred' = TRUE
  /\ CloseSocket
  /\ job' = [job EXCEPT ![t].pc = "closing"]
  /\ UNCHANGED <<fsmVars, failures, frustration, escalated, announcements,
                 greeted, inbox, respPhase, ready, lockQueue, loop>>

\* ... or raises, which ends the task without a word to the model.
ReferFails(t) ==
  /\ "failure" \in Env
  /\ job[t].pc = "announced"
  /\ lockQueue' = Tail(lockQueue) /\ job' = Release(job, t)
  /\ UNCHANGED <<fsmVars, callVars, sockVars, serverVars, ready, loop>>

AfterTransfer(t) ==
  /\ job[t].pc = "closing" /\ job[t].tool # "phase_complete" /\ Settled
  /\ lockQueue' = Tail(lockQueue) /\ job' = Release(job, t)
  /\ UNCHANGED <<fsmVars, callVars, sockVars, serverVars, ready, loop>>

----------------------------------------------------------------------------
(* The event loop: _dispatch_event, and connect() around it.               *)

Receive(kind) == loop = "recv" /\ inbox # <<>> /\ Head(inbox).kind = kind

\* The first session.updated triggers the greeting.
OnSessionUpdated ==
  /\ Receive("updated")
  /\ greeted' = TRUE
  /\ StayInPhase
  /\ IF greeted THEN /\ inbox' = Tail(inbox)
                     /\ UNCHANGED <<ready, job, loop, resp, respPhase>>
                ELSE RequestResponse(job, loop, Tail(inbox))
  /\ UNCHANGED <<category, known, callVars, closing, ws, lockQueue>>

\* Mutant: response.created is ignored, only response.create shuts the gate.
OnResponseCreatedIgnored ==
  /\ Receive("created")
  /\ inbox' = Tail(inbox)
  /\ UNCHANGED <<fsmVars, callVars, sockVars, resp, respPhase, ready, lockQueue, job, loop>>

OnResponseCreated ==
  /\ Receive("created")
  /\ ready' = FALSE /\ inbox' = Tail(inbox)
  /\ UNCHANGED <<fsmVars, callVars, sockVars, resp, respPhase, lockQueue, job, loop>>

\* response.done opens the gate and counts a turn: below the phase's limit ...
OnResponseDone ==
  /\ Receive("done") /\ ~LimitReached
  /\ ready' = TRUE /\ job' = Woken(job)
  /\ turns' = turns + 1 /\ inbox' = Tail(inbox)
  /\ UNCHANGED <<phase, called, category, known, fresh, runs, callVars, sockVars,
                 resp, respPhase, lockQueue, loop>>

\* ... at the limit, where record_turn advances the phase ...
AutoAdvance ==
  /\ Receive("done") /\ LimitReached /\ phase # "WRAP_UP"
  /\ ready' = TRUE /\ job' = Woken(job)
  /\ Enter(Successor(phase)) /\ inbox' = Tail(inbox)
  /\ UNCHANGED <<category, known, callVars, sockVars, resp, respPhase, lockQueue, loop>>

\* ... and at the limit of WRAP_UP, where it ends the session.
AutoEnd ==
  /\ Receive("done") /\ LimitReached /\ phase = "WRAP_UP"
  /\ ready' = TRUE /\ job' = Woken(job)
  /\ CloseSocket
  /\ turns' = turns + 1 /\ inbox' = Tail(inbox) /\ loop' = "closing"
  /\ UNCHANGED <<phase, called, category, known, fresh, runs, callVars, greeted, respPhase, lockQueue>>

\* response.function_call_arguments.done creates a task that queues for the lock.
OnFunctionCall ==
  /\ Receive("call")
  /\ \E t \in Tasks :
       /\ job[t] = Idle
       /\ job' = [job EXCEPT ![t] = [pc |-> "queued", tool |-> Head(inbox).tool,
                                     cat |-> Head(inbox).cat, asked |-> Head(inbox).asked,
                                     dup |-> FALSE]]
       /\ lockQueue' = Append(lockQueue, t)
  /\ inbox' = Tail(inbox)
  /\ UNCHANGED <<fsmVars, callVars, sockVars, resp, respPhase, ready, loop>>

\* json.loads of the arguments raises out of the event loop: connect() gives up.
OnMalformedCall ==
  /\ Receive("malformed")
  /\ loop' = "ended" /\ ws' = "closed" /\ resp' = "idle" /\ inbox' = <<>>
  /\ UNCHANGED <<fsmVars, callVars, closing, greeted, respPhase, ready, lockQueue, job>>

\* A transcript with a frustration keyword: record_frustration, in the event loop.
OnFrustration ==
  /\ Receive("frustrated")
  /\ frustration' = Saturated(frustration, FrustrationLimit)
  /\ StayInPhase
  /\ UNCHANGED <<failures, referred, category, known, sockVars, lockQueue>>
  /\ \/ /\ ~ShouldEscalate
        /\ inbox' = Tail(inbox)
        /\ UNCHANGED <<escalated, announcements, ready, job, loop, resp, respPhase>>
     \/ /\ ShouldEscalate
        /\ BeginEscalation
        /\ RequestResponse(job, "announce", Tail(inbox))

\* Mutant: the wait has no timeout.
LoopWaitsForGood == loop = "announce" /\ FALSE /\ UNCHANGED vars

\* Only the event loop reads response.done, so its own wait has to time out
\* (or a handler's timeout opens the gate for it).
LoopWaitTimesOut ==
  /\ loop = "announce"
  /\ ready' = TRUE /\ job' = Woken(job) /\ loop' = "announced"
  /\ UNCHANGED <<fsmVars, callVars, sockVars, serverVars, lockQueue>>

LoopReferAccepted ==
  /\ loop = "announced"
  /\ referred' = TRUE
  /\ CloseSocket
  /\ loop' = "closing"
  /\ UNCHANGED <<fsmVars, failures, frustration, escalated, announcements,
                 greeted, inbox, respPhase, ready, lockQueue, job>>

\* The exception leaves the event loop: connect() gives up.
LoopReferFails ==
  /\ "failure" \in Env
  /\ loop = "announced"
  /\ loop' = "ended" /\ ws' = "closed" /\ resp' = "idle" /\ inbox' = <<>>
  /\ UNCHANGED <<fsmVars, callVars, closing, greeted, respPhase, ready, lockQueue, job>>

LoopAfterClose ==
  /\ loop = "closing" /\ Settled
  /\ loop' = "recv"
  /\ UNCHANGED <<fsmVars, callVars, sockVars, serverVars, ready, lockQueue, job>>

\* The socket was closed by either side, or broke while closing on purpose.
LoopEnds ==
  /\ loop = "recv"
  /\ ws = "closed" \/ (ws = "down" /\ closing)
  /\ loop' = "ended" /\ ws' = "closed" /\ inbox' = <<>>
  /\ UNCHANGED <<fsmVars, callVars, closing, greeted, resp, respPhase, ready, lockQueue, job>>

LoopSeesDrop ==
  /\ loop = "recv" /\ ws = "down" /\ ~closing
  /\ loop' = "backoff"
  /\ UNCHANGED <<fsmVars, callVars, sockVars, serverVars, ready, lockQueue, job>>

\* The backoff is over: connect again, whatever happened meanwhile.
Reconnect ==
  /\ loop = "backoff"
  /\ ws' = "up" /\ loop' = "recv"
  /\ inbox' = IF greeted THEN <<>> ELSE <<Notify("updated")>>
  /\ Enter(phase)
  /\ UNCHANGED <<category, known, callVars, closing, greeted, resp, respPhase, ready, lockQueue, job>>

\* The attempts are used up, or connecting fails in another way.
GiveUp ==
  /\ loop = "backoff"
  /\ ws' = "closed" /\ loop' = "ended"
  /\ UNCHANGED <<fsmVars, callVars, closing, greeted, serverVars, ready, lockQueue, job>>

----------------------------------------------------------------------------
(* The Realtime server and the network (external).                         *)

Room == ws = "up" /\ Len(inbox) < InboxBound

CallsOnTheWay == Cardinality({i \in DOMAIN inbox : inbox[i].kind = "call"})
FreeSlots     == Cardinality({t \in Tasks : job[t] = Idle})

\* Voice activity: the server answers the caller by itself.
CallerSpeaks ==
  /\ "speech" \in Env /\ Room /\ resp = "idle"
  /\ resp' = "active" /\ respPhase' = phase
  /\ inbox' = Append(inbox, Notify("created"))
  /\ UNCHANGED <<fsmVars, callVars, sockVars, ready, lockQueue, job, loop>>

\* The active response calls a tool its session configuration offers.
ServerCallsTool ==
  /\ Room /\ resp = "active" /\ CallsOnTheWay < FreeSlots
  /\ \E tool \in Offered(respPhase), cat \in Categories \cup {NoCategory} :
       /\ (tool = "phase_complete" /\ respPhase = "TRIAGE") \/ cat = NoCategory
       /\ inbox' = Append(inbox, [kind |-> "call", tool |-> tool, cat |-> cat, asked |-> respPhase])
  /\ UNCHANGED <<fsmVars, callVars, sockVars, resp, respPhase, ready, lockQueue, job, loop>>

ServerEndsResponse ==
  /\ Room /\ resp = "active"
  /\ resp' = "idle" /\ inbox' = Append(inbox, Notify("done"))
  /\ UNCHANGED <<fsmVars, callVars, sockVars, respPhase, ready, lockQueue, job, loop>>

\* A frustrated transcript, or a function call with malformed arguments.
ServerNotice(kind, trouble) ==
  /\ trouble \in Env /\ Room
  /\ inbox' = Append(inbox, Notify(kind))
  /\ UNCHANGED <<fsmVars, callVars, sockVars, resp, respPhase, ready, lockQueue, job, loop>>

SocketDrops ==
  /\ "drop" \in Env /\ ws = "up"
  /\ ws' = "down" /\ resp' = "idle" /\ inbox' = <<>>
  /\ UNCHANGED <<fsmVars, callVars, closing, greeted, respPhase, ready, lockQueue, job, loop>>

ServerCloses ==
  /\ "hangup" \in Env /\ ws = "up"
  /\ ws' = "closed" /\ resp' = "idle"
  /\ UNCHANGED <<fsmVars, callVars, closing, greeted, inbox, respPhase, ready, lockQueue, job, loop>>

CloseHandshake ==
  /\ ws = "closing" /\ ws' = "closed"
  /\ UNCHANGED <<fsmVars, callVars, closing, greeted, serverVars, ready, lockQueue, job, loop>>

----------------------------------------------------------------------------
(* connect() entered GREETING and the server acknowledged session.update.  *)

Init ==
  /\ phase = "GREETING" /\ turns = 0 /\ called = {} /\ category = NoCategory
  /\ known \in BOOLEAN
  /\ failures = 0 /\ frustration = 0 /\ escalated = FALSE /\ referred = FALSE
  /\ ready = TRUE /\ lockQueue = <<>> /\ job = [t \in Tasks |-> Idle]
  /\ loop = "recv" /\ closing = FALSE /\ ws = "up" /\ greeted = FALSE
  /\ inbox = <<Notify("updated")>> /\ resp = "idle" /\ respPhase = "GREETING"
  /\ fresh = {} /\ runs = [tool \in OneCallTools |-> 0] /\ announcements = 0

TaskStep(t) ==
  \/ WaitForResponse(t) \/ CompletePhase(t)   \/ CompleteWrapUp(t) \/ AfterWrapUp(t)
  \/ WaitForUser(t)     \/ ReportNewIssue(t)  \/ RejectDuplicate(t) \/ Dispatch(t)
  \/ BlockedTool(t)     \/ ToolReturns(t)     \/ ToolFails(t)
  \/ TransferReturns(t) \/ TransferFails(t)   \/ ReferAccepted(t)  \/ ReferFails(t)
  \/ AfterTransfer(t)

LoopStep ==
  \/ OnSessionUpdated \/ OnResponseCreated \/ OnResponseDone \/ AutoAdvance \/ AutoEnd
  \/ OnFunctionCall   \/ OnMalformedCall   \/ OnFrustration
  \/ LoopReferAccepted \/ LoopReferFails   \/ LoopAfterClose
  \/ LoopEnds \/ LoopSeesDrop \/ Reconnect \/ GiveUp

ServerStep ==
  \/ CallerSpeaks \/ ServerCallsTool \/ ServerEndsResponse
  \/ ServerNotice("frustrated", "frustration") \/ ServerNotice("malformed", "malformed")
  \/ SocketDrops \/ ServerCloses

\* The call is over and every task has finished.
CallOver == /\ loop = "ended" /\ lockQueue = <<>>
            /\ UNCHANGED vars

Next ==
  \/ \E t \in Tasks : (TaskStep(t) \/ WaitTimesOut(t))
  \/ LoopStep \/ LoopWaitTimesOut
  \/ ServerStep \/ CloseHandshake
  \/ CallOver

Spec == Init /\ [][Next]_vars

\* The asyncio scheduler runs what is runnable, every wait has a timeout, and
\* the closing handshake is bounded by the library's close_timeout. The server
\* and the caller owe nothing.
Fairness ==
  /\ \A t \in Tasks : (WF_vars(TaskStep(t)) /\ WF_vars(WaitTimesOut(t)))
  /\ WF_vars(LoopStep) /\ WF_vars(LoopWaitTimesOut) /\ WF_vars(CloseHandshake)

FairSpec == Spec /\ Fairness

----------------------------------------------------------------------------
(* Safety.                                                                 *)

InQueue(t) == \E i \in DOMAIN lockQueue : lockQueue[i] = t

\* Tool handlers never overlap: every live task is in the lock's queue exactly
\* once, and only the task at its head has gone beyond waiting for the lock.
\* (tool_executor.handle: every branch runs under session_manager.tool_lock.)
HandlersSerialised ==
  /\ \A t \in Tasks : job[t] # Idle <=> InQueue(t)
  /\ \A i, j \in DOMAIN lockQueue : lockQueue[i] = lockQueue[j] => i = j
  /\ \A t \in Tasks : job[t].pc \notin {"idle", "queued"} => t = Head(lockQueue)

\* Between two enter()s a guarded tool is dispatched and returns at most once,
\* although the check precedes two suspensions and the record follows them.
\* (tool_executor: the duplicate check, the dispatch and record_tool_called, for
\* calls by the tool's own name: see DuplicatesAreRejected.)
OncePerPhase == \A tool \in OneCallTools : runs[tool] <= 1

\* The thresholds start at most one transfer, although the event loop (caller
\* frustration) and a tool handler (tool failures) can cross them at once and
\* each then waits for seconds. (check_escalation.)
EscalatesOnce == announcements <= 1

\* The gate follows the server: it is open during a response only while the
\* response.created is unread, and shut only while a response or its unread
\* response.done is there to open it. (send_event, _dispatch_event and
\* wait_for_response_done; without timeouts and broken sockets.)
GateFollowsServer ==
  ws = "up" =>
    /\ ready /\ resp = "active" => \E i \in DOMAIN inbox : inbox[i].kind = "created"
    /\ ~ready => resp = "active" \/ \E i \in DOMAIN inbox : inbox[i].kind = "done"

\* VERIFY, where unknown callers are identified, is left by a turn taken in it or
\* after one: the phase_complete of a response made in VERIFY waits until that
\* response is counted, however responses, handlers and voice activity interleave.
\* One called before VERIFY was entered may still end it, which is the subject of
\* CompletesThePhaseItWasCalledIn. (handle, wait_for_response_done, record_turn;
\* while the socket is up, without timeouts and broken sockets.)
VerifyTakesATurn ==
  [][phase = "VERIFY" /\ phase' # "VERIFY" /\ ws = "up"
       => turns > 0 \/ AutoAdvance \/ job[Head(lockQueue)].asked # "VERIFY"]_vars

\* The category changes only on the way from TRIAGE to DIAGNOSE, so a
\* phase_complete that waited for a response while the phase moved on cannot
\* reclassify the call. (the phase_complete branch of tool_executor.handle.)
ClassifiedInTriage ==
  [][category' # category => phase = "TRIAGE" /\ phase' = "DIAGNOSE"]_vars

----------------------------------------------------------------------------
(* Liveness, under Fairness.                                               *)

\* Every tool call is handled to the end: neither the lock, nor the gate, nor
\* an announcement nor a close leaves a handler waiting for good. (handle.)
ToolCallsAreHandled ==
  \A t \in Tasks : job[t].pc = "queued" ~> job[t] = Idle

\* A threshold escalation reaches the transfer and the end of the session, also
\* when the event loop itself waits for an event only it can read.
\* (record_frustration called from _dispatch_event; refer succeeds.)
EscalationCompletes == escalated ~> (referred /\ loop = "ended")

\* Closing on purpose ends the event loop. (close, connect; no broken sockets.)
CloseEndsSession == closing ~> loop = "ended"

----------------------------------------------------------------------------
(* Statements of the repository's documents that the code does not keep.   *)

\* conversation_fsm.py: "A per-phase turn counter auto-advances the FSM if the
\* model forgets to call phase_complete": a phase_complete then advances the
\* phase it was called in, not the one the counter already advanced to.
CompletesThePhaseItWasCalledIn ==
  [][\A t \in Tasks : (/\ job[t].tool = "phase_complete" /\ job[t].pc \in {"queued", "open"}
                       /\ job'[t] = Idle)
                      => job[t].asked = phase]_vars

\* tool_executor.py: "We track which tools have been called in the current phase
\* and short-circuit any duplicate call": what has run since the phase was entered
\* is not dispatched again, under whatever name the model calls it.
DuplicatesAreRejected ==
  [][\A t \in Tasks : (/\ Canonical(job[t].tool) \in OneCallTools
                       /\ job[t].pc # "dispatch" /\ job'[t].pc = "dispatch")
                      => runs[Canonical(job[t].tool)] = 0]_vars

\* tool_executor.py: "For escalation the call is transferring -- close the
\* WebSocket so the agent leaves the call after the SIP REFER is sent": the
\* session is closed on purpose after a transfer or at the end of WRAP_UP only.
ClosesAfterTransferOrWrapUp ==
  [][closing' /\ ~closing => referred' \/ phase = "WRAP_UP"]_vars

=============================================================================
