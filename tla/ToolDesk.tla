------------------------------ MODULE ToolDesk ------------------------------
(***************************************************************************)
(* What the tools do to the database while calls go on: the dispatch with  *)
(* its phase guard, its one retry and its timeout (tool_executor.py), the  *)
(* lookups and ticket queries (db/repository.py), and the tools a call is  *)
(* offered meanwhile (ToolCatalogue).                                      *)
(*                                                                         *)
(* One tool runs at a time in a call (the tool lock; Conversation has its  *)
(* queue), but calls share the tables. A transaction loads, writes and     *)
(* commits in separate steps; its acknowledgement may be lost, and a       *)
(* timeout abandons it without knowing whether the commit takes effect.    *)
(***************************************************************************)
EXTENDS Naturals, FiniteSets, ToolCatalogue

CONSTANTS
  Sessions,      \* the calls
  Casts,         \* the sets of calls that go on together in this instance
  Moving,        \* those whose conversation goes on; the others stay in RESOLVE
  Repertoire,    \* the tools the model calls in each session of this instance
  TicketIds,     \* the ticket numbers create_ticket may draw
  SeededStatus,  \* the tickets of db/seed.py, with their status
  Accounts,      \* account ids, of customers or not
  Given,         \* those the model may give in each call
  PhoneOf,       \* the customers of db/seed.py, with the phone number on record
  Lines,         \* the telephone lines, all of the North American plan
  CallerNumber,  \* the number in the From header of each call
  NoNumber,      \* there is none
  Statuses,      \* the ticket statuses the model may give
  FailureLimit,  \* settings.escalation_tool_failure_limit
  FailedBefore,  \* the failures a call has had when the model meets it
  NoSession, NoTicket, NoAccount, NoStatus,
  Env            \* which troubles the environment may cause

Customers == DOMAIN PhoneOf
Seeded    == DOMAIN SeededStatus
Forms     == {"e164", "eleven", "ten"}  \* +14165550102, 14165550102, 4165550102
Numbers   == [line : Lines, form : Forms]
Done      == {"resolved", "closed"}

ASSUME DeskAssumption ==
  /\ Moving \subseteq Sessions /\ Casts \subseteq SUBSET Sessions
  /\ Repertoire \in [Sessions -> SUBSET (ToolNames \cup DOMAIN Synonyms)]
  /\ Seeded \subseteq TicketIds /\ SeededStatus \in [Seeded -> Statuses]
  /\ Given \in [Sessions -> SUBSET Accounts]
  /\ Customers \subseteq Accounts /\ Customers # {}
  /\ PhoneOf \in [Customers -> [line : Lines, form : {"e164"}]]
  /\ \A a, b \in Customers : PhoneOf[a] = PhoneOf[b] => a = b  \* phone_number is unique
  /\ CallerNumber \in [Sessions -> Numbers \cup {NoNumber}]
  /\ "open" \in Statuses /\ NoStatus \notin Statuses \cup Done
  /\ FailureLimit \in Nat \ {0}
  /\ FailedBefore \in [Sessions -> 0..(FailureLimit - 1)]
  /\ NoSession \notin Sessions /\ NoTicket \notin TicketIds /\ NoAccount \notin Accounts
  /\ NoNumber \notin Numbers
  /\ Env \subseteq {"failure"}  \* the database or the provider fails or hangs

VARIABLES
  phase, category,  \* call.phase, call.service_category
  over,             \* the session is closed, or is being transferred
  job,              \* the tool call the session's handler works on
  answer,           \* what the last tool call was answered
  failures,         \* call.tool_failure_count, up to FailureLimit
  handoff,          \* the task of _write_handoff_context
  tickets,          \* the table support_tickets
  abandoned,        \* transactions whose handler has timed out
  made, ackLost,    \* history: tickets committed by the current tool call; an
                    \* acknowledgement was lost on the way
  overtaken         \* history: someone else wrote to the ticket since it was loaded

talkVars  == <<phase, category, over>>
deskVars  == <<job, answer, failures, handoff>>
tableVars == <<tickets, abandoned>>
ghostVars == <<made, ackLost, overtaken>>
vars == <<talkVars, deskVars, tableVars, ghostVars>>

----------------------------------------------------------------------------
(* Types.                                                                  *)

NoRow == [account |-> NoAccount, status |-> NoStatus, resolvedAt |-> FALSE, by |-> NoSession]

Row == [account : Accounts, status : Statuses, resolvedAt : BOOLEAN,
        by : Sessions \cup {NoSession}]

NoArgs == [account |-> NoAccount, id |-> NoTicket, status |-> NoStatus]

Args == [account : Accounts \cup {NoAccount}, id : TicketIds \cup {NoTicket},
         status : Statuses \cup {NoStatus}]

\* id: the ticket the transaction inserts, or has loaded with this status.
Transaction == [args : Args, id : TicketIds, loaded : Statuses \cup {NoStatus}]

NoTransaction == [args |-> NoArgs, id |-> NoTicket, loaded |-> NoStatus]

Idle == [pc |-> "idle", tool |-> "none", args |-> NoArgs, from |-> "none", tries |-> 0,
         tx |-> NoTransaction]

Job == [pc : {"queued",    \* waits for the tool lock and the response's end
              "dispatch",  \* _dispatch begins
              "commit",    \* a transaction is written but not committed
              "refer",     \* the SIP REFER is under way
              "backoff"},  \* sleeps before the retry
        tool : ToolNames,
        args : Args,
        from : Phases \cup {"none"},  \* whose configuration offered the tool, if one did
        tries : 1..2,
        tx : Transaction \cup {NoTransaction}]

NoAnswer == [kind |-> "none", id |-> NoTicket, status |-> NoStatus, account |-> NoAccount]

Answer == [kind : {"none",      \* none yet, or one nothing depends on
                   "early",     \* refused by the phase guard, see Blocked
                   "found", "stranger",     \* a lookup by phone found a customer, or none
                   "created", "updated"},
           id : TicketIds \cup {NoTicket},
           status : Statuses \cup {NoStatus},
           account : Accounts \cup {NoAccount}]

TypeOK ==
  /\ phase \in [Sessions -> Phases]
  /\ category \in [Sessions -> Categories \cup {NoCategory}]
  /\ over \in [Sessions -> BOOLEAN]
  /\ job \in [Sessions -> Job \cup {Idle}]
  /\ answer \in [Sessions -> Answer]
  /\ failures \in [Sessions -> 0..FailureLimit]
  /\ handoff \in [Sessions -> {"none", "due", "saved", "failed"}]
  /\ tickets \in [TicketIds -> Row \cup {NoRow}]
  /\ abandoned \subseteq Transaction \X Sessions
  /\ made \in [Sessions -> Nat]
  /\ ackLost \in [Sessions -> BOOLEAN]
  /\ overtaken \in [Sessions -> BOOLEAN]

----------------------------------------------------------------------------
(* The conversation, as far as it decides which tools are offered.         *)

\* The caller was found by the number in the From header: call.account_id is set.
Form(number, form) == [number EXCEPT !.form = form]

\* Mutant: a ten-digit number is looked up as it is.
CandidatesAsIs(number) ==
  IF number.form = "ten" THEN {number} ELSE {number, Form(number, "e164"), Form(number, "ten")}

\* _normalize_phone_candidates
Candidates(number) == {number, Form(number, "e164"), Form(number, "ten")}

\* find_customer by phone
CustomersAt(number) == {a \in Customers : PhoneOf[a] \in Candidates(number)}

Known(s) == CallerNumber[s] # NoNumber /\ CustomersAt(CallerNumber[s]) # {}

Successor(s) == CASE phase[s] = "GREETING" -> IF Known(s) THEN "TRIAGE" ELSE "VERIFY"
                  [] phase[s] = "VERIFY"   -> "TRIAGE"
                  [] phase[s] = "TRIAGE"   -> "DIAGNOSE"
                  [] phase[s] = "DIAGNOSE" -> "RESOLVE"
                  [] OTHER                 -> "WRAP_UP"

Advance(s) == IF phase[s] = "WRAP_UP"
              THEN over' = [over EXCEPT ![s] = TRUE] /\ UNCHANGED phase
              ELSE phase' = [phase EXCEPT ![s] = Successor(s)] /\ UNCHANGED over

Talking(s) == s \in Moving /\ ~over[s]

\* The tool lock is free, though a call of the same response may wait for it.
LockFree(s) == job[s].pc \in {"idle", "queued"}

Offered(s) == OfferedTools(phase[s], category[s])

\* phase_complete; in TRIAGE it may bring a category.
PhaseComplete(s) ==
  /\ Talking(s) /\ LockFree(s) /\ "phase_complete" \in Offered(s)
  /\ \/ phase[s] = "TRIAGE" /\ \E c \in Categories : category' = [category EXCEPT ![s] = c]
     \/ UNCHANGED category
  /\ Advance(s)
  /\ UNCHANGED <<deskVars, tableVars, ghostVars>>

\* record_turn auto-advances, also while a tool runs.
TurnLimit(s) ==
  /\ Talking(s) /\ Advance(s)
  /\ UNCHANGED <<category, deskVars, tableVars, ghostVars>>

ReportNewIssue(s) ==
  /\ Talking(s) /\ LockFree(s) /\ "report_new_issue" \in Offered(s)
  /\ phase' = [phase EXCEPT ![s] = "TRIAGE"]
  /\ UNCHANGED <<category, over, deskVars, tableVars, ghostVars>>

----------------------------------------------------------------------------
(* A tool call: its handler, its retry and its end.                        *)

\* What the arguments may be, for the tools whose effect depends on them: the number
\* of a ticket or one that no ticket has, a new status or only a priority.
ArgsOf(s, tool) ==
  {args \in Args :
     /\ IF tool = "create_ticket" THEN args.account \in Given[s] ELSE args.account = NoAccount
     /\ IF tool = "update_ticket" THEN args.id = NoTicket \/ tickets[args.id] # NoRow
                                  ELSE args.id = NoTicket /\ args.status = NoStatus}

\* The model calls a tool it is offered, or one by an invented name; the call waits
\* for the tool lock and for its response to be done.
ToolCall(s) ==
  /\ ~over[s] /\ job[s].pc = "idle"
  /\ \E name \in Repertoire[s] \cap (Offered(s) \cup DOMAIN Synonyms) :
     \E args \in ArgsOf(s, Resolved(name)) :
       job' = [job EXCEPT ![s] = [pc |-> "queued", tool |-> Resolved(name), args |-> args,
                                  from |-> IF name \in Offered(s) THEN phase[s] ELSE "none",
                                  tries |-> 1, tx |-> NoTransaction]]
  /\ answer' = [answer EXCEPT ![s] = NoAnswer]
  /\ made' = [made EXCEPT ![s] = 0]
  /\ ackLost' = [ackLost EXCEPT ![s] = FALSE]
  /\ overtaken' = [overtaken EXCEPT ![s] = FALSE]
  /\ UNCHANGED <<talkVars, failures, handoff, tableVars>>

\* Its turn has come; from here on the timeout runs.
Start(s) ==
  /\ job[s].pc = "queued"
  /\ job' = [job EXCEPT ![s].pc = "dispatch"]
  /\ UNCHANGED <<talkVars, answer, failures, handoff, tableVars, ghostVars>>

\* The handler has its result and sends it to the model.
Reply(s, reply) ==
  /\ job' = [job EXCEPT ![s] = Idle]
  /\ answer' = [answer EXCEPT ![s] = reply]

Says(kind) == [NoAnswer EXCEPT !.kind = kind]

\* The tool failed or timed out: counted, and at the limit the call is transferred.
Fail(s) ==
  /\ Reply(s, NoAnswer)
  /\ failures' = [failures EXCEPT ![s] = IF @ < FailureLimit THEN @ + 1 ELSE @]
  /\ over' = [over EXCEPT ![s] = @ \/ (job[s].tool # "escalate_to_agent"
                                       /\ failures[s] + 1 >= FailureLimit)]
  /\ UNCHANGED <<phase, category, handoff>>

\* Mutant: as many retries as it takes.
RetriesForGood(s) == TRUE

RetryLeft(s) == job[s].tries = 1

\* _dispatch_with_retry: a transient error is retried once, after a sleep.
TransientError(s) ==
  IF RetryLeft(s)
  THEN /\ job' = [job EXCEPT ![s].pc = "backoff", ![s].tx = NoTransaction]
       /\ UNCHANGED <<talkVars, answer, failures, handoff>>
  ELSE Fail(s)

Retry(s) ==
  /\ job[s].pc = "backoff"
  /\ job' = [job EXCEPT ![s].pc = "dispatch", ![s].tries = @ + 1]
  /\ UNCHANGED <<talkVars, answer, failures, handoff, tableVars, ghostVars>>

\* Mutant: the timeout covers the first attempt only.
TimesOutAtFirst(s) == job[s].pc \notin {"idle", "queued", "backoff"} /\ job[s].tries = 1

TimerRuns(s) == job[s].pc \notin {"idle", "queued"}

\* asyncio.wait_for gives up, over both attempts and the sleep between them.
ToolTimesOut(s) ==
  /\ TimerRuns(s)
  /\ Fail(s)
  /\ abandoned' = IF job[s].pc = "commit" THEN abandoned \cup {<<job[s].tx, s>>} ELSE abandoned
  /\ UNCHANGED <<tickets, ghostVars>>

----------------------------------------------------------------------------
(* _dispatch.                                                              *)

Runs(s, tools) ==
  job[s].pc = "dispatch" /\ job[s].tool \in tools /\ job[s].tool \in AllowedTools(phase[s])

\* The phase guard. "early": the tool was offered for this very phase.
Blocked(s) ==
  /\ job[s].pc = "dispatch" /\ job[s].tool \notin AllowedTools(phase[s])
  /\ Reply(s, Says(IF job[s].from = phase[s] THEN "early" ELSE "none"))
  /\ UNCHANGED <<talkVars, failures, handoff, tableVars, ghostVars>>

\* The database is locked or gone, or an argument is missing.
DispatchRaises(s) ==
  /\ "failure" \in Env
  /\ job[s].pc = "dispatch" /\ job[s].tool \in AllowedTools(phase[s])
  /\ TransientError(s) \/ Fail(s)
  /\ UNCHANGED <<tableVars, ghostVars>>

\* find_customer for the caller's number in one of its forms, or for a number
\* the model made up.
LookUpByPhone(s) ==
  /\ Runs(s, CustomerLookup)
  /\ \E number \in Numbers :
       Reply(s, IF CallerNumber[s] = NoNumber \/ number \notin Candidates(CallerNumber[s])
                THEN NoAnswer
                ELSE IF CustomersAt(number) = {} THEN Says("stranger")
                ELSE [Says("found") EXCEPT !.account = CHOOSE a \in CustomersAt(number) : TRUE])
  /\ UNCHANGED <<talkVars, failures, handoff, tableVars, ghostVars>>

\* The lookups that change nothing.
ReadRows(s) ==
  /\ Runs(s, CustomerLookup \cup AccountTools \cup CatalogTools \cup {"get_ticket"})
  /\ Reply(s, NoAnswer)
  /\ UNCHANGED <<talkVars, failures, handoff, tableVars, ghostVars>>

AskStub(s) ==
  /\ Runs(s, StubTools)
  /\ Reply(s, NoAnswer)
  /\ UNCHANGED <<talkVars, failures, handoff, tableVars, ghostVars>>

\* create_ticket draws a number and adds a row, for any account it is given.
BeginCreate(s) ==
  /\ Runs(s, {"create_ticket"})
  /\ \E id \in TicketIds :
       job' = [job EXCEPT ![s].pc = "commit",
                          ![s].tx = [args |-> job[s].args, id |-> id, loaded |-> NoStatus]]
  /\ UNCHANGED <<talkVars, answer, failures, handoff, tableVars, ghostVars>>

\* update_ticket loads the row.
BeginUpdate(s) ==
  /\ Runs(s, {"update_ticket"}) /\ job[s].args.id # NoTicket
  /\ job' = [job EXCEPT ![s].pc = "commit",
                        ![s].tx = [args |-> job[s].args, id |-> job[s].args.id,
                                   loaded |-> tickets[job[s].args.id].status]]
  /\ overtaken' = [overtaken EXCEPT ![s] = FALSE]
  /\ UNCHANGED <<talkVars, answer, failures, handoff, tableVars, made, ackLost>>

UpdateMissing(s) ==
  /\ Runs(s, {"update_ticket"}) /\ job[s].args.id = NoTicket
  /\ Reply(s, NoAnswer)
  /\ UNCHANGED <<talkVars, failures, handoff, tableVars, ghostVars>>

\* escalate_to_agent: the handoff task is created before the REFER is sent.
BeginTransfer(s) ==
  /\ Runs(s, TransferTool)
  /\ job' = [job EXCEPT ![s].pc = "refer"]
  /\ handoff' = [handoff EXCEPT ![s] = "due"]
  /\ UNCHANGED <<talkVars, answer, failures, tableVars, ghostVars>>

----------------------------------------------------------------------------
(* The transactions.                                                       *)

IsInsert(tx) == tx.loaded = NoStatus

\* Mutant: the status is compared before it is assigned.
StampedTooEarly(row, tx) ==
  [row EXCEPT !.status = IF tx.args.status \in {NoStatus, tx.loaded} THEN @ ELSE tx.args.status,
              !.resolvedAt = @ \/ tx.loaded \in Done]

\* Mutant: a ticket that is done is not written to.
KeptIfDone(row, tx) ==
  IF row.status \in Done THEN row
  ELSE [row EXCEPT !.status = IF tx.args.status = NoStatus THEN @ ELSE tx.args.status,
                   !.resolvedAt = @ \/ tx.args.status \in Done]

\* The UPDATE names the columns that differ from what was loaded.
Updated(row, tx) ==
  [row EXCEPT !.status = IF tx.args.status \in {NoStatus, tx.loaded} THEN @ ELSE tx.args.status,
              !.resolvedAt = @ \/ tx.args.status \in Done]

\* Mutant: create_ticket merges its row into the table, as save_cdr does.
Merges(tx) == TRUE

\* The ticket number is free, or the row is there to be updated.
CanCommit(tx) == IsInsert(tx) => tickets[tx.id] = NoRow

\* The table and who has been overtaken, after s (or nobody) has committed tx.
Commit(tx, owner, s) ==
  /\ tickets' = [tickets EXCEPT ![tx.id] =
       IF IsInsert(tx)
       THEN [account |-> tx.args.account, status |-> "open", resolvedAt |-> FALSE, by |-> owner]
       ELSE Updated(@, tx)]
  /\ overtaken' = [t \in Sessions |->
       overtaken[t] \/ (t # s /\ tx.id \in {job[t].tx.id, answer[t].id})]

\* What the caller is told of the ticket.
Told(tx) ==
  IF IsInsert(tx) THEN [Says("created") EXCEPT !.id = tx.id, !.account = tx.args.account]
  ELSE [Says("updated") EXCEPT !.id = tx.id,
                               !.status = IF tx.args.status = NoStatus THEN tx.loaded
                                                                       ELSE tx.args.status]

Count(s) == made' = IF IsInsert(job[s].tx) THEN [made EXCEPT ![s] = @ + 1] ELSE made

Committed(s) ==
  /\ job[s].pc = "commit" /\ CanCommit(job[s].tx)
  /\ Commit(job[s].tx, s, s) /\ Count(s)
  /\ Reply(s, Told(job[s].tx))
  /\ UNCHANGED <<talkVars, failures, handoff, abandoned, ackLost>>

\* The commit takes effect, but the connection breaks before it is acknowledged.
AckLost(s) ==
  /\ "failure" \in Env /\ job[s].pc = "commit" /\ CanCommit(job[s].tx)
  /\ Commit(job[s].tx, s, s) /\ Count(s)
  /\ ackLost' = [ackLost EXCEPT ![s] = TRUE]
  /\ TransientError(s)
  /\ UNCHANGED abandoned

\* The commit fails, for good or with an error that looks transient.
CommitFails(s) ==
  /\ "failure" \in Env /\ job[s].pc = "commit"
  /\ TransientError(s)
  /\ UNCHANGED <<tableVars, ghostVars>>

\* The drawn ticket number is taken: an integrity error, never retried.
NumberTaken(s) ==
  /\ job[s].pc = "commit" /\ ~CanCommit(job[s].tx)
  /\ Fail(s)
  /\ UNCHANGED <<tableVars, ghostVars>>

\* An abandoned transaction is committed after all, or rolled back.
AbandonedSettles ==
  \E entry \in abandoned :
    /\ abandoned' = abandoned \ {entry}
    /\ \/ CanCommit(entry[1]) /\ Commit(entry[1], entry[2], NoSession)
       \/ UNCHANGED <<tickets, overtaken>>
    /\ UNCHANGED <<talkVars, deskVars, made, ackLost>>

----------------------------------------------------------------------------
(* The transfer and the handoff packet.                                    *)

ReferAccepted(s) ==
  /\ job[s].pc = "refer"
  /\ Reply(s, NoAnswer)
  /\ over' = [over EXCEPT ![s] = TRUE]
  /\ UNCHANGED <<phase, category, failures, handoff, tableVars, ghostVars>>

ReferFails(s) ==
  /\ "failure" \in Env /\ job[s].pc = "refer"
  /\ TransientError(s) \/ Fail(s)
  /\ UNCHANGED <<tableVars, ghostVars>>

\* save_escalation_context, in a task of its own.
HandoffSettles(s) ==
  /\ handoff[s] = "due"
  /\ \E result \in {"saved"} \cup (IF "failure" \in Env THEN {"failed"} ELSE {}) :
       handoff' = [handoff EXCEPT ![s] = result]
  /\ UNCHANGED <<talkVars, job, answer, failures, tableVars, ghostVars>>

----------------------------------------------------------------------------
Init ==
  /\ phase = [s \in Sessions |-> IF s \in Moving THEN "GREETING" ELSE "RESOLVE"]
  /\ category = [s \in Sessions |-> IF s \in Moving THEN NoCategory ELSE "technical_support"]
  /\ \E cast \in Casts : over = [s \in Sessions |-> s \notin cast]
  /\ job = [s \in Sessions |-> Idle]
  /\ answer = [s \in Sessions |-> NoAnswer]
  /\ failures = FailedBefore
  /\ handoff = [s \in Sessions |-> "none"]
  /\ \E a \in Customers :
       tickets = [id \in TicketIds |->
                    IF id \in Seeded
                    THEN [account |-> a, status |-> SeededStatus[id], resolvedAt |-> FALSE,
                          by |-> NoSession]
                    ELSE NoRow]
  /\ abandoned = {}
  /\ made = [s \in Sessions |-> 0]
  /\ ackLost = [s \in Sessions |-> FALSE]
  /\ overtaken = [s \in Sessions |-> FALSE]

Conversation(s) == PhaseComplete(s) \/ TurnLimit(s) \/ ReportNewIssue(s)

Dispatch(s) ==
  \/ Blocked(s) \/ DispatchRaises(s) \/ LookUpByPhone(s) \/ ReadRows(s) \/ AskStub(s)
  \/ BeginCreate(s) \/ BeginUpdate(s) \/ UpdateMissing(s) \/ BeginTransfer(s)

Transact(s) == Committed(s) \/ AckLost(s) \/ CommitFails(s) \/ NumberTaken(s)

\* Nothing is left to happen.
CallsOver ==
  /\ \A s \in Sessions : over[s] /\ job[s].pc = "idle" /\ handoff[s] # "due"
  /\ abandoned = {}
  /\ UNCHANGED vars

Next ==
  \/ \E s \in Sessions :
       \/ Conversation(s) \/ ToolCall(s) \/ Start(s) \/ Dispatch(s) \/ Transact(s)
       \/ Retry(s) \/ ToolTimesOut(s) \/ ReferAccepted(s) \/ ReferFails(s) \/ HandoffSettles(s)
  \/ AbandonedSettles
  \/ CallsOver

Spec == Init /\ [][Next]_vars

\* A handler whose turn has come starts (Conversation: ToolCallsAreHandled), sleeps end
\* and the timer of wait_for fires. Of the database it is assumed only that a cancelled
\* session comes back, which wait_for awaits before it raises; of the provider nothing.
Clocked(s) == Start(s) \/ Retry(s) \/ ToolTimesOut(s)

FairSpec == Spec /\ \A s \in Sessions : WF_vars(Clocked(s))

----------------------------------------------------------------------------
(* What the callers and the database can count on.                         *)

\* A tool offered in the current phase passes the phase guard, so the model is never
\* told that a tool of its own list is not available. (_tools_for_phase, _dispatch.)
OfferedToolsRun == \A s \in Sessions : answer[s].kind # "early"

\* The phases whose instructions can be followed. Elsewhere they cannot: GREETING and
\* TRIAGE are told to call lookup_customer and do not offer it, and the hints of WRAP_UP
\* name the tools for technical issues to every caller.
Followable(s) ==
  \/ phase[s] \in {"VERIFY", "DIAGNOSE", "RESOLVE"}
  \/ phase[s] = "WRAP_UP" /\ Effective(category[s]) = "technical_support"

\* While the caller is looked up and the issue is worked on, the base instructions and the
\* phase's own name no tool that the same session.update leaves out, also after
\* report_new_issue and with the category that TRIAGE left. (_tools_for_phase,
\* _base_instructions, _diagnose_instructions, _resolve_instructions, build.)
InstructedToolsOffered ==
  \A s \in Sessions :
    Followable(s) => InstructedTools(phase[s], category[s]) \subseteq Offered(s)

\* The ticket whose number is read back to the caller is in the table, for the account
\* it was asked for, whatever other calls and late transactions did since.
AnnouncedTicketExists ==
  \A s \in Sessions :
    answer[s].kind = "created" =>
      LET row == tickets[answer[s].id] IN row.account = answer[s].account /\ row.by = s

\* One create_ticket makes one ticket, and two at the most when the acknowledgement
\* of the first was lost. (_dispatch_with_retry.)
OneTicketPerRequest ==
  \A s \in Sessions : made[s] <= IF ackLost[s] THEN 2 ELSE 1

\* The status read back to the caller is the ticket's, until someone else writes to it
\* from the moment it was loaded. (update_ticket.)
ReadBackHolds ==
  \A s \in Sessions :
    answer[s].kind = "updated" /\ ~overtaken[s] =>
      tickets[answer[s].id].status = answer[s].status

\* A ticket that a call resolved or closed says when, even if several calls changed its
\* status at a time. (update_ticket; tickets seeded as done have no time.)
DoneTicketsAreDated ==
  \A id \in TicketIds :
    tickets[id].status \in Done /\ ~(id \in Seeded /\ SeededStatus[id] \in Done) =>
      tickets[id].resolvedAt

\* A lookup by the caller's own number finds the customer with that line, in whatever
\* form the number came, and finds no one only if no customer has it. (find_customer.)
OwnNumberIsFound ==
  \A s \in Sessions :
    /\ answer[s].kind = "found" => PhoneOf[answer[s].account].line = CallerNumber[s].line
    /\ answer[s].kind = "stranger" =>
         \A a \in Customers : PhoneOf[a].line # CallerNumber[s].line

\* Every tool call comes to its end, also when the database never answers a query: the
\* tool lock is free again. (asyncio.wait_for around _dispatch_with_retry.)
ToolCallsEnd == \A s \in Sessions : (job[s].pc # "idle") ~> (job[s].pc = "idle")

=============================================================================
