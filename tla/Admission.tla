------------------------------ MODULE Admission ------------------------------
(***************************************************************************)
(* How a call gets in, and how it stands in the store until it is over:    *)
(* webhook_handler.py with its three gates, the accept and reject tasks,   *)
(* the Call objects of state_store.py, and what the gates read of it: the  *)
(* maintenance flag, the day's cost with its alert, and the reconnect      *)
(* failures of the circuit breaker. The process may stop and be started    *)
(* again (main.py), which keeps only the call detail records.              *)
(*                                                                         *)
(* The state store never suspends its caller, so a webhook is handled in   *)
(* one step; the tasks it creates suspend at the database and at the       *)
(* provider. A webhook may be delivered more than once. Of a session       *)
(* (CallLifecycle has its inside) this module keeps what it, its tool      *)
(* handlers and the operators write to the state of the stored call.       *)
(***************************************************************************)
EXTENDS Naturals, Sequences, FiniteSets

CONSTANTS
  Webhooks,      \* the deliveries of "realtime.call.incoming"
  Calls,
  CallOf,        \* the call a delivery is about
  NoObject,      \* no Call object
  Threshold,     \* circuit_breaker_failure_threshold
  Window,        \* circuit_breaker_window_seconds, in ticks
  Cooldown,      \* circuit_breaker_cooldown_seconds, in ticks
  Remember,      \* maxlen of _reconnect_failure_timestamps
  Budget,        \* daily_budget_usd, in units of cost; 0: no limit
  HistoryLimit,  \* cdr_history_limit
  Casts          \* who may take part: the behaviours that are looked at

Troubles == {"failure",      \* a request or the database fails
             "restart",      \* the process stops and is started again
             "maintenance",  \* operators switch the maintenance mode
             "transfer",     \* thresholds, tools and operators refer calls
             "hangup",       \* operators hang up
             "spending",     \* sessions report usage, and days pass
             "outage"}       \* sessions of other calls fail to reconnect

ASSUME AdmissionAssumption ==
  /\ CallOf \in [Webhooks -> Calls]
  /\ NoObject \notin Webhooks \cup Calls /\ Webhooks \cap Calls = {}
  /\ {Threshold, Remember, HistoryLimit} \subseteq Nat \ {0}
  /\ {Window, Cooldown, Budget} \subseteq Nat
  /\ Threshold <= Remember
  /\ Casts \subseteq [webhooks : SUBSET Webhooks, troubles : SUBSET Troubles]

VARIABLES
  cast,         \* the deliveries and the troubles of this behaviour
  object,       \* the state of each Call object
  escalated,    \* the objects whose threshold has triggered a transfer
  record,       \* _calls: the object now stored for a call
  held,         \* the object an accept task, and later _save_cdr, holds
  task,         \* the accept or reject task of each delivery, and its session
  requests,     \* the referrals and hangups of each call not yet answered
  leg,          \* the provider's side of each call
  cdrs,         \* the calls with a detail record, oldest first
  saved,        \* the state in the record of a call
  maintenance,  \* _maintenance_mode
  ages,         \* _reconnect_failure_timestamps, as ages up to Window + 1
  cost, rolled, \* _daily_cost_usd; _daily_cost_date is no longer today
  alerted,      \* _budget_alert_fired_today
  late,         \* history: the calls a transfer was written to without a session
  tally,        \* history: failures by age, none forgotten, up to Threshold each
  spent,        \* history: today's cost, also of before a restart, up to Budget
  alerts,       \* history: budget alerts of this process today, up to 2
  restarted     \* history: the process was started again today

taskVars    == <<object, record, held, task, leg, cdrs, saved>>
otherVars   == <<escalated, requests, late>>
breakerVars == <<ages, tally>>
budgetVars  == <<cost, rolled, alerted, spent, alerts>>
gateVars    == <<maintenance, breakerVars, budgetVars, restarted, cast>>
vars == <<taskVars, otherVars, gateVars>>

\* The object made for a delivery; the one load_recent_cdrs makes for a call.
Objects == Webhooks \cup Calls

TaskPC == {"none",        \* not delivered
           "queued",      \* _accept_call created, not started
           "lookup",      \* waits for the caller-ID lookup
           "accept",      \* waits for the answer to the accept request
           "session",     \* SessionManager.connect runs
           "gaveUp",      \* _handle_ws_failure waits for its hangup
           "grace",       \* _teardown waits for a transfer and its hangup
           "saving",      \* the task of _save_cdr is created
           "over",        \* nothing is left to run
           "failed",      \* the accept failed
           "reject",      \* _reject_call waits for its answer
           "rejected",
           "unanswered",  \* the reject request failed: nothing more is done
           "lost"}        \* the process stopped

Requests == {"threshold",  \* refer of check_escalation
             "refer",      \* refer of escalate_to_agent or of an operator
             "hangup"}     \* hangup of an operator

Legs   == {"silent", "ringing", "up", "gone"}
States == {"RINGING", "ACTIVE", "TRANSFERRING", "ENDED", "FAILED"}
Final  == {"ENDED", "FAILED"}

TypeOK ==
  /\ cast \in Casts
  /\ object \in [Objects -> States] /\ escalated \subseteq Objects
  /\ record \in [Calls -> Objects \cup {NoObject}]
  /\ held \in [Webhooks -> Objects \cup {NoObject}]
  /\ task \in [Webhooks -> TaskPC]
  /\ requests \in [Calls -> SUBSET Requests]
  /\ leg \in [Calls -> Legs]
  /\ cdrs \in Seq(Calls) /\ saved \in [Calls -> States]
  /\ late \subseteq Calls
  /\ maintenance \in BOOLEAN
  /\ ages \in Seq(0..Window + 1) /\ Len(ages) <= Remember
  /\ cost \in 0..Budget /\ spent \in 0..Budget /\ alerts \in 0..2
  /\ rolled \in BOOLEAN /\ alerted \in BOOLEAN /\ restarted \in BOOLEAN
  /\ tally \in [0..Window -> 0..Threshold]

Happens(trouble) == trouble \in cast.troubles

----------------------------------------------------------------------------
(* The gates.                                                              *)

AtMost(n, bound) == IF n < bound THEN n ELSE bound

Recent == {i \in DOMAIN ages : ages[i] <= Window}

\* Mutant: the cooldown is counted from the first failure in the window.
CircuitOpenFromFirst == /\ Cardinality(Recent) >= Threshold
                        /\ \A i \in Recent : ages[i] < Cooldown

\* Mutant: every failure still in the deque counts.
CircuitOpenForGood == Len(ages) >= Threshold

\* is_circuit_open
CircuitOpen == /\ Cardinality(Recent) >= Threshold
               /\ \E i \in Recent : ages[i] < Cooldown

\* Mutant: the date of the accumulator is not looked at.
ExhaustedAnyDay == Budget > 0 /\ cost >= Budget

\* get_daily_cost_usd against daily_budget_usd
BudgetExhausted == Budget > 0 /\ ~rolled /\ cost >= Budget

GatesShut == maintenance \/ BudgetExhausted \/ CircuitOpen

TaskFor == IF GatesShut THEN "reject" ELSE "queued"

----------------------------------------------------------------------------
(* _handle_call_incoming, _accept_call, _reject_call.                      *)

StateOf(c) == IF record[c] \in Objects THEN object[record[c]] ELSE "none"

\* update_call of the object stored for c, which is changed in place.
SetState(c, s) ==
  object' = [o \in Objects |-> IF o = record[c] THEN s ELSE object[o]]

Goto(w, pc) == task' = [task EXCEPT ![w] = pc]

\* A delivery replaces the record of its call, whatever state it is in.
Deliver(w) ==
  LET c == CallOf[w]
  IN /\ task[w] = "none" /\ w \in cast.webhooks
     /\ object' = [object EXCEPT ![w] = "RINGING"]
     /\ record' = [record EXCEPT ![c] = w]
     /\ leg' = [leg EXCEPT ![c] = IF @ = "silent" THEN "ringing" ELSE @]
     /\ Goto(w, TaskFor)
     /\ UNCHANGED <<held, cdrs, saved, otherVars, gateVars>>

StartAccept(w) ==
  /\ task[w] = "queued"
  /\ held' = [held EXCEPT ![w] = record[CallOf[w]]]
  /\ Goto(w, "lookup")
  /\ UNCHANGED <<object, record, leg, cdrs, saved, otherVars, gateVars>>

\* The lookup finds the caller: the object held takes the account and is stored
\* again. The account itself is of no interest here.
CallerFound(w) ==
  /\ task[w] = "lookup" /\ held[w] \in Objects
  /\ record' = [record EXCEPT ![CallOf[w]] = held[w]]
  /\ Goto(w, "accept")
  /\ UNCHANGED <<object, held, leg, cdrs, saved, otherVars, gateVars>>

\* No number, no such customer, or a failed lookup, which is only logged.
CallerUnknown(w) ==
  /\ task[w] = "lookup"
  /\ Goto(w, "accept")
  /\ UNCHANGED <<object, record, held, leg, cdrs, saved, otherVars, gateVars>>

\* call_controller.accept returns and the session is started.
Accepted(w) ==
  LET c == CallOf[w]
  IN /\ task[w] = "accept" /\ leg[c] = "ringing"
     /\ leg' = [leg EXCEPT ![c] = "up"]
     /\ SetState(c, "ACTIVE")
     /\ Goto(w, "session")
     /\ UNCHANGED <<record, held, cdrs, saved, otherVars, gateVars>>

\* Mutant: a failed accept is logged, but the record is left as it is.
AcceptFailsQuietly(w) ==
  /\ task[w] = "accept" /\ leg[CallOf[w]] # "ringing"
  /\ Goto(w, "failed")
  /\ UNCHANGED <<object, record, held, leg, cdrs, saved, otherVars, gateVars>>

\* Mutant: the accept request has no timeout.
AcceptWithoutTimeout(w) ==
  LET c == CallOf[w]
  IN /\ task[w] = "accept" /\ leg[c] = "ringing" /\ Happens("failure")
     /\ leg' \in {leg, [leg EXCEPT ![c] = "up"]}
     /\ SetState(c, "FAILED")
     /\ Goto(w, "failed")
     /\ UNCHANGED <<record, held, cdrs, saved, otherVars, gateVars>>

\* It raises: refused, or carried out with the answer lost.
AcceptFails(w) ==
  LET c == CallOf[w]
  IN /\ task[w] = "accept"
     /\ leg[c] # "ringing" \/ Happens("failure")
     /\ leg' \in {leg, [leg EXCEPT ![c] = IF @ = "ringing" THEN "up" ELSE @]}
     /\ SetState(c, "FAILED")
     /\ Goto(w, "failed")
     /\ UNCHANGED <<record, held, cdrs, saved, otherVars, gateVars>>

Rejected(w) ==
  LET c == CallOf[w]
  IN /\ task[w] = "reject" /\ leg[c] = "ringing"
     /\ leg' = [leg EXCEPT ![c] = "gone"]
     /\ SetState(c, "FAILED")
     /\ Goto(w, "rejected")
     /\ UNCHANGED <<record, held, cdrs, saved, otherVars, gateVars>>

\* A reject that fails is logged; the record stays as it is.
RejectFails(w) ==
  LET c == CallOf[w]
  IN /\ task[w] = "reject"
     /\ leg[c] # "ringing" \/ Happens("failure")
     /\ leg' \in {leg, [leg EXCEPT ![c] = IF @ = "ringing" THEN "gone" ELSE @]}
     /\ Goto(w, "unanswered")
     /\ UNCHANGED <<object, record, held, cdrs, saved, otherVars, gateVars>>

----------------------------------------------------------------------------
(* The end of a session: _handle_ws_failure, _teardown and _save_cdr.      *)

\* Mutant: _teardown saves the record but does not end the call.
LeavesState(w) ==
  /\ held' = [held EXCEPT ![w] = record[CallOf[w]]]
  /\ Goto(w, "saving")
  /\ UNCHANGED object

\* The call is ended unless it is final already, and its record is due.
Ends(w) ==
  LET s == StateOf(CallOf[w])
  IN /\ SetState(CallOf[w], IF s \in Final THEN s ELSE "ENDED")
     /\ held' = [held EXCEPT ![w] = record[CallOf[w]]]
     /\ Goto(w, "saving")

\* _teardown: a call that is transferring is left alone for a while first.
Teardown(w) ==
  IF StateOf(CallOf[w]) = "TRANSFERRING"
  THEN Goto(w, "grace") /\ UNCHANGED <<object, held>>
  ELSE Ends(w)

\* The session ends: closed by either side, or by an error.
SessionEnds(w) ==
  /\ task[w] = "session"
  /\ Teardown(w)
  /\ UNCHANGED <<record, leg, cdrs, saved, otherVars, gateVars>>

\* Carried out by the provider: hangup() ends the call whatever its state was.
HungUp(w) ==
  /\ leg' = [leg EXCEPT ![CallOf[w]] = "gone"]
  /\ SetState(CallOf[w], "ENDED")
  /\ held' = [held EXCEPT ![w] = record[CallOf[w]]]
  /\ Goto(w, "saving")

\* Refused, or carried out with the answer lost.
HangupRefused(c) ==
  /\ leg[c] = "gone" \/ Happens("failure")
  /\ leg' \in {leg, [leg EXCEPT ![c] = "gone"]}

FailureHangupAnswered(w) ==
  /\ task[w] = "gaveUp"
  /\ HungUp(w) \/ (HangupRefused(CallOf[w]) /\ Teardown(w))
  /\ UNCHANGED <<record, cdrs, saved, otherVars, gateVars>>

\* The rest of _teardown after the hangup of a transferred call. If the hangup
\* failed, the call is ended here; one that has been replaced is left.
FarewellAnswered(w) ==
  LET s == StateOf(CallOf[w])
  IN /\ task[w] = "grace"
     /\ \/ HungUp(w)
        \/ /\ HangupRefused(CallOf[w])
           /\ IF s \in Final \cup {"TRANSFERRING"} THEN Ends(w)
              ELSE Goto(w, "over") /\ UNCHANGED <<object, held>>
     /\ UNCHANGED <<record, cdrs, saved, otherVars, gateVars>>

\* _save_cdr reads the object when its task runs. save_cdr merges by call_id:
\* a call has one record, which keeps its first place in the order.
SaveCdr(w) ==
  LET c == CallOf[w]
  IN /\ task[w] = "saving" /\ held[w] \in Objects
     /\ Goto(w, "over")
     /\ \/ /\ cdrs' = IF \E i \in DOMAIN cdrs : cdrs[i] = c THEN cdrs ELSE Append(cdrs, c)
           /\ saved' = [saved EXCEPT ![c] = object[held[w]]]
        \/ Happens("failure") /\ UNCHANGED <<cdrs, saved>>
     /\ UNCHANGED <<object, record, held, leg, otherVars, gateVars>>

----------------------------------------------------------------------------
(* What tool handlers and operators write. A handler may outlive its       *)
(* session, and any request may be answered late.                          *)

\* The session's own task is not past _teardown yet.
Running == {"session", "gaveUp", "grace"}

InSession(c) == \E w \in Webhooks : CallOf[w] = c /\ task[w] \in Running
Opened(c) == \E w \in Webhooks : CallOf[w] = c /\ task[w] \in Running \cup {"saving", "over"}

\* The state TRANSFERRING is written, as refer() and check_escalation do.
Transfers(c) ==
  /\ SetState(c, "TRANSFERRING")
  /\ late' = IF InSession(c) THEN late ELSE late \cup {c}

Ask(c, r)      == requests' = [requests EXCEPT ![c] = @ \cup {r}]
Answered(c, r) == requests' = [requests EXCEPT ![c] = @ \ {r}]

\* check_escalation passes a threshold, once for a Call object.
Escalates(c) ==
  /\ Happens("transfer") /\ Opened(c) /\ record[c] \in Objects \ escalated
  /\ escalated' = escalated \cup {record[c]}
  /\ Transfers(c)
  /\ Ask(c, "threshold")
  /\ UNCHANGED <<record, held, task, leg, cdrs, saved, gateVars>>

\* escalate_to_agent in a session, or force_escalate of an open call.
AsksRefer(c) ==
  /\ Happens("transfer")
  /\ Opened(c) \/ StateOf(c) \in {"RINGING", "ACTIVE"}
  /\ Ask(c, "refer")
  /\ UNCHANGED <<taskVars, escalated, late, gateVars>>

\* refer() returns, if the leg was up when the provider looked at it, or raises.
ReferAnswered(c, r) ==
  /\ r \in requests[c] /\ r # "hangup"
  /\ Answered(c, r)
  /\ \/ leg[c] \in {"up", "gone"} /\ Transfers(c)
     \/ (leg[c] # "up" \/ Happens("failure")) /\ UNCHANGED <<object, late>>
  /\ UNCHANGED <<record, held, task, leg, cdrs, saved, escalated, gateVars>>

\* hangup_call of an operator.
AsksHangup(c) ==
  /\ Happens("hangup") /\ record[c] \in Objects
  /\ Ask(c, "hangup")
  /\ UNCHANGED <<taskVars, escalated, late, gateVars>>

HangupAnswered(c) ==
  /\ "hangup" \in requests[c]
  /\ Answered(c, "hangup")
  /\ \/ leg' = [leg EXCEPT ![c] = "gone"] /\ SetState(c, "ENDED")
     \/ HangupRefused(c) /\ UNCHANGED object
  /\ UNCHANGED <<record, held, task, cdrs, saved, escalated, late, gateVars>>

\* _end_session: the call is ended while its session may still run.
WrapsUp(c) ==
  /\ Opened(c)
  /\ SetState(c, "ENDED")
  /\ UNCHANGED <<record, held, task, leg, cdrs, saved, otherVars, gateVars>>

----------------------------------------------------------------------------
(* What sessions report to the store.                                      *)

\* Mutant: a list in place of the deque.
Unbounded(a) == Append(a, 0)

\* The deque keeps the last Remember entries.
Appended(a) == IF Len(a) < Remember THEN Append(a, 0) ELSE Append(Tail(a), 0)

\* record_reconnect_failure
RecordFailure ==
  /\ ages'  = Appended(ages)
  /\ tally' = [tally EXCEPT ![0] = AtMost(@ + 1, Threshold)]

\* Mutant: the alert is not remembered.
RecordUsageForgetful ==
  LET sum == IF rolled THEN 1 ELSE cost + 1
  IN /\ cost' = AtMost(sum, Budget) /\ rolled' = FALSE /\ spent' = AtMost(spent + 1, Budget)
     /\ alerted' = FALSE
     /\ alerts' = IF Budget > 0 /\ sum >= Budget THEN AtMost(alerts + 1, 2) ELSE alerts

\* record_token_usage: the day rolls over when the first usage of a day comes.
RecordUsage ==
  LET sum   == IF rolled THEN 1 ELSE cost + 1
      alert == Budget > 0 /\ sum >= Budget /\ (rolled \/ ~alerted)
  IN /\ cost' = AtMost(sum, Budget) /\ rolled' = FALSE
     /\ alerted' = ((alerted /\ ~rolled) \/ alert)
     /\ spent' = AtMost(spent + 1, Budget)
     /\ alerts' = IF alert THEN AtMost(alerts + 1, 2) ELSE alerts

\* Of any session, of the calls followed here or of others.
SessionSpends ==
  /\ Happens("spending")
  /\ RecordUsage
  /\ UNCHANGED <<taskVars, otherVars, maintenance, breakerVars, restarted, cast>>

OtherSessionFails ==
  /\ Happens("outage")
  /\ RecordFailure
  /\ UNCHANGED <<taskVars, otherVars, maintenance, budgetVars, restarted, cast>>

\* _handle_ws_failure: the reconnects are used up or the handshake is refused.
SessionFails(w) ==
  /\ task[w] = "session"
  /\ leg[CallOf[w]] = "gone" \/ Happens("failure")
  /\ Goto(w, "gaveUp")
  /\ RecordFailure
  /\ UNCHANGED <<object, record, held, leg, cdrs, saved, otherVars, maintenance, budgetVars,
                 restarted, cast>>

----------------------------------------------------------------------------
(* Operator, time, the caller and the process.                             *)

SetMaintenance ==
  /\ Happens("maintenance")
  /\ maintenance' \in BOOLEAN
  /\ UNCHANGED <<taskVars, otherVars, breakerVars, budgetVars, restarted, cast>>

Tick ==
  /\ ages'  = [i \in DOMAIN ages |-> AtMost(ages[i] + 1, Window + 1)]
  /\ tally' = [a \in 0..Window |-> IF a = 0 THEN 0 ELSE tally[a - 1]]
  /\ UNCHANGED <<taskVars, otherVars, maintenance, budgetVars, restarted, cast>>

Midnight ==
  /\ Happens("spending")
  /\ rolled' = TRUE /\ spent' = 0 /\ alerts' = 0 /\ restarted' = FALSE
  /\ UNCHANGED <<taskVars, otherVars, maintenance, breakerVars, cost, alerted, cast>>

CallerHangsUp(c) ==
  /\ leg[c] \in {"ringing", "up"} /\ leg' = [leg EXCEPT ![c] = "gone"]
  /\ UNCHANGED <<object, record, held, task, cdrs, saved, otherVars, gateVars>>

\* Mutant: the oldest records are taken.
OldestCdrs == {cdrs[i] : i \in {j \in DOMAIN cdrs : j <= HistoryLimit}}

\* get_recent_cdrs
RecentCdrs == {cdrs[i] : i \in {j \in DOMAIN cdrs : j + HistoryLimit > Len(cdrs)}}

\* load_recent_cdrs: the latest records become Call objects in their saved state.
LoadRecentCdrs ==
  /\ record' = [c \in Calls |-> IF c \in RecentCdrs THEN c ELSE NoObject]
  /\ object' = [o \in Objects |-> IF o \in Calls THEN saved[o] ELSE "RINGING"]

\* Everything in memory is lost; the records are loaded before webhooks are served.
Restart ==
  /\ Happens("restart")
  /\ LoadRecentCdrs
  /\ task' = [w \in Webhooks |-> IF task[w] = "none" THEN "none" ELSE "lost"]
  /\ held' = [w \in Webhooks |-> NoObject]
  /\ requests' = [c \in Calls |-> {}] /\ escalated' = {}
  /\ maintenance' = FALSE
  /\ ages' = <<>> /\ tally' = [a \in 0..Window |-> 0]
  /\ cost' = 0 /\ rolled' = FALSE /\ alerted' = FALSE /\ alerts' = 0
  /\ restarted' = TRUE
  /\ UNCHANGED <<leg, cdrs, saved, late, spent, cast>>

----------------------------------------------------------------------------
Init ==
  /\ cast \in Casts
  /\ object = [o \in Objects |-> "RINGING"] /\ escalated = {}
  /\ record = [c \in Calls |-> NoObject]
  /\ held = [w \in Webhooks |-> NoObject]
  /\ task = [w \in Webhooks |-> "none"]
  /\ requests = [c \in Calls |-> {}]
  /\ leg = [c \in Calls |-> "silent"]
  /\ cdrs = <<>> /\ saved = [c \in Calls |-> "ENDED"]
  /\ late = {} /\ maintenance = FALSE
  /\ ages = <<>> /\ tally = [a \in 0..Window |-> 0]
  /\ cost = 0 /\ rolled = FALSE /\ alerted = FALSE
  /\ spent = 0 /\ alerts = 0 /\ restarted = FALSE

\* The steps of a task that a running process or a bounded request brings about.
Decides(w) ==
  StartAccept(w) \/ Accepted(w) \/ AcceptFails(w) \/ Rejected(w) \/ RejectFails(w)

SessionStep(w) ==
  SessionEnds(w) \/ FailureHangupAnswered(w) \/ FarewellAnswered(w) \/ SaveCdr(w)

Outside(c) ==
  \/ Escalates(c) \/ AsksRefer(c) \/ AsksHangup(c) \/ HangupAnswered(c) \/ WrapsUp(c)
  \/ CallerHangsUp(c)
  \/ \E r \in Requests : ReferAnswered(c, r)

Next ==
  \/ \E w \in Webhooks : \/ Deliver(w) \/ CallerFound(w) \/ CallerUnknown(w) \/ Decides(w)
                        \/ SessionStep(w) \/ SessionFails(w)
  \/ \E c \in Calls : Outside(c)
  \/ SessionSpends \/ OtherSessionFails
  \/ SetMaintenance \/ Tick \/ Midnight \/ Restart

Spec == Init /\ [][Next]_vars

\* asyncio starts every task; httpx bounds each request with a timeout; time passes.
\* Of the database nothing is assumed: no step out of "lookup" is fair.
Fairness == WF_vars(Tick) /\ \A w \in Webhooks : WF_vars(Decides(w))

FairSpec == Spec /\ Fairness

----------------------------------------------------------------------------
(* Properties.                                                             *)

Undecided == {"queued", "lookup", "accept", "reject"}

Deliveries(c) == {w \in Webhooks : CallOf[w] = c /\ task[w] # "none"}

\* The failures of the full history that the window still holds: age and number.
Failures == {f \in (0..Window) \X (1..Threshold) : f[2] <= tally[f[1]]}

\* The breaker, which reads a deque of limited length, is open exactly when the
\* full history has enough failures in the window and one in the cooldown
\* (is_circuit_open; the docstring's trip and auto-reset).
BreakerMatchesHistory ==
  CircuitOpen <=> /\ Cardinality(Failures) >= Threshold
                  /\ \E f \in Failures : f[1] < Cooldown

\* Between restarts the budget gate is shut exactly when today's sessions have
\* spent the budget, although the date is looked at by two callers and
\* changed by only one of them (record_token_usage, get_daily_cost_usd).
BudgetGateTellsTheTruth ==
  ~restarted => (BudgetExhausted <=> Budget > 0 /\ spent >= Budget)

\* The budget alert goes out at most once a day and process, however many
\* sessions report usage past the limit (_budget_alert_fired_today).
OneAlertPerDay == alerts <= 1

\* A call that stays RINGING in the store has a task still to decide it, or a
\* reject nobody answered: two deliveries of one webhook, which replace and
\* re-store each other's Call objects, leave no other (create_call, _accept_call).
RingingIsPending ==
  \A c \in Calls :
    StateOf(c) = "RINGING"
      => \E w \in Deliveries(c) : task[w] \in Undecided \cup {"unanswered"}

\* A call that is ACTIVE or TRANSFERRING in the store, and counted there as active,
\* has a task that will still close it: deliveries that replace its object, wrap-ups,
\* hangups and transfers during the session, and restarts leave no other. Only a
\* transfer that is written after the session does (refer, check_escalation in a
\* handler that outlives the session; _teardown, _save_cdr, load_recent_cdrs).
OpenCallsAreClosed ==
  \A c \in Calls \ late :
    StateOf(c) \in {"ACTIVE", "TRANSFERRING"}
      => \E w \in Deliveries(c) : task[w] \in Running \cup {"accept"}

\* A call that has one of the latest records is in the store and finished, also after
\* restarts, although its record is written by a task that reads the object when it
\* runs; unless a transfer came too late or the webhook comes again
\* (_save_cdr, load_recent_cdrs).
FinishedCallsSurvive ==
  \A i \in DOMAIN cdrs : \A w \in Webhooks :
    /\ Cardinality({j \in DOMAIN cdrs : i < j}) < HistoryLimit
    /\ Deliveries(cdrs[i]) = {w} /\ cdrs[i] \notin late
    => StateOf(cdrs[i]) \in Final

\* Every delivered call is accepted, rejected or given up, unless the process stops
\* first or the caller-ID lookup never comes back, for which the code has no timeout:
\* no order of other lookups and answers leaves its task waiting.
CallsAreDecided ==
  \A w \in Webhooks :
    []<>(task[w] # "lookup") => ((task[w] \in Undecided) ~> (task[w] \notin Undecided))

\* The breaker does not stay open unless failures keep coming: an open circuit whose
\* last failure has aged closes with time alone ("Auto-resets after
\* cooldown_seconds", is_circuit_open).
BreakerCloses == []<>(0 \in {ages[i] : i \in DOMAIN ages}) \/ []<>~CircuitOpen
=============================================================================
