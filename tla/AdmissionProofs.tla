---------------------------- MODULE AdmissionProofs ----------------------------
(***************************************************************************)
(* Proofs about Admission, for every number of calls and deliveries, every *)
(* budget, every setting of the breaker and any number of restarts: the    *)
(* types are right, the budget gate and its alert tell the truth, a        *)
(* ringing call has a task left, an open call has a task that closes it,   *)
(* and the latest records are loaded as finished calls.                    *)
(*                                                                         *)
(* TypeOK is inductive. The gates have a strengthening of their own. For   *)
(* the calls the steps are first sorted by what they do to a call          *)
(* (SessionKinds, OutsideKinds, CallActions); then each part of Sound, the *)
(* invariant of one call, has three lemmas: ...Here for a step of one of   *)
(* its deliveries, ...Outside for handlers, operators and the caller, and  *)
(* ...Elsewhere for steps of other calls, which leave it Untouched.        *)
(***************************************************************************)
EXTENDS Admission, FiniteSetTheorems, TLAPS

----------------------------------------------------------------------------
(* The types.                                                              *)

\* The sequences keep their elements' type, and their length its bound.

LEMMA TailType ==
  ASSUME NEW S, NEW s \in Seq(S), Len(s) > 0
  PROVE  Tail(s) \in Seq(S) /\ Len(Tail(s)) = Len(s) - 1
  OBVIOUS

LEMMA AppendType ==
  ASSUME NEW S, NEW s \in Seq(S), NEW e \in S
  PROVE  Append(s, e) \in Seq(S) /\ Len(Append(s, e)) = Len(s) + 1
  OBVIOUS

LEMMA AppendedType ==
  ASSUME NEW s \in Seq(0..Window + 1), Len(s) <= Remember
  PROVE  Appended(s) \in Seq(0..Window + 1) /\ Len(Appended(s)) <= Remember
<1>1. Window \in Nat /\ Remember \in Nat \ {0} /\ 0 \in 0..Window + 1 /\ Len(s) \in Nat
  BY AdmissionAssumption
<1>2. CASE Len(s) < Remember
  BY <1>1, <1>2, AppendType DEF Appended
<1>3. CASE ~(Len(s) < Remember)
  <2>1. Tail(s) \in Seq(0..Window + 1) /\ Len(Tail(s)) = Len(s) - 1
    BY <1>1, <1>3, TailType
  <2>2. Append(Tail(s), 0) \in Seq(0..Window + 1) /\ Len(Append(Tail(s), 0)) = Len(s)
    BY <1>1, <2>1, AppendType
  <2> QED BY <1>1, <1>3, <2>2 DEF Appended
<1> QED BY <1>2, <1>3

LEMMA OlderType ==
  ASSUME NEW s \in Seq(0..Window + 1), Len(s) <= Remember
  PROVE  LET older == [i \in DOMAIN s |-> AtMost(s[i] + 1, Window + 1)]
         IN  older \in Seq(0..Window + 1) /\ Len(older) <= Remember
<1> DEFINE older == [i \in DOMAIN s |-> AtMost(s[i] + 1, Window + 1)]
<1>1. Window \in Nat /\ Len(s) \in Nat /\ DOMAIN s = 1..Len(s)
  BY AdmissionAssumption
<1>2. \A i \in 1..Len(s) : AtMost(s[i] + 1, Window + 1) \in 0..Window + 1
  <2> SUFFICES ASSUME NEW i \in 1..Len(s)
               PROVE  AtMost(s[i] + 1, Window + 1) \in 0..Window + 1
    OBVIOUS
  <2>1. s[i] \in 0..Window + 1
    BY <1>1
  <2> QED BY <1>1, <2>1 DEF AtMost
<1>3. older \in [1..Len(s) -> 0..Window + 1]
  BY <1>1, <1>2
<1>4. older \in Seq(0..Window + 1) /\ Len(older) = Len(s)
  BY <1>1, <1>3
<1> QED BY <1>4

LEMMA TallyType ==
  ASSUME TypeOK
  PROVE  /\ [tally EXCEPT ![0] = AtMost(@ + 1, Threshold)] \in [0..Window -> 0..Threshold]
         /\ [a \in 0..Window |-> IF a = 0 THEN 0 ELSE tally[a - 1]]
              \in [0..Window -> 0..Threshold]
         /\ [a \in 0..Window |-> 0] \in [0..Window -> 0..Threshold]
<1>1. Window \in Nat /\ Threshold \in Nat \ {0} /\ tally \in [0..Window -> 0..Threshold]
  BY AdmissionAssumption DEF TypeOK
<1>2. 0 \in 0..Window /\ AtMost(tally[0] + 1, Threshold) \in 0..Threshold
  BY <1>1 DEF AtMost
<1>3. \A a \in 0..Window : (IF a = 0 THEN 0 ELSE tally[a - 1]) \in 0..Threshold
  BY <1>1
<1> QED BY <1>1, <1>2, <1>3

\* Usage past the budget is counted as the budget.
LEMMA UsageType ==
  ASSUME TypeOK, RecordUsage
  PROVE  /\ cost' \in 0..Budget /\ spent' \in 0..Budget /\ alerts' \in 0..2
         /\ rolled' \in BOOLEAN /\ alerted' \in BOOLEAN
<1>1. Budget \in Nat /\ cost \in 0..Budget /\ spent \in 0..Budget /\ alerts \in 0..2
  BY AdmissionAssumption DEF TypeOK
<1>2. cost' \in 0..Budget /\ spent' \in 0..Budget
  BY <1>1 DEF RecordUsage, AtMost
<1>3. alerts' \in 0..2
  BY <1>1 DEF RecordUsage, AtMost
<1>4. rolled' \in BOOLEAN /\ alerted' \in BOOLEAN
  BY Zenon DEF RecordUsage
<1> QED BY <1>2, <1>3, <1>4

LEMMA FailureType ==
  ASSUME TypeOK, RecordFailure
  PROVE  /\ ages' \in Seq(0..Window + 1) /\ Len(ages') <= Remember
         /\ tally' \in [0..Window -> 0..Threshold]
<1>1. ages \in Seq(0..Window + 1) /\ Len(ages) <= Remember
  BY DEF TypeOK
<1> QED BY <1>1, AppendedType, TallyType DEF RecordFailure

LEMMA SetStateType ==
  ASSUME TypeOK, NEW c \in Calls, NEW s \in States, SetState(c, s)
  PROVE  object' \in [Objects -> States]
BY DEF TypeOK, SetState

LEMMA GotoType ==
  ASSUME TypeOK, NEW w \in Webhooks, NEW pc \in TaskPC, Goto(w, pc)
  PROVE  task' \in [Webhooks -> TaskPC]
BY DEF TypeOK, Goto

LEMMA AnyPC ==
  {"lookup", "accept", "session", "gaveUp", "grace", "saving", "over", "failed", "rejected",
   "unanswered", "queued", "reject"} \subseteq TaskPC
BY DEF TaskPC

LEMMA AnyState == {"RINGING", "ACTIVE", "TRANSFERRING", "ENDED", "FAILED"} \subseteq States
BY DEF States

\* The state of a stored call is a state.
LEMMA StateType ==
  ASSUME TypeOK, NEW c \in Calls
  PROVE  StateOf(c) \in States \cup {"none"}
BY DEF TypeOK, StateOf

\* What the steps of tasks and sessions change, and its types.
TasksTyped ==
  /\ object \in [Objects -> States]
  /\ record \in [Calls -> Objects \cup {NoObject}]
  /\ held \in [Webhooks -> Objects \cup {NoObject}]
  /\ task \in [Webhooks -> TaskPC]
  /\ leg \in [Calls -> Legs]
  /\ cdrs \in Seq(Calls) /\ saved \in [Calls -> States]

LEMMA CallOfType ==
  ASSUME NEW w \in Webhooks
  PROVE  CallOf[w] \in Calls
BY AdmissionAssumption

LEMMA EndsType ==
  ASSUME TypeOK, NEW w \in Webhooks, Ends(w)
  PROVE  /\ object' \in [Objects -> States] /\ task' \in [Webhooks -> TaskPC]
         /\ held' \in [Webhooks -> Objects \cup {NoObject}]
<1> DEFINE c == CallOf[w]
           s == IF StateOf(c) \in Final THEN StateOf(c) ELSE "ENDED"
<1>1. c \in Calls /\ s \in States /\ SetState(c, s) /\ Goto(w, "saving")
  BY CallOfType, AnyState DEF Ends, Final
<1>2. object' \in [Objects -> States] /\ task' \in [Webhooks -> TaskPC]
  <2> HIDE DEF s, c
  <2> QED BY <1>1, SetStateType, GotoType, AnyPC
<1>3. held' \in [Webhooks -> Objects \cup {NoObject}]
  BY CallOfType DEF Ends, TypeOK
<1> QED BY <1>2, <1>3

LEMMA TeardownType ==
  ASSUME TypeOK, NEW w \in Webhooks, Teardown(w)
  PROVE  /\ object' \in [Objects -> States] /\ task' \in [Webhooks -> TaskPC]
         /\ held' \in [Webhooks -> Objects \cup {NoObject}]
<1>1. CASE Ends(w)
  BY <1>1, EndsType
<1>2. CASE Goto(w, "grace") /\ UNCHANGED <<object, held>>
  BY <1>2, GotoType, AnyPC DEF TypeOK
<1> QED BY <1>1, <1>2 DEF Teardown

LEMMA HungUpType ==
  ASSUME TypeOK, NEW w \in Webhooks, HungUp(w)
  PROVE  /\ object' \in [Objects -> States] /\ task' \in [Webhooks -> TaskPC]
         /\ held' \in [Webhooks -> Objects \cup {NoObject}] /\ leg' \in [Calls -> Legs]
<1>1. object' \in [Objects -> States] /\ task' \in [Webhooks -> TaskPC]
  BY CallOfType, AnyState, AnyPC, SetStateType, GotoType DEF HungUp
<1>2. held' \in [Webhooks -> Objects \cup {NoObject}] /\ leg' \in [Calls -> Legs]
  BY CallOfType DEF HungUp, TypeOK, Legs
<1> QED BY <1>1, <1>2

LEMMA LegType ==
  ASSUME TypeOK, NEW c \in Calls, HangupRefused(c)
  PROVE  leg' \in [Calls -> Legs]
BY DEF HangupRefused, TypeOK, Legs

LEMMA CdrType ==
  ASSUME TypeOK, NEW w \in Webhooks, SaveCdr(w)
  PROVE  cdrs' \in Seq(Calls) /\ saved' \in [Calls -> States]
<1>1. CallOf[w] \in Calls /\ object[held[w]] \in States
  BY CallOfType DEF SaveCdr, TypeOK
<1>2. CASE UNCHANGED <<cdrs, saved>>
  BY <1>2 DEF TypeOK
<1>3. CASE ~UNCHANGED <<cdrs, saved>>
  <2>1. cdrs' = cdrs \/ cdrs' = Append(cdrs, CallOf[w])
    BY <1>3 DEF SaveCdr
  <2>2. saved' = [saved EXCEPT ![CallOf[w]] = object[held[w]]]
    BY <1>3 DEF SaveCdr
  <2>3. cdrs' \in Seq(Calls)
    <3>1. cdrs \in Seq(Calls)
      BY DEF TypeOK
    <3>2. Append(cdrs, CallOf[w]) \in Seq(Calls)
      BY <1>1, <3>1, AppendType
    <3> QED BY <2>1, <3>1, <3>2
  <2>4. \A s \in States : [saved EXCEPT ![CallOf[w]] = s] \in [Calls -> States]
    BY <1>1 DEF TypeOK
  <2> QED BY <1>1, <2>2, <2>3, <2>4
<1> QED BY <1>2, <1>3

LEMMA SessionStepType ==
  ASSUME TypeOK, NEW w \in Webhooks, SessionStep(w)
  PROVE  TasksTyped'
<1>1. CASE SessionEnds(w)
  BY <1>1, TeardownType DEF SessionEnds, TypeOK, TasksTyped
<1>2. CASE FailureHangupAnswered(w)
  <2>1. /\ object' \in [Objects -> States] /\ task' \in [Webhooks -> TaskPC]
        /\ held' \in [Webhooks -> Objects \cup {NoObject}] /\ leg' \in [Calls -> Legs]
    BY <1>2, HungUpType, TeardownType, LegType, CallOfType DEF FailureHangupAnswered
  <2> QED BY <1>2, <2>1 DEF FailureHangupAnswered, TypeOK, TasksTyped
<1>3. CASE FarewellAnswered(w)
  <2>1. CASE HungUp(w)
    BY <1>3, <2>1, HungUpType DEF FarewellAnswered, TypeOK, TasksTyped
  <2>2. CASE HangupRefused(CallOf[w]) /\ Ends(w)
    BY <1>3, <2>2, LegType, EndsType, CallOfType DEF FarewellAnswered, TypeOK, TasksTyped
  <2>3. CASE HangupRefused(CallOf[w]) /\ Goto(w, "over") /\ UNCHANGED <<object, held>>
    <3>1. task' \in [Webhooks -> TaskPC] /\ leg' \in [Calls -> Legs]
      BY <2>3, LegType, CallOfType, GotoType, AnyPC
    <3> QED BY <1>3, <2>3, <3>1 DEF FarewellAnswered, TypeOK, TasksTyped
  <2> QED BY <1>3, <2>1, <2>2, <2>3 DEF FarewellAnswered
<1>4. CASE SaveCdr(w)
  <2>1. task' \in [Webhooks -> TaskPC]
    BY <1>4, GotoType, AnyPC DEF SaveCdr
  <2> QED BY <1>4, <2>1, CdrType DEF SaveCdr, TypeOK, TasksTyped
<1> QED BY <1>1, <1>2, <1>3, <1>4 DEF SessionStep

LEMMA TaskStepType ==
  ASSUME TypeOK, NEW w \in Webhooks, CallerFound(w) \/ CallerUnknown(w) \/ Decides(w)
  PROVE  TasksTyped'
<1> DEFINE c == CallOf[w]
<1>1. c \in Calls
  BY CallOfType
<1>2. task' \in [Webhooks -> TaskPC]
  BY GotoType, AnyPC DEF CallerFound, CallerUnknown, Decides, StartAccept, Accepted, AcceptFails,
     Rejected, RejectFails
<1>3. CASE StartAccept(w) \/ CallerFound(w) \/ CallerUnknown(w)
  BY <1>1, <1>2, <1>3 DEF StartAccept, CallerFound, CallerUnknown, TypeOK, TasksTyped
<1>4. CASE Accepted(w) \/ AcceptFails(w) \/ Rejected(w)
  <2>1. object' \in [Objects -> States]
    BY <1>1, <1>4, AnyState, SetStateType DEF Accepted, AcceptFails, Rejected
  <2>2. leg' \in [Calls -> Legs]
    BY <1>1, <1>4 DEF Accepted, AcceptFails, Rejected, TypeOK, Legs
  <2> QED BY <1>2, <1>4, <2>1, <2>2 DEF Accepted, AcceptFails, Rejected, TypeOK, TasksTyped
<1>5. CASE RejectFails(w)
  BY <1>1, <1>2, <1>5 DEF RejectFails, TypeOK, TasksTyped, Legs
<1> QED BY <1>3, <1>4, <1>5 DEF Decides

LEMMA DeliverType ==
  ASSUME TypeOK, NEW w \in Webhooks, Deliver(w)
  PROVE  TasksTyped'
<1>1. CallOf[w] \in Calls /\ "RINGING" \in States /\ TaskFor \in TaskPC
  BY CallOfType, AnyState, AnyPC DEF TaskFor
<1>2. task' \in [Webhooks -> TaskPC]
  BY <1>1, GotoType DEF Deliver
<1> QED BY <1>1, <1>2 DEF Deliver, TypeOK, TasksTyped, Objects, Legs

LEMMA AskType ==
  ASSUME TypeOK, NEW c \in Calls, NEW r \in Requests, Ask(c, r) \/ Answered(c, r)
  PROVE  requests' \in [Calls -> SUBSET Requests]
BY DEF TypeOK, Ask, Answered

LEMMA OutsideType ==
  ASSUME TypeOK, NEW c \in Calls, Outside(c)
  PROVE  /\ TasksTyped' /\ escalated' \subseteq Objects /\ late' \subseteq Calls
         /\ requests' \in [Calls -> SUBSET Requests]
<1>1. CASE Escalates(c)
  <2>1. object' \in [Objects -> States]
    BY <1>1, AnyState, SetStateType DEF Escalates, Transfers
  <2>2. escalated' \subseteq Objects /\ late' \subseteq Calls
    BY <1>1 DEF Escalates, Transfers, TypeOK
  <2>3. requests' \in [Calls -> SUBSET Requests]
    BY <1>1, AskType DEF Escalates, Requests
  <2> QED BY <1>1, <2>1, <2>2, <2>3 DEF Escalates, TypeOK, TasksTyped
<1>2. CASE AsksRefer(c) \/ AsksHangup(c)
  <2>1. requests' \in [Calls -> SUBSET Requests]
    BY <1>2, AskType DEF AsksRefer, AsksHangup, Requests
  <2>2. UNCHANGED <<taskVars, escalated, late>>
    BY <1>2, Zenon DEF AsksRefer, AsksHangup
  <2>3. TasksTyped'
    BY <2>2 DEF TypeOK, TasksTyped, taskVars
  <2> QED BY <2>1, <2>2, <2>3 DEF TypeOK
<1>3. ASSUME NEW r \in Requests, ReferAnswered(c, r)
      PROVE  /\ TasksTyped' /\ escalated' \subseteq Objects /\ late' \subseteq Calls
             /\ requests' \in [Calls -> SUBSET Requests]
  <2>1. object' \in [Objects -> States] /\ late' \subseteq Calls
    BY <1>3, AnyState, SetStateType DEF ReferAnswered, Transfers, TypeOK
  <2>2. requests' \in [Calls -> SUBSET Requests]
    BY <1>3, AskType DEF ReferAnswered
  <2> QED BY <1>3, <2>1, <2>2 DEF ReferAnswered, TypeOK, TasksTyped
<1>4. CASE HangupAnswered(c)
  <2>1. object' \in [Objects -> States]
    BY <1>4, AnyState, SetStateType DEF HangupAnswered, TypeOK
  <2>2. leg' \in [Calls -> Legs]
    BY <1>4, LegType DEF HangupAnswered, TypeOK, Legs
  <2>3. requests' \in [Calls -> SUBSET Requests]
    BY <1>4, AskType DEF HangupAnswered, Requests
  <2> QED BY <1>4, <2>1, <2>2, <2>3 DEF HangupAnswered, TypeOK, TasksTyped
<1>5. CASE WrapsUp(c)
  <2>1. object' \in [Objects -> States]
    BY <1>5, AnyState, SetStateType DEF WrapsUp
  <2> QED BY <1>5, <2>1 DEF WrapsUp, otherVars, TypeOK, TasksTyped
<1>6. CASE CallerHangsUp(c)
  BY <1>6 DEF CallerHangsUp, otherVars, TypeOK, TasksTyped, Legs
<1> QED BY <1>1, <1>2, <1>3, <1>4, <1>5, <1>6 DEF Outside

LEMMA RestartType ==
  ASSUME TypeOK, Restart
  PROVE  TypeOK'
<1>1. TasksTyped'
  <2>1. record' \in [Calls -> Objects \cup {NoObject}]
    BY DEF Restart, LoadRecentCdrs, Objects
  <2>2. object' \in [Objects -> States]
    BY DEF Restart, LoadRecentCdrs, States, TypeOK
  <2>3. task' \in [Webhooks -> TaskPC]
    BY DEF Restart, TaskPC
  <2> QED BY <2>1, <2>2, <2>3 DEF Restart, TypeOK, TasksTyped
<1>2. ages' \in Seq(0..Window + 1) /\ Len(ages') <= Remember
  BY AdmissionAssumption DEF Restart
<1>3. tally' \in [0..Window -> 0..Threshold]
  BY TallyType DEF Restart
<1>4. cost' \in 0..Budget /\ spent' \in 0..Budget /\ alerts' \in 0..2
  BY AdmissionAssumption DEF Restart, TypeOK
<1>5. maintenance' \in BOOLEAN /\ rolled' \in BOOLEAN /\ alerted' \in BOOLEAN
      /\ restarted' \in BOOLEAN
  BY Zenon DEF Restart
<1>6. /\ requests' \in [Calls -> SUBSET Requests] /\ escalated' \subseteq Objects
      /\ late' \subseteq Calls /\ cast' \in Casts
  BY DEF Restart, TypeOK
<1> QED BY <1>1, <1>2, <1>3, <1>4, <1>5, <1>6 DEF TypeOK, TasksTyped

LEMMA TypeStep == TypeOK /\ [Next]_vars => TypeOK'
<1> SUFFICES ASSUME TypeOK, [Next]_vars
             PROVE  TypeOK'
  OBVIOUS
<1> USE DEF otherVars, gateVars, breakerVars, budgetVars
<1>1. ASSUME NEW w \in Webhooks, Deliver(w)
      PROVE  TypeOK'
  <2>1. TasksTyped'
    BY <1>1, DeliverType
  <2> QED BY <1>1, <2>1 DEF Deliver, TypeOK, TasksTyped
<1>2. ASSUME NEW w \in Webhooks, CallerFound(w) \/ CallerUnknown(w) \/ Decides(w)
      PROVE  TypeOK'
  <2>1. TasksTyped'
    BY <1>2, TaskStepType
  <2>2. UNCHANGED <<otherVars, gateVars>>
    BY <1>2, Zenon DEF CallerFound, CallerUnknown, Decides, StartAccept, Accepted, AcceptFails,
                       Rejected, RejectFails
  <2> QED BY <2>1, <2>2 DEF TypeOK, TasksTyped
<1>3. ASSUME NEW w \in Webhooks, SessionStep(w)
      PROVE  TypeOK'
  <2>1. TasksTyped'
    BY <1>3, SessionStepType
  <2>2. UNCHANGED <<otherVars, gateVars>>
    BY <1>3, Zenon DEF SessionStep, SessionEnds, FailureHangupAnswered, FarewellAnswered, SaveCdr
  <2> QED BY <2>1, <2>2 DEF TypeOK, TasksTyped
<1>4. ASSUME NEW w \in Webhooks, SessionFails(w)
      PROVE  TypeOK'
  <2>1. task' \in [Webhooks -> TaskPC]
    BY <1>4, GotoType, AnyPC DEF SessionFails
  <2>2. ages' \in Seq(0..Window + 1) /\ Len(ages') <= Remember
        /\ tally' \in [0..Window -> 0..Threshold]
    BY <1>4, FailureType DEF SessionFails
  <2> QED BY <1>4, <2>1, <2>2 DEF SessionFails, TypeOK
<1>5. ASSUME NEW c \in Calls, Outside(c)
      PROVE  TypeOK'
  <2>1. UNCHANGED gateVars
    BY <1>5, Zenon DEF Outside, Escalates, AsksRefer, AsksHangup, HangupAnswered, WrapsUp,
                       CallerHangsUp, ReferAnswered
  <2> QED BY <1>5, <2>1, OutsideType DEF TypeOK, TasksTyped
<1> USE DEF taskVars
<1>6. CASE SessionSpends
  <2>1. /\ cost' \in 0..Budget /\ spent' \in 0..Budget /\ alerts' \in 0..2
        /\ rolled' \in BOOLEAN /\ alerted' \in BOOLEAN
    BY <1>6, UsageType DEF SessionSpends
  <2> QED BY <1>6, <2>1 DEF SessionSpends, TypeOK
<1>7. CASE OtherSessionFails
  <2>1. ages' \in Seq(0..Window + 1) /\ Len(ages') <= Remember
        /\ tally' \in [0..Window -> 0..Threshold]
    BY <1>7, FailureType DEF OtherSessionFails
  <2> QED BY <1>7, <2>1 DEF OtherSessionFails, TypeOK
<1>8. CASE SetMaintenance
  BY <1>8 DEF SetMaintenance, TypeOK
<1>9. CASE Tick
  <2>1. ages' \in Seq(0..Window + 1) /\ Len(ages') <= Remember
    BY <1>9, OlderType DEF Tick, TypeOK
  <2>2. tally' \in [0..Window -> 0..Threshold]
    BY <1>9, TallyType DEF Tick
  <2> QED BY <1>9, <2>1, <2>2 DEF Tick, TypeOK
<1>10. CASE Midnight
  <2>1. rolled' \in BOOLEAN /\ restarted' \in BOOLEAN
    BY <1>10, Zenon DEF Midnight
  <2>2. spent' \in 0..Budget /\ alerts' \in 0..2
    BY <1>10, AdmissionAssumption DEF Midnight
  <2> QED BY <1>10, <2>1, <2>2 DEF Midnight, TypeOK
<1>11. CASE Restart
  BY <1>11, RestartType
<1>12. CASE UNCHANGED vars
  BY <1>12 DEF vars, TypeOK
<1> QED BY <1>1, <1>2, <1>3, <1>4, <1>5, <1>6, <1>7, <1>8, <1>9, <1>10, <1>11, <1>12 DEF Next

LEMMA TypeInit == Init => TypeOK
<1> SUFFICES ASSUME Init
             PROVE  TypeOK
  OBVIOUS
<1>1. TasksTyped /\ cast \in Casts /\ escalated \subseteq Objects /\ late \subseteq Calls
      /\ requests \in [Calls -> SUBSET Requests]
  BY DEF Init, TasksTyped, States, TaskPC, Legs
<1>2. ages \in Seq(0..Window + 1) /\ Len(ages) <= Remember
  BY AdmissionAssumption DEF Init
<1>3. tally \in [0..Window -> 0..Threshold]
  BY AdmissionAssumption DEF Init
<1>4. cost \in 0..Budget /\ spent \in 0..Budget /\ alerts \in 0..2
  BY AdmissionAssumption DEF Init
<1>5. maintenance \in BOOLEAN /\ rolled \in BOOLEAN /\ alerted \in BOOLEAN /\ restarted \in BOOLEAN
  BY Zenon DEF Init
<1> QED BY <1>1, <1>2, <1>3, <1>4, <1>5 DEF TypeOK, TasksTyped

\* Every variable keeps its type: the deque keeps its length, the day's cost, the alerts
\* and the ages their bounds. (record_reconnect_failure, record_token_usage, save_cdr.)
THEOREM TypeCorrect == Spec => []TypeOK
BY TypeInit, TypeStep, PTL DEF Spec

----------------------------------------------------------------------------
(* The day's cost and its alert.                                           *)

\* The date of the accumulator is stale exactly until the first usage of the day.
DayCounted == /\ ~restarted /\ ~rolled => cost = spent
              /\ rolled => spent = 0

\* The flag is looked at on the same day only, so it must say what went out then.
AlertRemembered == /\ rolled \/ ~alerted => alerts = 0
                   /\ OneAlertPerDay

\* Only four actions touch the day's cost.
LEMMA BudgetActions ==
  ASSUME [Next]_vars
  PROVE  \/ RecordUsage /\ UNCHANGED restarted
         \/ Midnight \/ Restart
         \/ UNCHANGED <<budgetVars, restarted>>
<1>1. ASSUME NEW w \in Webhooks, \/ Deliver(w) \/ CallerFound(w) \/ CallerUnknown(w)
                                \/ Decides(w) \/ SessionStep(w) \/ SessionFails(w)
      PROVE  UNCHANGED <<budgetVars, restarted>>
  BY <1>1, Zenon DEF Deliver, CallerFound, CallerUnknown, Decides, StartAccept, Accepted,
     AcceptFails, Rejected, RejectFails, SessionStep, SessionEnds, FailureHangupAnswered,
     FarewellAnswered, SaveCdr, SessionFails, gateVars
<1>2. ASSUME NEW c \in Calls, Outside(c)
      PROVE  UNCHANGED <<budgetVars, restarted>>
  BY <1>2, Zenon DEF Outside, Escalates, AsksRefer, AsksHangup, HangupAnswered, WrapsUp,
     CallerHangsUp, ReferAnswered, gateVars
<1>3. CASE SessionSpends
  BY <1>3, Zenon DEF SessionSpends
<1>4. CASE OtherSessionFails \/ SetMaintenance \/ Tick
  BY <1>4, Zenon DEF OtherSessionFails, SetMaintenance, Tick
<1>5. CASE UNCHANGED vars
  BY <1>5, Zenon DEF vars, gateVars
<1> QED BY <1>1, <1>2, <1>3, <1>4, <1>5 DEF Next

LEMMA DayCountedStep == TypeOK /\ DayCounted /\ [Next]_vars => DayCounted'
<1> SUFFICES ASSUME TypeOK, DayCounted, [Next]_vars
             PROVE  DayCounted'
  OBVIOUS
<1>1. Budget \in Nat /\ cost \in 0..Budget /\ spent \in 0..Budget
  BY AdmissionAssumption DEF TypeOK
<1>2. CASE RecordUsage /\ UNCHANGED restarted
  BY <1>1, <1>2 DEF DayCounted, RecordUsage, AtMost
<1>3. CASE Midnight
  BY <1>3 DEF DayCounted, Midnight
<1>4. CASE Restart
  BY <1>4 DEF DayCounted, Restart
<1>5. CASE UNCHANGED <<budgetVars, restarted>>
  BY <1>5 DEF DayCounted, budgetVars
<1> QED BY <1>2, <1>3, <1>4, <1>5, BudgetActions

LEMMA AlertRememberedStep == TypeOK /\ AlertRemembered /\ [Next]_vars => AlertRemembered'
<1> SUFFICES ASSUME TypeOK, AlertRemembered, [Next]_vars
             PROVE  AlertRemembered'
  OBVIOUS
<1>1. Budget \in Nat /\ cost \in 0..Budget /\ alerts \in 0..2
  BY AdmissionAssumption DEF TypeOK
<1>2. CASE RecordUsage /\ UNCHANGED restarted
  <2> DEFINE sum   == IF rolled THEN 1 ELSE cost + 1
             alert == Budget > 0 /\ sum >= Budget /\ (rolled \/ ~alerted)
  <2>1. /\ ~rolled'
        /\ alerted' <=> ((alerted /\ ~rolled) \/ alert)
        /\ alerts' = IF alert THEN AtMost(alerts + 1, 2) ELSE alerts
    BY <1>2, Zenon DEF RecordUsage
  <2>2. CASE alert
    <3>1. alerts = 0
      BY <2>2, Zenon DEF AlertRemembered
    <3> QED BY <2>1, <2>2, <3>1 DEF AlertRemembered, OneAlertPerDay, AtMost
  <2>3. CASE ~alert
    <3> HIDE DEF alert
    <3> QED BY <2>1, <2>3, Zenon DEF AlertRemembered, OneAlertPerDay
  <2> QED BY <2>2, <2>3
<1>3. CASE Midnight
  BY <1>3 DEF AlertRemembered, OneAlertPerDay, Midnight
<1>4. CASE Restart
  BY <1>4 DEF AlertRemembered, OneAlertPerDay, Restart
<1>5. CASE UNCHANGED <<budgetVars, restarted>>
  BY <1>5 DEF AlertRemembered, OneAlertPerDay, budgetVars
<1> QED BY <1>2, <1>3, <1>4, <1>5, BudgetActions

\* For any budget, the gate is shut exactly when the day's sessions have spent it,
\* whichever of the two readers of the date comes first after midnight.
\* (record_token_usage, get_daily_cost_usd.)
THEOREM GateFollowsBudget == Spec => []BudgetGateTellsTheTruth
<1>1. Init => DayCounted
  BY DEF Init, DayCounted
<1>2. TypeOK /\ DayCounted => BudgetGateTellsTheTruth
  <2> SUFFICES ASSUME TypeOK, DayCounted, ~restarted
               PROVE  BudgetExhausted <=> Budget > 0 /\ spent >= Budget
    BY DEF BudgetGateTellsTheTruth
  <2>1. Budget \in Nat /\ cost \in 0..Budget /\ spent \in 0..Budget
    BY AdmissionAssumption DEF TypeOK
  <2> QED BY <2>1 DEF DayCounted, BudgetExhausted
<1> QED BY <1>1, <1>2, DayCountedStep, TypeCorrect, PTL DEF Spec

\* However many sessions report usage past the budget, at most one alert goes out
\* between two midnights of a process. (_budget_alert_fired_today.)
THEOREM AlertsOnce == Spec => []OneAlertPerDay
<1>1. Init => AlertRemembered
  BY DEF Init, AlertRemembered, OneAlertPerDay
<1> QED BY <1>1, AlertRememberedStep, TypeCorrect, PTL DEF Spec, AlertRemembered

----------------------------------------------------------------------------
(* Calls and their objects.                                                *)

\* The call an object was made for.
Owner(o) == IF o \in Webhooks THEN CallOf[o] ELSE o

Known(o) == o \in Webhooks => task[o] # "none"

\* An object is stored and held for the call it was made for, and not before it is made.
Linked ==
  /\ \A c \in Calls : record[c] # NoObject => Owner(record[c]) = c /\ Known(record[c])
  /\ \A w \in Webhooks : held[w] # NoObject => Owner(held[w]) = CallOf[w] /\ Known(held[w])

TaskStep(w) == CallerFound(w) \/ CallerUnknown(w) \/ Decides(w)

LegEnds(c) == leg' \in {leg, [leg EXCEPT ![c] = "gone"]}

\* What a session's steps do, apart from the detail record.
Graced(w) ==
  /\ task[w] \in {"session", "gaveUp"} /\ StateOf(CallOf[w]) = "TRANSFERRING"
  /\ Goto(w, "grace") /\ LegEnds(CallOf[w])
  /\ UNCHANGED <<object, record, held, cdrs, saved, late>>

Closed(w) ==
  /\ task[w] \in Running
  /\ \E s \in Final : SetState(CallOf[w], s)
  /\ held' = [held EXCEPT ![w] = record[CallOf[w]]]
  /\ Goto(w, "saving") /\ LegEnds(CallOf[w])
  /\ UNCHANGED <<record, cdrs, saved, late>>

Left(w) ==
  /\ task[w] = "grace" /\ StateOf(CallOf[w]) \notin Final \cup {"TRANSFERRING"}
  /\ Goto(w, "over") /\ LegEnds(CallOf[w])
  /\ UNCHANGED <<object, record, held, cdrs, saved, late>>

LEMMA EndsCloses ==
  ASSUME NEW w \in Webhooks, Ends(w)
  PROVE  /\ \E s \in Final : SetState(CallOf[w], s)
         /\ held' = [held EXCEPT ![w] = record[CallOf[w]]]
         /\ Goto(w, "saving")
BY Zenon DEF Ends, Final

LEMMA HungUpCloses ==
  ASSUME NEW w \in Webhooks, HungUp(w)
  PROVE  /\ \E s \in Final : SetState(CallOf[w], s)
         /\ held' = [held EXCEPT ![w] = record[CallOf[w]]]
         /\ Goto(w, "saving") /\ LegEnds(CallOf[w])
BY Zenon DEF HungUp, LegEnds, Final

LEMMA SessionKinds ==
  ASSUME NEW w \in Webhooks, SessionStep(w)
  PROVE  Graced(w) \/ Closed(w) \/ Left(w) \/ SaveCdr(w)
<1> USE DEF otherVars
<1>1. ASSUME Teardown(w), task[w] \in {"session", "gaveUp"}, LegEnds(CallOf[w]),
             UNCHANGED <<record, cdrs, saved, late>>
      PROVE  Graced(w) \/ Closed(w)
  <2>1. CASE StateOf(CallOf[w]) = "TRANSFERRING"
    BY <1>1, <2>1 DEF Teardown, Graced
  <2>2. CASE StateOf(CallOf[w]) # "TRANSFERRING"
    BY <1>1, <2>2, EndsCloses DEF Teardown, Closed, Running
  <2> QED BY <2>1, <2>2
<1>2. CASE SessionEnds(w)
  <2>1. LegEnds(CallOf[w]) /\ UNCHANGED <<record, cdrs, saved, late>>
    BY <1>2 DEF SessionEnds, LegEnds
  <2> QED BY <1>1, <1>2, <2>1 DEF SessionEnds
<1>3. CASE FailureHangupAnswered(w)
  <2>1. CASE HungUp(w)
    BY <1>3, <2>1, HungUpCloses DEF FailureHangupAnswered, Closed, Running
  <2>2. CASE HangupRefused(CallOf[w]) /\ Teardown(w)
    BY <1>1, <1>3, <2>2 DEF FailureHangupAnswered, HangupRefused, LegEnds
  <2> QED BY <1>3, <2>1, <2>2 DEF FailureHangupAnswered
<1>4. CASE FarewellAnswered(w)
  <2>1. CASE HungUp(w)
    BY <1>4, <2>1, HungUpCloses DEF FarewellAnswered, Closed, Running
  <2>2. CASE HangupRefused(CallOf[w]) /\ Ends(w)
    BY <1>4, <2>2, EndsCloses DEF FarewellAnswered, Closed, Running, HangupRefused, LegEnds
  <2>3. CASE /\ HangupRefused(CallOf[w]) /\ Goto(w, "over") /\ UNCHANGED <<object, held>>
             /\ StateOf(CallOf[w]) \notin Final \cup {"TRANSFERRING"}
    BY <1>4, <2>3 DEF FarewellAnswered, Left, HangupRefused, LegEnds
  <2> QED BY <1>4, <2>1, <2>2, <2>3 DEF FarewellAnswered
<1> QED BY <1>2, <1>3, <1>4 DEF SessionStep

\* What is done from outside the tasks.
LEMMA OutsideKinds ==
  ASSUME NEW c \in Calls, Outside(c)
  PROVE  /\ UNCHANGED <<record, held, task, cdrs, saved>> /\ LegEnds(c)
         /\ \/ UNCHANGED <<object, late>>
            \/ Transfers(c)
            \/ SetState(c, "ENDED") /\ late' = late
<1> USE DEF LegEnds, otherVars, taskVars
<1>1. CASE Escalates(c)
  BY <1>1 DEF Escalates
<1>2. CASE AsksRefer(c) \/ AsksHangup(c)
  BY <1>2 DEF AsksRefer, AsksHangup
<1>3. CASE HangupAnswered(c)
  BY <1>3 DEF HangupAnswered, HangupRefused
<1>4. CASE WrapsUp(c) \/ CallerHangsUp(c)
  BY <1>4 DEF WrapsUp, CallerHangsUp
<1>5. ASSUME NEW r \in Requests, ReferAnswered(c, r)
      PROVE  /\ UNCHANGED <<record, held, task, cdrs, saved>> /\ LegEnds(c)
             /\ \/ UNCHANGED <<object, late>>
                \/ Transfers(c)
                \/ SetState(c, "ENDED") /\ late' = late
  BY <1>5 DEF ReferAnswered
<1> QED BY <1>1, <1>2, <1>3, <1>4, <1>5 DEF Outside

\* Every step that touches the calls is one of these.
DeliveryStep(w) ==
  \/ Deliver(w) \/ TaskStep(w) \/ Graced(w) \/ Closed(w) \/ Left(w) \/ SaveCdr(w)
  \/ SessionFails(w)

LEMMA CallActions ==
  ASSUME [Next]_vars
  PROVE  \/ \E w \in Webhooks : DeliveryStep(w)
         \/ \E c \in Calls : Outside(c)
         \/ Restart
         \/ UNCHANGED <<taskVars, late>>
<1>1. ASSUME \/ SessionSpends \/ OtherSessionFails \/ SetMaintenance \/ Tick \/ Midnight
             \/ UNCHANGED vars
      PROVE  UNCHANGED <<taskVars, late>>
  BY <1>1, Zenon DEF SessionSpends, OtherSessionFails, SetMaintenance, Tick, Midnight, vars,
                     otherVars
<1> QED BY <1>1, SessionKinds DEF Next, DeliveryStep, TaskStep

\* A step touches only the call it is about.
Untouched(c) ==
  /\ record'[c] = record[c] /\ leg'[c] = leg[c] /\ saved'[c] = saved[c]
  /\ c \in late' <=> c \in late
  /\ \A o \in Objects : Owner(o) = c => object'[o] = object[o]
  /\ \A v \in Webhooks : CallOf[v] = c => task'[v] = task[v] /\ held'[v] = held[v]

LEMMA SetStateUntouched ==
  ASSUME TypeOK, Linked, NEW d \in Calls, NEW s, SetState(d, s), NEW o \in Objects,
         Owner(o) # d
  PROVE  object'[o] = object[o]
<1>1. o # record[d]
  <2>1. o # NoObject
    BY AdmissionAssumption DEF Objects
  <2> QED BY <2>1 DEF Linked
<1> QED BY <1>1 DEF SetState

LEMMA GotoUntouched ==
  ASSUME TypeOK, NEW w \in Webhooks, NEW pc, Goto(w, pc), NEW v \in Webhooks, v # w
  PROVE  task'[v] = task[v]
BY DEF Goto, TypeOK

LEMMA DeliveryUntouched ==
  ASSUME TypeOK, Linked, NEW w \in Webhooks, DeliveryStep(w), NEW c \in Calls, c # CallOf[w]
  PROVE  Untouched(c)
<1> DEFINE d == CallOf[w]
<1> USE DEF otherVars
<1>1. d \in Calls
  BY CallOfType
<1>2. record'[c] = record[c]
  BY <1>1 DEF DeliveryStep, Deliver, TaskStep, CallerFound, CallerUnknown, Decides, StartAccept,
     Accepted, AcceptFails, Rejected, RejectFails, Graced, Closed, Left, SaveCdr, SessionFails,
     TypeOK
<1>3. leg'[c] = leg[c]
  BY <1>1 DEF DeliveryStep, Deliver, TaskStep, CallerFound, CallerUnknown, Decides, StartAccept,
     Accepted, AcceptFails, Rejected, RejectFails, Graced, Closed, Left, SaveCdr, SessionFails,
     LegEnds, TypeOK
<1>4. saved'[c] = saved[c]
  BY <1>1 DEF DeliveryStep, Deliver, TaskStep, CallerFound, CallerUnknown, Decides, StartAccept,
     Accepted, AcceptFails, Rejected, RejectFails, Graced, Closed, Left, SaveCdr, SessionFails,
     TypeOK
<1>5. late' = late
  BY DEF DeliveryStep, Deliver, TaskStep, CallerFound, CallerUnknown, Decides, StartAccept,
     Accepted, AcceptFails, Rejected, RejectFails, Graced, Closed, Left, SaveCdr, SessionFails
<1>6. ASSUME NEW v \in Webhooks, CallOf[v] = c
      PROVE  task'[v] = task[v] /\ held'[v] = held[v]
  <2>1. v # w
    BY <1>6
  <2>2. task'[v] = task[v]
    BY <2>1, GotoUntouched
       DEF DeliveryStep, Deliver, TaskStep, CallerFound, CallerUnknown, Decides, StartAccept,
           Accepted, AcceptFails, Rejected, RejectFails, Graced, Closed, Left, SaveCdr,
           SessionFails
  <2>3. held'[v] = held[v]
    BY <2>1
       DEF DeliveryStep, Deliver, TaskStep, CallerFound, CallerUnknown, Decides, StartAccept,
           Accepted, AcceptFails, Rejected, RejectFails, Graced, Closed, Left, SaveCdr,
           SessionFails, TypeOK
  <2> QED BY <2>2, <2>3
<1>7. ASSUME NEW o \in Objects, Owner(o) = c
      PROVE  object'[o] = object[o]
  <2>1. Owner(o) # d
    BY <1>7
  <2>2. CASE Deliver(w)
    <3>1. o # w
      BY <2>1 DEF Owner
    <3> QED BY <2>2, <3>1 DEF Deliver, TypeOK
  <2>3. CASE \E s : SetState(d, s)
    BY <1>1, <2>1, <2>3, SetStateUntouched
  <2>4. CASE object' = object
    BY <2>4
  <2> QED BY <2>2, <2>3, <2>4
          DEF DeliveryStep, TaskStep, CallerFound, CallerUnknown, Decides, StartAccept,
              Accepted, AcceptFails, Rejected, RejectFails, Graced, Closed, Left, SaveCdr,
              SessionFails
<1> QED BY <1>2, <1>3, <1>4, <1>5, <1>6, <1>7 DEF Untouched

LEMMA OutsideUntouched ==
  ASSUME TypeOK, Linked, NEW d \in Calls, Outside(d), NEW c \in Calls, c # d
  PROVE  Untouched(c)
<1>1. /\ UNCHANGED <<record, held, task, cdrs, saved>> /\ LegEnds(d)
      /\ \/ UNCHANGED <<object, late>>
         \/ Transfers(d)
         \/ SetState(d, "ENDED") /\ late' = late
  BY OutsideKinds
<1>2. leg'[c] = leg[c]
  BY <1>1 DEF LegEnds, TypeOK
<1>3. c \in late' <=> c \in late
  BY <1>1 DEF Transfers
<1>4. ASSUME NEW o \in Objects, Owner(o) = c
      PROVE  object'[o] = object[o]
  BY <1>1, <1>4, SetStateUntouched DEF Transfers
<1> QED BY <1>1, <1>2, <1>3, <1>4 DEF Untouched

LEMMA LinkedStep == TypeOK /\ Linked /\ [Next]_vars => Linked'
<1> SUFFICES ASSUME TypeOK, Linked, [Next]_vars
             PROVE  Linked'
  OBVIOUS
<1>1. ASSUME NEW w \in Webhooks, DeliveryStep(w)
      PROVE  Linked'
  <2>1. \A o \in Objects : Known(o) => Known(o)'
    <3>1. task'[w] # "none" /\ \A v \in Webhooks : v # w => task'[v] = task[v]
      BY <1>1 DEF DeliveryStep, Deliver, TaskFor, TaskStep, CallerFound, CallerUnknown, Decides,
         StartAccept, Accepted, AcceptFails, Rejected, RejectFails, Graced, Closed, Left, SaveCdr,
         SessionFails, Goto, TypeOK
    <3> QED BY <3>1 DEF Known
  <2>2. /\ \A c \in Calls : record[c] # NoObject => record[c] \in Objects
        /\ \A v \in Webhooks : held[v] # NoObject => held[v] \in Objects
    BY DEF TypeOK
  <2>3. CASE Deliver(w)
    <3>1. task'[w] # "none"
      BY <2>3 DEF Deliver, TaskFor, Goto, TypeOK
    <3>2. record' = [record EXCEPT ![CallOf[w]] = w] /\ held' = held
      BY <2>3 DEF Deliver
    <3> QED BY <2>1, <2>2, <3>1, <3>2, CallOfType DEF Linked, Known, Owner, TypeOK
  <2>4. CASE record' = [record EXCEPT ![CallOf[w]] = held[w]] /\ held' = held
    BY <2>1, <2>2, <2>4, CallOfType DEF Linked, Owner, TypeOK
  <2>5. CASE record' = record /\ held' = [held EXCEPT ![w] = record[CallOf[w]]]
    BY <2>1, <2>2, <2>5, CallOfType DEF Linked, Owner, TypeOK
  <2>6. CASE record' = record /\ held' = held
    BY <2>1, <2>2, <2>6 DEF Linked
  <2> QED BY <1>1, <2>3, <2>4, <2>5, <2>6
          DEF DeliveryStep, TaskStep, CallerFound, CallerUnknown, Decides, StartAccept, Accepted,
              AcceptFails, Rejected, RejectFails, Graced, Closed, Left, SaveCdr, SessionFails
<1>2. ASSUME NEW c \in Calls, Outside(c)
      PROVE  Linked'
  <2>1. UNCHANGED <<record, held, task>>
    BY <1>2, OutsideKinds
  <2> QED BY <2>1 DEF Linked, Known
<1>3. CASE Restart
  <2>1. /\ \A c \in Calls : record'[c] \in {c, NoObject}
        /\ \A w \in Webhooks : held'[w] = NoObject
    BY <1>3 DEF Restart, LoadRecentCdrs
  <2>2. \A c \in Calls : Owner(c) = c /\ c \notin Webhooks
    BY AdmissionAssumption DEF Owner
  <2>3. \A c \in Calls : record'[c] # NoObject => Owner(record'[c]) = c /\ record'[c] \notin Webhooks
    BY <2>1, <2>2
  <2> QED BY <2>1, <2>3 DEF Linked, Known
<1>4. CASE UNCHANGED <<taskVars, late>>
  BY <1>4 DEF Linked, Known, taskVars
<1> QED BY <1>1, <1>2, <1>3, <1>4, CallActions

----------------------------------------------------------------------------
(* What a call's state in the store says of its tasks.                     *)

Waits(c, pcs) == \E w \in Deliveries(c) : task[w] \in pcs

RingingSound(c)  == StateOf(c) = "RINGING" => Waits(c, Undecided \cup {"unanswered"})
ActiveSound(c)   == StateOf(c) = "ACTIVE" => Waits(c, {"accept", "session", "gaveUp"})
TransferSound(c) == StateOf(c) = "TRANSFERRING" /\ c \notin late
                      => Waits(c, Running \cup {"accept"})

OpenSound(c) == RingingSound(c) /\ ActiveSound(c) /\ TransferSound(c)

\* Who acts has been delivered, and stays so.
LEMMA ActorDelivered ==
  ASSUME TypeOK, NEW w \in Webhooks, DeliveryStep(w)
  PROVE  /\ Deliveries(CallOf[w])' = Deliveries(CallOf[w]) \cup {w}
         /\ Deliver(w) <=> w \notin Deliveries(CallOf[w])
         /\ task[w] \notin {"lost", "over"}
         /\ task' = [task EXCEPT ![w] = task'[w]]
<1>1. task' = [task EXCEPT ![w] = task'[w]] /\ \A v \in Webhooks : v # w => task'[v] = task[v]
  BY DEF DeliveryStep, Deliver, TaskStep, CallerFound, CallerUnknown, Decides, StartAccept,
     Accepted, AcceptFails, Rejected, RejectFails, Graced, Closed, Left, SaveCdr, SessionFails,
     Goto, TypeOK
<1>2. task'[w] # "none"
  BY DEF DeliveryStep, Deliver, TaskFor, TaskStep, CallerFound, CallerUnknown, Decides,
     StartAccept, Accepted, AcceptFails, Rejected, RejectFails, Graced, Closed, Left, SaveCdr,
     SessionFails, Goto, TypeOK
<1>3. /\ Deliver(w) => task[w] = "none"
      /\ ~Deliver(w) => task[w] # "none"
      /\ task[w] \notin {"lost", "over"}
  BY DEF DeliveryStep, Deliver, TaskStep, CallerFound, CallerUnknown, Decides, StartAccept,
     Accepted, AcceptFails, Rejected, RejectFails, Graced, Closed, Left, SaveCdr, SessionFails,
     Running
<1> QED BY <1>1, <1>2, <1>3 DEF Deliveries

LEMMA StateAfter ==
  ASSUME TypeOK, NEW c \in Calls, NEW s, SetState(c, s), record' = record
  PROVE  StateOf(c)' \in {s, "none"}
BY DEF SetState, StateOf

LEMMA UntouchedState ==
  ASSUME TypeOK, Linked, NEW c \in Calls, Untouched(c)
  PROVE  StateOf(c)' = StateOf(c) /\ Deliveries(c)' = Deliveries(c)
<1>1. record[c] \in Objects => Owner(record[c]) = c
  BY AdmissionAssumption DEF Linked, Objects
<1>2. StateOf(c)' = StateOf(c)
  BY <1>1 DEF Untouched, StateOf
<1>3. Deliveries(c)' = Deliveries(c)
  BY DEF Untouched, Deliveries
<1> QED BY <1>2, <1>3

LEMMA OpenElsewhere ==
  ASSUME TypeOK, Linked, NEW c \in Calls, Untouched(c), OpenSound(c)
  PROVE  OpenSound(c)'
<1>1. StateOf(c)' = StateOf(c) /\ Deliveries(c)' = Deliveries(c)
  BY UntouchedState
<1>2. \A v \in Deliveries(c) : task'[v] = task[v]
  BY DEF Untouched, Deliveries
<1>3. c \in late' <=> c \in late
  BY DEF Untouched
<1> QED BY <1>1, <1>2, <1>3
        DEF OpenSound, RingingSound, ActiveSound, TransferSound, Waits, Undecided, Running

\* While the stored state stays as it is, a task may go on within what it waits for.
LEMMA OpenKept ==
  ASSUME TypeOK, NEW w \in Webhooks, DeliveryStep(w), OpenSound(CallOf[w]),
         StateOf(CallOf[w])' = StateOf(CallOf[w]), late' = late,
         task[w] \in Undecided \cup {"unanswered"} => task'[w] \in Undecided \cup {"unanswered"},
         task[w] \in {"accept", "session", "gaveUp"} => task'[w] \in {"accept", "session", "gaveUp"},
         task[w] \in Running \cup {"accept"} => task'[w] \in Running \cup {"accept"}
  PROVE  OpenSound(CallOf[w])'
<1> DEFINE c == CallOf[w]
<1>1. \A v \in Deliveries(c) : v \in Deliveries(c)' /\ (v # w => task'[v] = task[v])
  BY ActorDelivered DEF Deliveries, TypeOK
<1>2. RingingSound(c)'
  BY <1>1 DEF OpenSound, RingingSound, Waits, Undecided
<1>3. ActiveSound(c)'
  BY <1>1 DEF OpenSound, ActiveSound, Waits
<1>4. TransferSound(c)'
  BY <1>1 DEF OpenSound, TransferSound, Waits, Running
<1> QED BY <1>2, <1>3, <1>4 DEF OpenSound

LEMMA OpenHere ==
  ASSUME TypeOK, NEW w \in Webhooks, DeliveryStep(w), OpenSound(CallOf[w])
  PROVE  OpenSound(CallOf[w])'
<1> DEFINE c == CallOf[w]
<1>1. c \in Calls
  BY CallOfType
<1>2. w \in Deliveries(c)'
  BY ActorDelivered
<1>3. ASSUME NEW s \in Final, SetState(c, s), record' = record
      PROVE  OpenSound(c)'
  BY <1>1, <1>3, StateAfter DEF OpenSound, RingingSound, ActiveSound, TransferSound, Final
<1>4. CASE Deliver(w)
  <2>1. task'[w] \in {"reject", "queued"}
    BY <1>4 DEF Deliver, Goto, TaskFor, TypeOK
  <2>2. StateOf(c)' = "RINGING"
    BY <1>1, <1>4 DEF Deliver, StateOf, Objects, TypeOK
  <2> QED BY <1>2, <2>1, <2>2
          DEF OpenSound, RingingSound, ActiveSound, TransferSound, Waits, Undecided
<1>5. CASE CallerFound(w) \/ CallerUnknown(w)
  <2>1. task'[w] = "accept"
    BY <1>5 DEF CallerFound, CallerUnknown, Goto, TypeOK
  <2> QED BY <1>2, <2>1
          DEF OpenSound, RingingSound, ActiveSound, TransferSound, Waits, Undecided, Running
<1>6. CASE Accepted(w)
  <2>1. task'[w] = "session" /\ SetState(c, "ACTIVE") /\ record' = record
    BY <1>6 DEF Accepted, Goto, TypeOK
  <2>2. StateOf(c)' \in {"ACTIVE", "none"}
    BY <1>1, <2>1, StateAfter
  <2> QED BY <1>2, <2>1, <2>2 DEF OpenSound, RingingSound, ActiveSound, TransferSound, Waits
<1>7. CASE AcceptFails(w) \/ Rejected(w)
  <2>1. SetState(c, "FAILED") /\ record' = record
    BY <1>7 DEF AcceptFails, Rejected
  <2> QED BY <1>3, <2>1 DEF Final
<1>8. CASE Closed(w)
  <2>1. PICK s \in Final : SetState(c, s)
    BY <1>8 DEF Closed
  <2>2. record' = record
    BY <1>8 DEF Closed
  <2> QED BY <1>3, <2>1, <2>2
<1>9. CASE StartAccept(w) \/ RejectFails(w) \/ SaveCdr(w) \/ SessionFails(w)
  <2>1. UNCHANGED <<object, record, late>>
    BY <1>9 DEF StartAccept, RejectFails, SaveCdr, SessionFails, otherVars
  <2>2. \/ task[w] = "queued" /\ task'[w] = "lookup"
        \/ task[w] = "reject" /\ task'[w] = "unanswered"
        \/ task[w] = "saving"
        \/ task[w] = "session" /\ task'[w] = "gaveUp"
    BY <1>9 DEF StartAccept, RejectFails, SaveCdr, SessionFails, Goto, TypeOK
  <2>3. StateOf(c)' = StateOf(c)
    BY <2>1 DEF StateOf
  <2> QED BY <2>1, <2>2, <2>3, OpenKept DEF Undecided, Running
<1>10. CASE Graced(w)
  <2>1. task'[w] = "grace" /\ UNCHANGED <<object, record, late>> /\ StateOf(c) = "TRANSFERRING"
    BY <1>10 DEF Graced, Goto, TypeOK
  <2>2. StateOf(c)' = "TRANSFERRING"
    BY <2>1 DEF StateOf
  <2> QED BY <1>2, <2>1, <2>2
          DEF OpenSound, RingingSound, ActiveSound, TransferSound, Waits, Running
<1>11. CASE Left(w)
  <2>1. /\ task[w] = "grace" /\ UNCHANGED <<object, record, late>>
        /\ StateOf(c) # "TRANSFERRING"
    BY <1>11 DEF Left
  <2>2. StateOf(c)' = StateOf(c)
    BY <2>1 DEF StateOf
  <2>3. \A v \in Deliveries(c) : v # w => v \in Deliveries(c)' /\ task'[v] = task[v]
    BY ActorDelivered DEF Deliveries, TypeOK
  <2>4. RingingSound(c)'
    BY <2>1, <2>2, <2>3 DEF OpenSound, RingingSound, Waits, Undecided
  <2>5. ActiveSound(c)'
    BY <2>1, <2>2, <2>3 DEF OpenSound, ActiveSound, Waits
  <2>6. TransferSound(c)'
    BY <2>1, <2>2 DEF TransferSound
  <2> QED BY <2>4, <2>5, <2>6 DEF OpenSound
<1> QED BY <1>4, <1>5, <1>6, <1>7, <1>8, <1>9, <1>10, <1>11
        DEF DeliveryStep, TaskStep, Decides

\* From outside the tasks a call is ended, or transferred within a session or late.
LEMMA OpenOutside ==
  ASSUME TypeOK, NEW c \in Calls, Outside(c), OpenSound(c)
  PROVE  OpenSound(c)'
<1>1. /\ UNCHANGED <<record, held, task, cdrs, saved>>
      /\ \/ UNCHANGED <<object, late>>
         \/ Transfers(c)
         \/ SetState(c, "ENDED") /\ late' = late
  BY OutsideKinds
<1>2. Deliveries(c)' = Deliveries(c)
  BY <1>1 DEF Deliveries
<1>3. CASE UNCHANGED <<object, late>>
  BY <1>1, <1>2, <1>3
     DEF OpenSound, RingingSound, ActiveSound, TransferSound, Waits, StateOf, Undecided, Running
<1>4. CASE Transfers(c)
  <2>1. StateOf(c)' \in {"TRANSFERRING", "none"}
    BY <1>1, <1>4, StateAfter DEF Transfers
  <2>2. c \notin late' => InSession(c)
    BY <1>4 DEF Transfers
  <2>3. InSession(c) => \E w \in Deliveries(c)' : task'[w] \in Running
    BY <1>1, <1>2 DEF InSession, Deliveries, Running
  <2> QED BY <2>1, <2>2, <2>3 DEF OpenSound, RingingSound, ActiveSound, TransferSound, Waits
<1>5. CASE SetState(c, "ENDED")
  BY <1>1, <1>5, StateAfter DEF OpenSound, RingingSound, ActiveSound, TransferSound
<1> QED BY <1>1, <1>3, <1>4, <1>5

----------------------------------------------------------------------------
(* What the records of calls say.                                          *)

SessionPC == Running \cup {"saving", "over"}

\* The provider lets a call be accepted once, so that it has one session.
OneSession(c) ==
  \A w \in Webhooks : CallOf[w] = c /\ task[w] \in SessionPC
    => /\ leg[c] \in {"up", "gone"}
       /\ \A v \in Webhooks : CallOf[v] = c /\ task[v] \in SessionPC => v = w

Finished(c, s) == s \in Final \/ (s = "TRANSFERRING" /\ c \in late)

\* What is saved, or due to be saved, is final unless a transfer came late.
SavedSound(c) ==
  /\ Finished(c, saved[c])
  /\ \A w \in Webhooks :
       CallOf[w] = c /\ task[w] = "saving" /\ held[w] \in Objects => Finished(c, object[held[w]])

LEMMA OneSessionElsewhere ==
  ASSUME NEW c \in Calls, Untouched(c), OneSession(c)
  PROVE  OneSession(c)'
BY Zenon DEF Untouched, OneSession, SessionPC, Running

LEMMA OneSessionHere ==
  ASSUME TypeOK, NEW w \in Webhooks, DeliveryStep(w), OneSession(CallOf[w])
  PROVE  OneSession(CallOf[w])'
<1> DEFINE c == CallOf[w]
<1>1. c \in Calls
  BY CallOfType
<1>2. \A v \in Webhooks : v # w => task'[v] = task[v]
  BY ActorDelivered DEF TypeOK
<1>3. leg[c] \in {"up", "gone"} => leg'[c] \in {"up", "gone"}
  BY <1>1 DEF DeliveryStep, Deliver, TaskStep, CallerFound, CallerUnknown, Decides, StartAccept,
     Accepted, AcceptFails, Rejected, RejectFails, Graced, Closed, Left, SaveCdr, SessionFails,
     LegEnds, TypeOK
<1>4. CASE Accepted(w)
  <2>1. leg[c] = "ringing" /\ leg'[c] = "up"
    BY <1>1, <1>4 DEF Accepted, TypeOK
  <2>2. \A v \in Webhooks : CallOf[v] = c => task[v] \notin SessionPC
    BY <2>1 DEF OneSession
  <2> QED BY <1>2, <2>1, <2>2 DEF OneSession, SessionPC, Running
<1>5. CASE ~Accepted(w)
  <2>1. task'[w] \in SessionPC => task[w] \in SessionPC
    BY <1>5 DEF DeliveryStep, Deliver, TaskFor, TaskStep, CallerFound, CallerUnknown, Decides,
       StartAccept, AcceptFails, Rejected, RejectFails, Graced, Closed, Left, SaveCdr,
       SessionFails, Goto, SessionPC, Running, TypeOK
  <2> QED BY <1>2, <1>3, <2>1 DEF OneSession, SessionPC, Running
<1> QED BY <1>4, <1>5

LEMMA OneSessionOutside ==
  ASSUME TypeOK, NEW c \in Calls, Outside(c), OneSession(c)
  PROVE  OneSession(c)'
<1>1. task' = task /\ LegEnds(c)
  BY OutsideKinds
<1>2. leg[c] \in {"up", "gone"} => leg'[c] \in {"up", "gone"}
  BY <1>1 DEF LegEnds, TypeOK
<1> QED BY <1>1, <1>2 DEF OneSession, SessionPC, Running

LEMMA SavedElsewhere ==
  ASSUME TypeOK, Linked, NEW c \in Calls, Untouched(c), SavedSound(c)
  PROVE  SavedSound(c)'
<1>1. Finished(c, saved[c])'
  BY DEF Untouched, SavedSound, Finished, Final
<1>2. ASSUME NEW w \in Webhooks, CallOf[w] = c, task'[w] = "saving", held'[w] \in Objects
      PROVE  Finished(c, object[held[w]])'
  <2>1. task[w] = "saving" /\ held'[w] = held[w]
    BY <1>2 DEF Untouched
  <2>2. Owner(held[w]) = c
    BY <1>2, <2>1, AdmissionAssumption DEF Linked, Objects
  <2> QED BY <1>2, <2>1, <2>2 DEF Untouched, SavedSound, Finished, Final
<1> QED BY <1>1, <1>2 DEF SavedSound, Objects

\* The task of one record is due: what it will read is no longer opened again.
LEMMA SavedHere ==
  ASSUME TypeOK, Linked, NEW w \in Webhooks, DeliveryStep(w), OneSession(CallOf[w]),
         SavedSound(CallOf[w])
  PROVE  SavedSound(CallOf[w])'
<1> DEFINE c == CallOf[w]
<1>1. c \in Calls
  BY CallOfType
<1>2. late' = late
  BY DEF DeliveryStep, Deliver, TaskStep, CallerFound, CallerUnknown, Decides, StartAccept,
     Accepted, AcceptFails, Rejected, RejectFails, Graced, Closed, Left, SaveCdr, SessionFails,
     otherVars
<1>3. Finished(c, saved[c])'
  <2>1. CASE SaveCdr(w) /\ saved' # saved
    <3>1. saved' = [saved EXCEPT ![c] = object[held[w]]] /\ task[w] = "saving" /\ held[w] \in Objects
      BY <2>1 DEF SaveCdr
    <3> QED BY <1>1, <1>2, <3>1 DEF SavedSound, Finished, Final, TypeOK
  <2>2. CASE saved' = saved
    BY <1>2, <2>2 DEF SavedSound, Finished, Final
  <2> QED BY <2>1, <2>2
          DEF DeliveryStep, Deliver, TaskStep, CallerFound, CallerUnknown, Decides, StartAccept,
              Accepted, AcceptFails, Rejected, RejectFails, Graced, Closed, Left, SessionFails
<1>4. ASSUME NEW v \in Webhooks, CallOf[v] = c, task'[v] = "saving", held'[v] \in Objects
      PROVE  Finished(c, object[held[v]])'
  <2>1. \A u \in Webhooks : u # w => task'[u] = task[u]
    BY ActorDelivered DEF TypeOK
  <2>2. CASE Closed(w)
    <3>1. PICK s \in Final : SetState(c, s)
      BY <2>2 DEF Closed
    <3>2. task[w] \in SessionPC /\ held' = [held EXCEPT ![w] = record[c]]
      BY <2>2 DEF Closed, SessionPC
    <3>3. v = w
      BY <1>4, <2>1, <3>2 DEF OneSession, SessionPC
    <3>4. held'[v] = record[c]
      BY <3>2, <3>3 DEF TypeOK
    <3>5. object'[held'[v]] = s
      BY <1>4, <3>1, <3>4 DEF SetState
    <3> QED BY <3>5 DEF Finished, Final
  <2>3. CASE ~Closed(w)
    <3>1. task[v] = "saving"
      <4>1. task'[w] # "saving"
        BY <2>3 DEF DeliveryStep, Deliver, TaskFor, TaskStep, CallerFound, CallerUnknown, Decides,
           StartAccept, Accepted, AcceptFails, Rejected, RejectFails, Graced, Left, SaveCdr,
           SessionFails, Goto, TypeOK
      <4> QED BY <1>4, <2>1, <4>1
    <3>2. held'[v] = held[v]
      <4>1. CASE StartAccept(w)
        BY <3>1, <4>1 DEF StartAccept, TypeOK
      <4>2. CASE held' = held
        BY <4>2
      <4> QED BY <2>3, <4>1, <4>2
              DEF DeliveryStep, Deliver, TaskStep, CallerFound, CallerUnknown, Decides, Accepted,
                  AcceptFails, Rejected, RejectFails, Graced, Left, SaveCdr, SessionFails
    <3>3. Finished(c, object[held[v]]) /\ held[v] \in Objects
      BY <1>4, <3>1, <3>2 DEF SavedSound, Objects
    <3>4. CASE Deliver(w)
      <4>1. held[v] # w
        BY <3>3, <3>4, AdmissionAssumption DEF Deliver, Linked, Known, Objects
      <4>2. object'[held[v]] = object[held[v]]
        BY <3>3, <3>4, <4>1 DEF Deliver, TypeOK
      <4> QED BY <1>2, <3>2, <3>3, <4>2 DEF Finished, Final
    <3>5. ASSUME NEW s \in Final, SetState(c, s)
          PROVE  Finished(c, object[held[v]])'
      <4>1. object'[held[v]] \in {s, object[held[v]]}
        BY <3>3, <3>5 DEF SetState
      <4> QED BY <1>2, <3>2, <3>3, <4>1 DEF Finished, Final
    <3>6. CASE AcceptFails(w) \/ Rejected(w)
      <4>1. SetState(c, "FAILED")
        BY <3>6 DEF AcceptFails, Rejected
      <4> QED BY <3>5, <4>1 DEF Final
    <3>7. ~Accepted(w)
      BY <1>4, <3>1 DEF Accepted, OneSession, SessionPC
    <3>8. CASE object' = object
      BY <1>2, <3>2, <3>3, <3>8 DEF Finished, Final
    <3> QED BY <2>3, <3>4, <3>6, <3>7, <3>8
            DEF DeliveryStep, TaskStep, CallerFound, CallerUnknown, Decides, StartAccept,
                RejectFails, Graced, Left, SaveCdr, SessionFails
  <2> QED BY <2>2, <2>3
<1> QED BY <1>3, <1>4 DEF SavedSound, Objects

LEMMA SavedOutside ==
  ASSUME TypeOK, NEW c \in Calls, Outside(c), OneSession(c), SavedSound(c)
  PROVE  SavedSound(c)'
<1>1. /\ UNCHANGED <<record, held, task, cdrs, saved>>
      /\ \/ UNCHANGED <<object, late>>
         \/ Transfers(c)
         \/ SetState(c, "ENDED") /\ late' = late
  BY OutsideKinds
<1>2. late \subseteq late'
  BY <1>1 DEF Transfers
<1>3. Finished(c, saved[c])'
  BY <1>1, <1>2 DEF SavedSound, Finished, Final
<1>4. ASSUME NEW v \in Webhooks, CallOf[v] = c, task[v] = "saving", held[v] \in Objects
      PROVE  \/ object'[held[v]] \in Final
             \/ object'[held[v]] = "TRANSFERRING" /\ c \in late'
  <2>1. Finished(c, object[held[v]])
    BY <1>4 DEF SavedSound
  <2>2. CASE UNCHANGED <<object, late>>
    BY <2>1, <2>2 DEF Finished, Final
  <2>3. CASE Transfers(c)
    <3>1. ~InSession(c)
      BY <1>4 DEF InSession, OneSession, SessionPC, Running
    <3>2. c \in late' /\ object'[held[v]] \in {"TRANSFERRING", object[held[v]]}
      BY <1>4, <2>3, <3>1 DEF Transfers, SetState
    <3> QED BY <2>1, <3>2 DEF Finished, Final
  <2>4. CASE SetState(c, "ENDED") /\ late' = late
    BY <1>4, <2>1, <2>4 DEF SetState, Finished, Final
  <2> QED BY <1>1, <2>2, <2>3, <2>4
<1>5. UNCHANGED <<held, task>>
  BY <1>1
<1> QED BY <1>3, <1>4, <1>5 DEF SavedSound, Objects, Finished

----------------------------------------------------------------------------
(* Calls delivered once.                                                   *)

\* The object of the only delivery of a call is the one stored, and finished with it; a
\* call with a recent record is over, or is stored as its record tells.
Alone(c, w) ==
  Deliveries(c) = {w}
    => /\ task[w] # "lost" => record[c] = w /\ (task[w] = "lookup" => held[w] = w)
       /\ task[w] = "grace" => object[w] \in Final \cup {"TRANSFERRING"}
       /\ task[w] \in {"saving", "over"} => object[w] \in Final \/ c \in late
       /\ c \in RecentCdrs
            => \/ task[w] = "over"
               \/ task[w] = "lost" /\ record[c] = c /\ (object[c] \in Final \/ c \in late)

AloneSound(c) == /\ \A w \in Webhooks : Alone(c, w)
                 /\ c \in RecentCdrs => Deliveries(c) # {}

LEMMA RecentGrows ==
  ASSUME TypeOK, NEW w \in Webhooks, SaveCdr(w)
  PROVE  RecentCdrs' \subseteq RecentCdrs \cup {CallOf[w]}
<1> DEFINE d == CallOf[w]
<1>1. CASE cdrs' = cdrs
  BY <1>1 DEF RecentCdrs
<1>2. CASE cdrs' = Append(cdrs, d)
  <2> SUFFICES ASSUME NEW j \in DOMAIN cdrs', j + HistoryLimit > Len(cdrs'), cdrs'[j] # d
               PROVE  cdrs'[j] \in RecentCdrs
    BY DEF RecentCdrs
  <2>1. cdrs \in Seq(Calls) /\ HistoryLimit \in Nat /\ d \in Calls
    BY AdmissionAssumption, CallOfType DEF TypeOK
  <2>2. /\ Len(cdrs') = Len(cdrs) + 1 /\ j \in 1..Len(cdrs) + 1
        /\ j # Len(cdrs) + 1 /\ Len(cdrs) \in Nat
    BY <1>2, <2>1
  <2>3. j \in DOMAIN cdrs /\ cdrs'[j] = cdrs[j] /\ j + HistoryLimit > Len(cdrs)
    BY <1>2, <2>1, <2>2
  <2> QED BY <2>3 DEF RecentCdrs
<1> QED BY <1>1, <1>2 DEF SaveCdr

LEMMA RecentElsewhere ==
  ASSUME TypeOK, NEW w \in Webhooks, DeliveryStep(w), NEW c \in Calls,
         c # CallOf[w] \/ ~SaveCdr(w), c \in RecentCdrs'
  PROVE  c \in RecentCdrs
<1>1. CASE SaveCdr(w)
  BY <1>1, RecentGrows
<1>2. CASE ~SaveCdr(w)
  <2>1. cdrs' = cdrs
    BY <1>2 DEF DeliveryStep, Deliver, TaskStep, CallerFound, CallerUnknown, Decides, StartAccept,
       Accepted, AcceptFails, Rejected, RejectFails, Graced, Closed, Left, SessionFails
  <2> QED BY <2>1 DEF RecentCdrs
<1> QED BY <1>1, <1>2

LEMMA AloneElsewhere ==
  ASSUME NEW c \in Calls, Untouched(c), AloneSound(c), c \in RecentCdrs' => c \in RecentCdrs
  PROVE  AloneSound(c)'
<1>1. Deliveries(c)' = Deliveries(c)
  BY DEF Untouched, Deliveries
<1>2. ASSUME NEW w \in Webhooks, Deliveries(c) = {w}
      PROVE  Alone(c, w)'
  <2>1. CallOf[w] = c
    BY <1>2 DEF Deliveries
  <2>2. task'[w] = task[w] /\ held'[w] = held[w] /\ record'[c] = record[c]
    BY <2>1 DEF Untouched
  <2>3. object'[w] = object[w] /\ object'[c] = object[c]
    BY <2>1, AdmissionAssumption DEF Untouched, Owner, Objects
  <2>4. c \in late' <=> c \in late
    BY DEF Untouched
  <2> QED BY <1>2, <2>2, <2>3, <2>4 DEF AloneSound, Alone, Final
<1>3. ASSUME NEW w \in Webhooks, Deliveries(c) # {w}
      PROVE  Alone(c, w)'
  BY <1>1, <1>3 DEF Alone
<1> QED BY <1>1, <1>2, <1>3 DEF AloneSound

\* If the delivery that acts is alone after its step, it was alone before or is new.
LEMMA AloneHere ==
  ASSUME TypeOK, NEW w \in Webhooks, DeliveryStep(w), AloneSound(CallOf[w])
  PROVE  AloneSound(CallOf[w])'
<1> DEFINE c == CallOf[w]
<1>1. c \in Calls
  BY CallOfType
<1>2. Deliveries(c)' # {}
  BY ActorDelivered
<1>3. late' = late
  BY DEF DeliveryStep, Deliver, TaskStep, CallerFound, CallerUnknown, Decides, StartAccept,
     Accepted, AcceptFails, Rejected, RejectFails, Graced, Closed, Left, SaveCdr, SessionFails,
     otherVars
<1>4. ASSUME NEW v \in Webhooks, v # w
      PROVE  Alone(c, v)'
  <2>1. Deliveries(c)' # {v}
    BY <1>4, ActorDelivered
  <2> QED BY <2>1 DEF Alone
<1>5. SUFFICES ASSUME Deliveries(c)' = {w}
               PROVE  /\ task'[w] # "lost"
                      /\ record'[c] = w /\ (task'[w] = "lookup" => held'[w] = w)
                      /\ task'[w] = "grace" => object'[w] \in Final \cup {"TRANSFERRING"}
                      /\ task'[w] \in {"saving", "over"} => object'[w] \in Final \/ c \in late
                      /\ c \in RecentCdrs' => task'[w] = "over"
  BY <1>2, <1>3, <1>4 DEF AloneSound, Alone, Final
<1>6. ~Deliver(w) => Deliveries(c) = {w} /\ task[w] \notin {"lost", "over"} /\ record[c] = w
  BY <1>5, ActorDelivered DEF AloneSound, Alone
<1>7. c \notin RecentCdrs
  <2>1. CASE Deliver(w)
    <3>1. Deliveries(c) = {}
      BY <1>5, <2>1, ActorDelivered
    <3> QED BY <3>1 DEF AloneSound
  <2>2. CASE ~Deliver(w)
    BY <1>6, <2>2 DEF AloneSound, Alone
  <2> QED BY <2>1, <2>2
<1>8. c \in RecentCdrs' => SaveCdr(w)
  BY <1>1, <1>7, RecentElsewhere
<1>9. CASE Deliver(w)
  <2>1. task'[w] \in {"reject", "queued"} /\ record'[c] = w
    BY <1>1, <1>9 DEF Deliver, Goto, TaskFor, TypeOK
  <2>2. ~SaveCdr(w)
    BY <1>9 DEF Deliver, SaveCdr
  <2> QED BY <1>8, <2>1, <2>2
<1>10. CASE StartAccept(w)
  <2>1. /\ ~Deliver(w) /\ ~SaveCdr(w)
        /\ task'[w] = "lookup" /\ held'[w] = record[c] /\ record' = record
    BY <1>10 DEF StartAccept, SaveCdr, Deliver, Goto, TypeOK
  <2> QED BY <1>6, <1>8, <2>1
<1>11. CASE CallerFound(w)
  <2>1. /\ ~Deliver(w) /\ ~SaveCdr(w)
        /\ task[w] = "lookup" /\ task'[w] = "accept" /\ record'[c] = held[w]
    BY <1>1, <1>11 DEF CallerFound, SaveCdr, Deliver, Goto, TypeOK
  <2>2. held[w] = w
    BY <1>6, <2>1 DEF AloneSound, Alone
  <2> QED BY <1>8, <2>1, <2>2
<1>12. CASE \/ CallerUnknown(w) \/ Accepted(w) \/ AcceptFails(w) \/ Rejected(w) \/ RejectFails(w)
            \/ SessionFails(w)
  <2>1. /\ ~Deliver(w) /\ ~SaveCdr(w) /\ record' = record
        /\ task'[w] \in {"accept", "session", "failed", "rejected", "unanswered", "gaveUp"}
    BY <1>12 DEF CallerUnknown, Accepted, AcceptFails, Rejected, RejectFails, SessionFails,
       SaveCdr, Deliver, Goto, TypeOK
  <2> QED BY <1>6, <1>8, <2>1
<1>13. CASE Graced(w)
  <2>1. /\ ~Deliver(w) /\ ~SaveCdr(w) /\ UNCHANGED <<object, record>> /\ task'[w] = "grace"
        /\ StateOf(c) = "TRANSFERRING"
    BY <1>13 DEF Graced, SaveCdr, Deliver, Goto, TypeOK
  <2>2. object[w] = "TRANSFERRING"
    BY <1>6, <2>1 DEF StateOf, Objects
  <2> QED BY <1>6, <1>8, <2>1, <2>2
<1>14. CASE Closed(w)
  <2>1. ~Deliver(w) /\ ~SaveCdr(w) /\ record' = record /\ task'[w] = "saving"
    BY <1>14 DEF Closed, SaveCdr, Deliver, Running, Goto, TypeOK
  <2>2. PICK s \in Final : SetState(c, s)
    BY <1>14 DEF Closed
  <2>3. object'[w] = s
    BY <1>6, <2>1, <2>2 DEF SetState, Objects
  <2> QED BY <1>6, <1>8, <2>1, <2>3
<1>15. CASE Left(w)
  <2>1. /\ ~Deliver(w) /\ task[w] = "grace"
        /\ StateOf(c) \notin Final \cup {"TRANSFERRING"}
    BY <1>15 DEF Left, Deliver
  <2>2. StateOf(c) = object[w]
    BY <1>6, <2>1 DEF StateOf, Objects
  <2> QED BY <1>6, <2>1, <2>2 DEF AloneSound, Alone
<1>16. CASE SaveCdr(w)
  <2>1. /\ ~Deliver(w) /\ UNCHANGED <<object, record>>
        /\ task[w] = "saving" /\ task'[w] = "over"
    BY <1>16 DEF SaveCdr, Deliver, Goto, TypeOK
  <2> QED BY <1>6, <2>1 DEF AloneSound, Alone
<1> QED BY <1>9, <1>10, <1>11, <1>12, <1>13, <1>14, <1>15, <1>16
        DEF DeliveryStep, TaskStep, Decides

LEMMA AloneOutside ==
  ASSUME TypeOK, NEW c \in Calls, Outside(c), AloneSound(c)
  PROVE  AloneSound(c)'
<1>1. /\ UNCHANGED <<record, held, task, cdrs, saved>>
      /\ \/ UNCHANGED <<object, late>>
         \/ Transfers(c)
         \/ SetState(c, "ENDED") /\ late' = late
  BY OutsideKinds
<1>2. Deliveries(c)' = Deliveries(c) /\ RecentCdrs' = RecentCdrs
  BY <1>1 DEF Deliveries, RecentCdrs
<1>3. ASSUME NEW w \in Webhooks, Deliveries(c) = {w}
      PROVE  Alone(c, w)'
  <2>1. Alone(c, w)
    BY DEF AloneSound
  <2>2. \A o \in Objects : object[o] \in Final \/ c \in late => object'[o] \in Final \/ c \in late'
                           \/ InSession(c)
    BY <1>1 DEF Transfers, SetState, Final
  <2>3. InSession(c) => task[w] \in Running
    BY <1>3 DEF InSession, Deliveries, Running
  <2>4. \A o \in Objects : object'[o] \in {object[o], "TRANSFERRING", "ENDED"}
    BY <1>1 DEF Transfers, SetState
  <2>5. w \in Objects /\ c \in Objects
    BY DEF Objects
  <2>6. task[w] = "grace" => object'[w] \in Final \cup {"TRANSFERRING"}
    BY <1>3, <2>1, <2>4, <2>5 DEF Alone, Final
  <2>7. task[w] \in {"saving", "over"} => object'[w] \in Final \/ c \in late'
    BY <1>3, <2>1, <2>2, <2>3, <2>5 DEF Alone, Running
  <2>8. c \in RecentCdrs
          => \/ task[w] = "over"
             \/ task[w] = "lost" /\ record[c] = c /\ (object'[c] \in Final \/ c \in late')
    BY <1>3, <2>1, <2>2, <2>3, <2>5 DEF Alone, Running
  <2> QED BY <1>1, <1>2, <1>3, <2>1, <2>6, <2>7, <2>8 DEF Alone, Final
<1>4. ASSUME NEW w \in Webhooks, Deliveries(c) # {w}
      PROVE  Alone(c, w)'
  BY <1>2, <1>4 DEF Alone
<1> QED BY <1>2, <1>3, <1>4 DEF AloneSound

----------------------------------------------------------------------------
(* The invariant of the calls.                                             *)

Sound(c) == OpenSound(c) /\ OneSession(c) /\ SavedSound(c) /\ AloneSound(c)

AllSound == \A c \in Calls : Sound(c)

\* What is stored after a restart is what the records say.
LEMMA SoundAfterRestart ==
  ASSUME TypeOK, NEW c \in Calls, Sound(c), Restart
  PROVE  Sound(c)'
<1>1. \A w \in Webhooks : task'[w] \in {"none", "lost"} /\ held'[w] = NoObject
  BY DEF Restart
<1>2. /\ record'[c] = IF c \in RecentCdrs THEN c ELSE NoObject
      /\ object'[c] = saved[c]
  BY DEF Restart, LoadRecentCdrs, Objects
<1>3. UNCHANGED <<leg, cdrs, saved, late>>
  BY DEF Restart
<1>4. Finished(c, saved[c])
  BY DEF Sound, SavedSound
<1>5. OneSession(c)'
  BY <1>1 DEF OneSession, SessionPC, Running
<1>6. SavedSound(c)'
  BY <1>1, <1>3, <1>4 DEF SavedSound, Finished, Final
<1>7. OpenSound(c)'
  <2>1. StateOf(c)' \in {"none", saved[c]}
    BY <1>2, AdmissionAssumption DEF StateOf, Objects
  <2> QED BY <1>3, <1>4, <2>1
          DEF OpenSound, RingingSound, ActiveSound, TransferSound, Finished, Final
<1>8. Deliveries(c)' = Deliveries(c) /\ RecentCdrs' = RecentCdrs
  <2>1. \A w \in Webhooks : task'[w] = "none" <=> task[w] = "none"
    BY DEF Restart
  <2> QED BY <1>3, <2>1 DEF Deliveries, RecentCdrs
<1>9. AloneSound(c)'
  <2>1. ASSUME NEW w \in Webhooks, Deliveries(c) = {w}
        PROVE  Alone(c, w)'
    <3>1. task'[w] = "lost"
      BY <2>1 DEF Deliveries, Restart
    <3>2. c \in RecentCdrs => record'[c] = c /\ (object'[c] \in Final \/ c \in late')
      BY <1>2, <1>3, <1>4 DEF Finished
    <3> QED BY <1>8, <3>1, <3>2 DEF Alone, Final
  <2>2. ASSUME NEW w \in Webhooks, Deliveries(c) # {w}
        PROVE  Alone(c, w)'
    BY <1>8, <2>2 DEF Alone
  <2> QED BY <1>8, <2>1, <2>2 DEF Sound, AloneSound
<1> QED BY <1>5, <1>6, <1>7, <1>9 DEF Sound

LEMMA SoundStep == TypeOK /\ Linked /\ AllSound /\ [Next]_vars => AllSound'
<1> SUFFICES ASSUME TypeOK, Linked, AllSound, [Next]_vars, NEW c \in Calls
             PROVE  Sound(c)'
  BY DEF AllSound
<1>1. OpenSound(c) /\ OneSession(c) /\ SavedSound(c) /\ AloneSound(c)
  BY DEF AllSound, Sound
<1>2. ASSUME Untouched(c), c \in RecentCdrs' => c \in RecentCdrs
      PROVE  Sound(c)'
  BY <1>1, <1>2, OpenElsewhere, OneSessionElsewhere, SavedElsewhere, AloneElsewhere DEF Sound
<1>3. ASSUME NEW w \in Webhooks, DeliveryStep(w)
      PROVE  Sound(c)'
  <2>1. CASE c = CallOf[w]
    BY <1>1, <1>3, <2>1, OpenHere, OneSessionHere, SavedHere, AloneHere DEF Sound
  <2>2. CASE c # CallOf[w]
    BY <1>2, <1>3, <2>2, DeliveryUntouched, RecentElsewhere
  <2> QED BY <2>1, <2>2
<1>4. ASSUME NEW d \in Calls, Outside(d)
      PROVE  Sound(c)'
  <2>1. CASE c = d
    BY <1>1, <1>4, <2>1, OpenOutside, OneSessionOutside, SavedOutside, AloneOutside DEF Sound
  <2>2. CASE c # d
    <3>1. RecentCdrs' = RecentCdrs
      BY <1>4, OutsideKinds DEF RecentCdrs
    <3> QED BY <1>2, <1>4, <2>2, <3>1, OutsideUntouched
  <2> QED BY <2>1, <2>2
<1>5. CASE Restart
  BY <1>5, SoundAfterRestart DEF AllSound
<1>6. CASE UNCHANGED <<taskVars, late>>
  <2>1. Untouched(c) /\ RecentCdrs' = RecentCdrs
    BY <1>6 DEF Untouched, taskVars, RecentCdrs
  <2> QED BY <1>2, <2>1
<1> QED BY <1>3, <1>4, <1>5, <1>6, CallActions

LEMMA CallsInit == Init => Linked /\ AllSound
<1> SUFFICES ASSUME Init
             PROVE  Linked /\ AllSound
  OBVIOUS
<1>1. Linked
  BY DEF Init, Linked
<1>2. ASSUME NEW c \in Calls
      PROVE  Sound(c)
  <2>1. StateOf(c) = "none" /\ Deliveries(c) = {} /\ c \notin RecentCdrs
    BY AdmissionAssumption DEF Init, StateOf, Objects, Deliveries, RecentCdrs
  <2>2. OpenSound(c)
    BY <2>1 DEF OpenSound, RingingSound, ActiveSound, TransferSound
  <2>3. OneSession(c) /\ SavedSound(c)
    BY DEF Init, OneSession, SessionPC, Running, SavedSound, Finished, Final
  <2>4. AloneSound(c)
    BY <2>1 DEF AloneSound, Alone
  <2> QED BY <2>2, <2>3, <2>4 DEF Sound
<1> QED BY <1>1, <1>2 DEF AllSound

LEMMA CallsSound == Spec => [](TypeOK /\ Linked /\ AllSound)
BY CallsInit, LinkedStep, SoundStep, TypeCorrect, PTL DEF Spec

\* However many deliveries of a call replace and re-store each other's objects, a call
\* that is RINGING in the store has a task that will still decide it, or a reject whose
\* request failed. (create_call, _accept_call, _reject_call.)
THEOREM RingingCallsArePending == Spec => []RingingIsPending
<1>1. AllSound => RingingIsPending
  BY DEF AllSound, Sound, OpenSound, RingingSound, Waits, RingingIsPending
<1> QED BY <1>1, CallsSound, PTL

\* For any set of calls and deliveries, a call that is ACTIVE or TRANSFERRING in the store
\* has a task that will still close it, whatever its handlers, operators and a restart
\* write to it, unless a transfer was written after its session. (_teardown, refer,
\* hangup, _end_session, load_recent_cdrs.)
THEOREM OpenCallsGetClosed == Spec => []OpenCallsAreClosed
<1>1. AllSound => OpenCallsAreClosed
  <2> SUFFICES ASSUME AllSound, NEW c \in Calls \ late,
                      StateOf(c) \in {"ACTIVE", "TRANSFERRING"}
               PROVE  \E w \in Deliveries(c) : task[w] \in Running \cup {"accept"}
    BY DEF OpenCallsAreClosed
  <2>1. ActiveSound(c) /\ TransferSound(c)
    BY DEF AllSound, Sound, OpenSound
  <2> QED BY <2>1 DEF ActiveSound, TransferSound, Waits, Running
<1> QED BY <1>1, CallsSound, PTL

\* Few records after the i-th make it one of the latest.
LEMMA LatestIsRecent ==
  ASSUME TypeOK, NEW i \in DOMAIN cdrs, Cardinality({j \in DOMAIN cdrs : i < j}) < HistoryLimit
  PROVE  cdrs[i] \in RecentCdrs
<1>1. /\ Len(cdrs) \in Nat /\ DOMAIN cdrs = 1..Len(cdrs) /\ HistoryLimit \in Nat
      /\ i \in Nat /\ i <= Len(cdrs)
  BY AdmissionAssumption DEF TypeOK
<1>2. {j \in DOMAIN cdrs : i < j} = (i + 1)..Len(cdrs)
  <2>1. \A j : j \in DOMAIN cdrs /\ i < j <=> j \in (i + 1)..Len(cdrs)
    BY <1>1
  <2> QED BY <2>1
<1>3. i + 1 \in Int /\ Len(cdrs) \in Int
  BY <1>1
<1>4. Cardinality((i + 1)..Len(cdrs)) =
        IF i + 1 > Len(cdrs) THEN 0 ELSE Len(cdrs) - (i + 1) + 1
  BY <1>3, FS_Interval, Zenon
<1>5. (IF i + 1 > Len(cdrs) THEN 0 ELSE Len(cdrs) - (i + 1) + 1) < HistoryLimit
  BY <1>2, <1>4
<1>6. i + HistoryLimit > Len(cdrs)
  BY <1>1, <1>5
<1> QED BY <1>6 DEF RecentCdrs

\* For any history limit and any number of restarts, a call delivered once that has one of
\* the latest detail records is in the store as a finished call, also when its record was
\* loaded, unless a transfer was written after its session. (_save_cdr, load_recent_cdrs.)
THEOREM RecordsSurvive == Spec => []FinishedCallsSurvive
<1>1. TypeOK /\ AllSound => FinishedCallsSurvive
  <2> SUFFICES ASSUME TypeOK, AllSound, NEW i \in DOMAIN cdrs, NEW w \in Webhooks,
                      Cardinality({j \in DOMAIN cdrs : i < j}) < HistoryLimit,
                      Deliveries(cdrs[i]) = {w}, cdrs[i] \notin late
               PROVE  StateOf(cdrs[i]) \in Final
    BY DEF FinishedCallsSurvive
  <2> DEFINE c == cdrs[i]
  <2>1. c \in Calls /\ c \in RecentCdrs
    BY LatestIsRecent DEF TypeOK
  <2>2. Alone(c, w)
    BY <2>1 DEF AllSound, Sound, AloneSound
  <2>3. CASE task[w] = "over"
    <3>1. record[c] = w /\ object[w] \in Final
      BY <2>2, <2>3 DEF Alone
    <3> QED BY <3>1 DEF StateOf, Objects
  <2>4. CASE task[w] = "lost"
    <3>1. record[c] = c /\ object[c] \in Final
      BY <2>1, <2>2, <2>4 DEF Alone
    <3> QED BY <2>1, <3>1 DEF StateOf, Objects
  <2> QED BY <2>1, <2>2, <2>3, <2>4 DEF Alone
<1> QED BY <1>1, CallsSound, PTL
================================================================================
