------------------------- MODULE CallLifecycleProofs -------------------------
(***************************************************************************)
(* Proofs about CallLifecycle, for every number of reconnects, every       *)
(* choice of actors and every choice of troubles: the types are right, a   *)
(* final call has a cause, and the session keeps the safety part of        *)
(* SessionContract.                                                        *)
(*                                                                         *)
(* Inv is the inductive invariant. Its parts beyond TypeOK say where the   *)
(* session can be when a request of somebody else is under way, and how a  *)
(* call can have left the conversation: without them a late answer could   *)
(* start the session twice or end it without a record.                     *)
(***************************************************************************)
EXTENDS CallLifecycle, TLAPS

\* Another retry is possible while one is being prepared.
RetryBounded == conn = "backoff" => attempt < MaxReconnects

\* No session before the accept request has been answered.
AcceptFirst == request["accept"] # "handled" => conn = "none"

\* While check_escalation runs inside the event loop, the loop is there.
LoopHeld == request["frustration"] \in {"sent", "granted", "refused"} => conn = "open"

\* A call given time to transfer is transferring, or somebody has ended it.
Leaving == conn \in {"grace", "farewell"} => call.state \in Final \cup {"TRANSFERRING"}

\* The detail record is due when the session is over, and not before.
RecordWhenOver == cdr.status # "none" <=> conn = "done"

Inv == /\ TypeOK
       /\ RetryBounded /\ AcceptFirst /\ LoopHeld /\ Leaving /\ RecordWhenOver

----------------------------------------------------------------------------
(* The operators the handlers are built from.                              *)

\* Whatever a handler writes to the record, it stays a record of a call.
LEMMA WritersType ==
  ASSUME NEW c \in Call
  PROVE  /\ Answered(c) \in Call    /\ NotAnswered(c) \in Call /\ HungUp(c) \in Call
         /\ Referred(c) \in Call    /\ Escalated(c) \in Call   /\ WrappedUp(c) \in Call
         /\ Transferred(c) \in Call /\ Closed(c) \in Call
BY DEF Call, States, Causes, Answered, NotAnswered, HungUp, Referred, Escalated, WrappedUp,
       Transferred, Closed

\* The state each handler leaves the call in.
LEMMA WritersState ==
  ASSUME NEW c \in Call
  PROVE  /\ NotAnswered(c).state = "FAILED"
         /\ HungUp(c).state = "ENDED" /\ WrappedUp(c).state = "ENDED"
         /\ Transferred(c).state = "ENDED" /\ Closed(c).state = "ENDED"
         /\ Referred(c).state = "TRANSFERRING" /\ Escalated(c).state = "TRANSFERRING"
BY DEF Call, NotAnswered, HungUp, Referred, Escalated, WrappedUp, Transferred, Closed

LEMMA PublishType ==
  ASSUME TypeOK, NEW n \in 0..1
  PROVE  Publish(n) \in 0..2 /\ Publish(n + 1) \in 0..2
BY DEF TypeOK, Publish

LEMMA CdrDueType ==
  ASSUME TypeOK
  PROVE  CdrDue \in Cdr /\ CdrDue.status = "pending"
BY DEF TypeOK, Cdr, CdrDue

\* A request changes its own progress and nobody else's.
LEMMA RequestChanges ==
  ASSUME TypeOK, NEW r \in Requests, NEW p \in Progress, request' = [request EXCEPT ![r] = p]
  PROVE  /\ request' \in [Requests -> Progress]
         /\ request'[r] = p
         /\ \A q \in Requests : q # r => request'[q] = request[q]
BY DEF TypeOK

LEMMA AllRequests ==
  /\ \A r \in Referrers : r \in Requests
  /\ {"accept", "frustration", "operator_hangup", "failure_hangup", "teardown_hangup"} \subseteq Requests
BY DEF Requests, Referrers, Hangups

\* _teardown ends the session with its record due, or gives a transferring call time.
LEMMA TeardownEnds ==
  ASSUME TypeOK, NEW c \in Call, NEW n \in 0..1, Teardown(c, n)
  PROVE  /\ call' \in Call /\ published' \in 0..2
         /\ registered' = FALSE /\ ws' = "none"
         /\ UNCHANGED <<attempt, opened, closing>>
         /\ cdr' \in Cdr
         /\ \/ conn' = "grace" /\ call'.state = "TRANSFERRING" /\ cdr' = cdr
            \/ conn' = "done" /\ cdr'.status = "pending" /\ call'.state \in Final
<1>1. Publish(n) \in 0..2 /\ Publish(n + 1) \in 0..2
  BY PublishType
<1>2. cdr \in Cdr /\ CdrDue \in Cdr /\ CdrDue.status = "pending"
  BY CdrDueType DEF TypeOK
<1>3. Closed(c) \in Call /\ Closed(c).state \in Final
  BY WritersType, WritersState DEF Final
<1>4. CASE c.state = "TRANSFERRING"
  BY <1>1, <1>2, <1>4 DEF Teardown
<1>5. CASE c.state # "TRANSFERRING"
  BY <1>1, <1>2, <1>3, <1>5 DEF Teardown
<1>6. QED
  BY <1>4, <1>5

----------------------------------------------------------------------------
(* The inductive invariant.                                                *)

LEMMA InitInv == Init => Inv
<1> SUFFICES ASSUME Init PROVE Inv
  OBVIOUS
<1>1. call \in Call /\ cdr \in Cdr /\ cdr.status = "none"
  BY DEF Init, Call, Cdr, States, Causes, NoCdr
<1>2. request \in [Requests -> Progress] /\ \A r \in Requests : request[r] = "idle"
  BY DEF Init, Progress
<1>3. TypeOK
  <2>1. /\ published = 0 /\ leg = "ringing" /\ conn = "none" /\ attempt = 0 /\ ws = "none"
        /\ ~opened /\ ~registered /\ ~closing
        /\ {opened, registered, closing} \subseteq BOOLEAN
    BY DEF Init
  <2>2. QED
    BY <1>1, <1>2, <2>1, LifecycleAssumption DEF TypeOK
<1>4. request["frustration"] = "idle"
  BY <1>2, AllRequests
<1>5. QED
  BY <1>1, <1>3, <1>4 DEF Init, Inv, RetryBounded, AcceptFirst, LoopHeld, Leaving, RecordWhenOver

LEMMA SessionInv == Inv /\ SessionStep => Inv'
<1> SUFFICES ASSUME Inv, SessionStep PROVE Inv'
  OBVIOUS
<1> USE AllRequests DEF Inv, RetryBounded, AcceptFirst, LoopHeld, Leaving, RecordWhenOver, TypeOK
<1>1. CASE StartSession
  BY <1>1 DEF StartSession
<1>2. CASE Connects
  BY <1>2 DEF Connects
<1>3. ASSUME GiveUp, UNCHANGED leg,
             conn \in {"connecting", "open"}, conn = "open" => LoopFree
      PROVE  Inv'
  <2>1. call' \in Call
    BY <1>3 DEF GiveUp, Call, Causes
  <2>2. request' \in [Requests -> Progress] /\ request'["accept"] = request["accept"]
        /\ request'["frustration"] = request["frustration"]
    BY <1>3, RequestChanges DEF GiveUp, Send, Progress
  <2>3. QED
    BY <1>3, <2>1, <2>2 DEF GiveUp, LoopFree
<1>4. ASSUME Teardown(call, 0), UNCHANGED <<request, leg>>,
             conn \in {"connecting", "open"}, conn = "open" => LoopFree
      PROVE  Inv'
  <2>1. request["frustration"] \notin {"sent", "granted", "refused"} /\ request["accept"] = "handled"
    BY <1>4 DEF LoopFree
  <2>2. PICK c \in Call, n \in 0..1 : Teardown(c, n)
    BY <1>4
  <2>3. /\ call' \in Call /\ published' \in 0..2 /\ cdr' \in Cdr
        /\ registered' = FALSE /\ ws' = "none" /\ UNCHANGED <<attempt, opened, closing>>
        /\ \/ conn' = "grace" /\ call'.state = "TRANSFERRING" /\ cdr' = cdr
           \/ conn' = "done" /\ cdr'.status = "pending" /\ call'.state \in Final
    BY <2>2, TeardownEnds
  <2>4. QED
    BY <1>4, <2>1, <2>3
<1>5. CASE HandshakeRejected
  BY <1>3, <1>5 DEF HandshakeRejected
<1>6. CASE ConnectError
  BY <1>4, <1>6 DEF ConnectError
<1>7. CASE SessionClosed
  BY <1>4, <1>7 DEF SessionClosed, LoopFree
<1>8. CASE ConnectionLost
  BY <1>8 DEF ConnectionLost, LoopFree, RetriesLeft
<1>9. CASE ConnectionExhausted
  BY <1>3, <1>9 DEF ConnectionExhausted, LoopFree
<1>10. CASE EventLoopRaises
  BY <1>4, <1>10 DEF EventLoopRaises, LoopFree
<1>11. CASE Retry
  BY <1>11, LifecycleAssumption DEF Retry
<1>12. CASE FailureHangupAnswered
  <2>1. request' \in [Requests -> Progress] /\ request'["accept"] = request["accept"]
        /\ request'["frustration"] = request["frustration"]
    BY <1>12, RequestChanges DEF FailureHangupAnswered, Handle, Progress
  <2>2. PICK c \in Call, n \in 0..1 : Teardown(c, n)
    BY <1>12, WritersType DEF FailureHangupAnswered
  <2>3. QED
    BY <1>12, <2>1, <2>2, TeardownEnds DEF FailureHangupAnswered
<1>13. CASE GraceOver
  <2>1. request' \in [Requests -> Progress] /\ request'["accept"] = request["accept"]
        /\ request'["frustration"] = request["frustration"]
    BY <1>13, RequestChanges DEF GraceOver, Send, Progress
  <2>2. QED
    BY <1>13, <2>1 DEF GraceOver
<1>14. CASE FarewellAnswered
  <2>1. request' \in [Requests -> Progress] /\ request'["accept"] = request["accept"]
        /\ request'["frustration"] = request["frustration"]
    BY <1>14, RequestChanges DEF FarewellAnswered, Handle, Progress
  <2>2. call' \in Call /\ published' \in 0..2 /\ call'.state \in Final
    <3>1. PICK c \in {call, HungUp(call)}, n \in 0..1 :
            IF c.state = "TRANSFERRING"
            THEN call' = Transferred(c) /\ published' = Publish(n + 1)
            ELSE call' = c /\ published' = Publish(n)
      BY <1>14 DEF FarewellAnswered
    <3>2. c \in Call /\ c.state \in Final \cup {"TRANSFERRING"}
      BY <1>14, WritersType, WritersState DEF FarewellAnswered, Final
    <3>3. Publish(n) \in 0..2 /\ Publish(n + 1) \in 0..2
      BY PublishType
    <3>4. Transferred(c) \in Call /\ Transferred(c).state \in Final
      BY <3>2, WritersType, WritersState DEF Final
    <3>5. QED
      BY <3>1, <3>2, <3>3, <3>4
  <2>3. cdr' \in Cdr /\ cdr'.status = "pending"
    BY <1>14, <2>2, CdrDueType DEF FarewellAnswered
  <2>4. QED
    BY <1>14, <2>1, <2>2, <2>3 DEF FarewellAnswered
<1>15. QED
  BY <1>1, <1>2, <1>5, <1>6, <1>7, <1>8, <1>9, <1>10, <1>11, <1>12, <1>13, <1>14 DEF SessionStep

\* Closing the session moves neither connect() nor its count of attempts.
LEMMA CloseSessionType ==
  ASSUME TypeOK, CloseSession
  PROVE  /\ closing' \in BOOLEAN /\ ws' \in {"none", "up", "broken", "closed"}
         /\ UNCHANGED <<conn, attempt, opened, registered>>
BY DEF CloseSession, TypeOK

LEMMA HandlerInv == Inv /\ Handler => Inv'
<1> SUFFICES ASSUME Inv, Handler PROVE Inv'
  OBVIOUS
<1> USE AllRequests DEF Inv, RetryBounded, AcceptFirst, LoopHeld, Leaving, RecordWhenOver, TypeOK
<1>1. CASE SendAccept
  <2>1. request' \in [Requests -> Progress] /\ request'["accept"] = "sent"
        /\ request'["frustration"] = request["frustration"]
    BY <1>1, RequestChanges DEF SendAccept, Send, Progress
  <2>2. QED
    BY <1>1, <2>1 DEF SendAccept, sessionVars
<1>2. CASE Accepted
  <2>1. request' \in [Requests -> Progress] /\ request'["accept"] = "handled"
        /\ request'["frustration"] = request["frustration"]
    BY <1>2, RequestChanges DEF Accepted, Handle, Progress
  <2>2. call' \in Call
    BY <1>2, WritersType DEF Accepted
  <2>3. QED
    BY <1>2, <2>1, <2>2 DEF Accepted
<1>3. CASE AcceptFails
  <2>1. request' \in [Requests -> Progress] /\ request'["accept"] = "handled"
        /\ request'["frustration"] = request["frustration"]
    BY <1>3, RequestChanges DEF AcceptFails, Handle, Progress
  <2>2. call' \in Call /\ published' \in 0..2
    <3>1. Publish(0 + 1) \in 0..2
      BY PublishType
    <3>2. QED
      BY <1>3, <3>1, WritersType DEF AcceptFails
  <2>3. QED
    BY <1>3, <2>1, <2>2 DEF AcceptFails, sessionVars
<1>4. CASE OperatorHangupAnswered
  <2>1. request' \in [Requests -> Progress] /\ request'["accept"] = request["accept"]
        /\ request'["frustration"] = request["frustration"]
    BY <1>4, RequestChanges DEF OperatorHangupAnswered, Handle, Progress
  <2>2. CASE request["operator_hangup"] = "granted"
    <3>1. call' \in Call /\ call'.state \in Final
      BY <1>4, <2>2, WritersType, WritersState DEF OperatorHangupAnswered, Final
    <3>2. published' \in 0..2
      <4>1. Publish(0 + 1) \in 0..2
        BY PublishType
      <4>2. QED
        BY <1>4, <2>2, <4>1 DEF OperatorHangupAnswered
    <3>3. QED
      BY <1>4, <2>1, <2>2, <3>1, <3>2, CloseSessionType DEF OperatorHangupAnswered
  <2>3. CASE request["operator_hangup"] # "granted"
    BY <1>4, <2>1, <2>3 DEF OperatorHangupAnswered, sessionVars
  <2>4. QED
    BY <2>2, <2>3
<1>5. CASE SaveCdr
  <2>1. cdr' \in Cdr /\ cdr'.status \in {"saved", "failed"}
    BY <1>5 DEF SaveCdr, Cdr, Call
  <2>2. QED
    BY <1>5, <2>1 DEF SaveCdr, sessionVars
<1>6. ASSUME NEW a \in Referrers, ReferAccepted(a) PROVE Inv'
  <2>1. request' \in [Requests -> Progress] /\ request'[a] = "handled"
        /\ request'["accept"] = request["accept"]
        /\ request'["frustration"] \in {request["frustration"], "handled"}
    BY <1>6, RequestChanges DEF ReferAccepted, Handle, Progress, Referrers
  <2>2. call' \in Call /\ call'.state = "TRANSFERRING"
    BY <1>6, WritersType, WritersState DEF ReferAccepted
  <2>3. QED
    BY <1>6, <2>1, <2>2, CloseSessionType DEF ReferAccepted
<1>7. ASSUME NEW a \in Referrers, ReferFails(a) PROVE Inv'
  <2>1. request' \in [Requests -> Progress] /\ request'[a] = "handled"
        /\ request'["accept"] = request["accept"]
        /\ (a # "frustration" => request'["frustration"] = request["frustration"])
    BY <1>7, RequestChanges DEF ReferFails, Handle, Progress, Referrers
  <2>2. CASE a = "frustration"
    <3>1. conn = "open" /\ request["accept"] = "handled"
      BY <1>7, <2>2 DEF ReferFails
    <3>2. PICK c \in Call, n \in 0..1 : Teardown(c, n)
      BY <1>7, <2>2 DEF ReferFails
    <3>3. /\ call' \in Call /\ published' \in 0..2 /\ cdr' \in Cdr
          /\ registered' = FALSE /\ ws' = "none" /\ UNCHANGED <<attempt, opened, closing>>
          /\ \/ conn' = "grace" /\ call'.state = "TRANSFERRING" /\ cdr' = cdr
             \/ conn' = "done" /\ cdr'.status = "pending" /\ call'.state \in Final
      BY <3>2, TeardownEnds
    <3>4. QED
      BY <1>7, <2>1, <2>2, <3>1, <3>3 DEF ReferFails
  <2>3. CASE a # "frustration"
    BY <1>7, <2>1, <2>3 DEF ReferFails, sessionVars
  <2>4. QED
    BY <2>2, <2>3
<1>8. QED
  BY <1>1, <1>2, <1>3, <1>4, <1>5, <1>6, <1>7 DEF Handler

LEMMA InterferenceInv == Inv /\ Interference => Inv'
<1> SUFFICES ASSUME Inv, Interference PROVE Inv'
  OBVIOUS
<1> USE AllRequests DEF Inv, RetryBounded, AcceptFirst, LoopHeld, Leaving, RecordWhenOver, TypeOK
<1>1. CASE EndSession
  <2>1. call' \in Call /\ call'.state \in Final
    BY <1>1, WritersType, WritersState DEF EndSession, Final
  <2>2. QED
    BY <1>1, <2>1, CloseSessionType DEF EndSession
<1>2. ASSUME NEW a \in Thresholds, BeginEscalation(a) PROVE Inv'
  <2>1. a \in Requests /\ a # "accept"
    BY DEF Thresholds, Referrers
  <2>2. request' \in [Requests -> Progress] /\ request'["accept"] = request["accept"]
        /\ (a # "frustration" => request'["frustration"] = request["frustration"])
    BY <1>2, <2>1, RequestChanges DEF BeginEscalation, Send, Progress
  <2>3. call' \in Call /\ call'.state = "TRANSFERRING"
    BY <1>2, WritersType, WritersState DEF BeginEscalation
  <2>4. QED
    BY <1>2, <2>2, <2>3 DEF BeginEscalation, LoopFree, sessionVars
<1>3. ASSUME NEW r \in {"tool", "operator", "operator_hangup"}, Send(r),
             UNCHANGED <<call, published, leg, sessionVars, cdr>>
      PROVE  Inv'
  <2>1. r \in Requests
    BY DEF Referrers
  <2>2. request' \in [Requests -> Progress] /\ request'["accept"] = request["accept"]
        /\ request'["frustration"] = request["frustration"]
    BY <1>3, <2>1, RequestChanges DEF Send, Progress
  <2>3. QED
    BY <1>3, <2>2 DEF sessionVars
<1>4. CASE EscalateToAgent
  BY <1>3, <1>4 DEF EscalateToAgent
<1>5. CASE ForceEscalate
  BY <1>3, <1>5 DEF ForceEscalate
<1>6. CASE OperatorHangsUp
  BY <1>3, <1>6 DEF OperatorHangsUp
<1>7. QED
  BY <1>1, <1>2, <1>4, <1>5, <1>6 DEF Interference

LEMMA ProviderInv ==
  ASSUME Inv, NEW r \in Requests, Answer(r)
  PROVE  Inv'
<1> USE AllRequests DEF Inv, RetryBounded, AcceptFirst, LoopHeld, Leaving, RecordWhenOver, TypeOK
<1>1. PICK p \in {"granted", "refused"} : request' = [request EXCEPT ![r] = p]
  BY DEF Answer, ProviderGrants, ProviderRefuses
<1>2. /\ request[r] = "sent" /\ leg' \in {"ringing", "up", "gone"}
      /\ UNCHANGED <<call, published, sessionVars, cdr>>
  BY DEF Answer, ProviderGrants, ProviderRefuses
<1>3. /\ request' \in [Requests -> Progress]
      /\ \A q \in Requests : request'[q] = request[q] \/ (request[q] = "sent" /\ request'[q] = p)
  BY <1>1, <1>2, RequestChanges DEF Progress
<1>4. QED
  BY <1>2, <1>3 DEF sessionVars

LEMMA StepInv == Inv /\ [Next]_vars => Inv'
<1> SUFFICES ASSUME Inv, [Next]_vars PROVE Inv'
  OBVIOUS
<1> USE DEF Inv, RetryBounded, AcceptFirst, LoopHeld, Leaving, RecordWhenOver, TypeOK
<1>1. CASE CallOver \/ UNCHANGED vars
  BY <1>1 DEF CallOver, vars, sessionVars
<1>2. CASE CallerHangsUp
  BY <1>2 DEF CallerHangsUp, sessionVars
<1>3. CASE ServerCloses
  BY <1>3 DEF ServerCloses
<1>4. CASE SocketBreaks
  BY <1>4 DEF SocketBreaks
<1>5. QED
  BY <1>1, <1>2, <1>3, <1>4, SessionInv, HandlerInv, InterferenceInv, ProviderInv DEF Next

\* The inductive invariant holds for every instance; the theorems below rest on it.
THEOREM InvHolds == Spec => []Inv
BY InitInv, StepInv, PTL DEF Spec

----------------------------------------------------------------------------
(* Theorems.                                                               *)

\* Every variable keeps its type; the session never begins more retries than
\* _RECONNECT_BACKOFFS has delays.
THEOREM TypeCorrect == Spec => []TypeOK
<1>1. Inv => TypeOK
  BY DEF Inv
<1>2. QED
  BY <1>1, InvHolds, PTL

Caused(c) == c.state \in Final => c.cause # "none"

\* A handler that ends the call supplies the cause; the others leave it not final.
LEMMA WritersCause ==
  ASSUME NEW c \in Call
  PROVE  /\ Caused(Answered(c)) /\ Caused(NotAnswered(c)) /\ Caused(HungUp(c))
         /\ Caused(Referred(c)) /\ Caused(Escalated(c)) /\ Caused(WrappedUp(c))
         /\ Caused(Transferred(c)) /\ Caused(Closed(c))
BY DEF Caused, Call, Final, Answered, NotAnswered, HungUp, Referred, Escalated, WrappedUp,
       Transferred, Closed

LEMMA TeardownCaused ==
  ASSUME NEW c \in Call, NEW n, Caused(c), Teardown(c, n)
  PROVE  Caused(call')
BY WritersCause DEF Teardown

LEMMA CauseStep == Inv /\ Caused(call) /\ [Next]_vars => Caused(call')
<1> SUFFICES ASSUME Inv, Caused(call), [Next]_vars PROVE Caused(call')
  OBVIOUS
<1>0. call \in Call /\ HungUp(call) \in Call /\ Caused(HungUp(call))
  BY WritersType, WritersCause DEF Inv, TypeOK
<1>1. CASE SessionStep
  <2>1. CASE GiveUp
    BY <1>0, <2>1 DEF GiveUp, Caused, Call
  <2>2. CASE \E c \in {call, HungUp(call)}, n \in 0..1 : Teardown(c, n)
    BY <1>0, <2>2, TeardownCaused
  <2>3. CASE FarewellAnswered
    <3>1. PICK c \in {call, HungUp(call)} : call' = Transferred(c) \/ call' = c
      BY <2>3 DEF FarewellAnswered
    <3>2. QED
      BY <1>0, <3>1, WritersCause
  <2>4. CASE UNCHANGED call
    BY <2>4
  <2>5. QED
    BY <1>1, <2>1, <2>2, <2>3, <2>4
       DEF SessionStep, StartSession, Connects, HandshakeRejected, ConnectError, SessionClosed,
           ConnectionLost, ConnectionExhausted, EventLoopRaises, Retry, FailureHangupAnswered,
           GraceOver
<1>2. CASE Handler
  <2>1. ASSUME NEW a \in Referrers, ReferAccepted(a) \/ ReferFails(a) PROVE Caused(call')
    BY <1>0, <2>1, WritersCause, TeardownCaused DEF ReferAccepted, ReferFails
  <2>2. QED
    BY <1>0, <1>2, <2>1, WritersCause
       DEF Handler, SendAccept, Accepted, AcceptFails, OperatorHangupAnswered, SaveCdr
<1>3. CASE Interference
  BY <1>0, <1>3, WritersCause
     DEF Interference, EndSession, EscalateToAgent, ForceEscalate, OperatorHangsUp, BeginEscalation
<1>4. CASE UNCHANGED call
  BY <1>4
<1>5. QED
  BY <1>1, <1>2, <1>3, <1>4
     DEF Next, CallOver, vars, Answer, ProviderGrants, ProviderRefuses, CallerHangsUp,
         ServerCloses, SocketBreaks

\* Whichever writer of the record comes last, a final call says why it ended.
THEOREM FinalCallsHaveCauses == Spec => []FinalCallHasCause
<1>1. Init => Caused(call)
  BY DEF Init, Caused, Final
<1>2. Caused(call) => FinalCallHasCause
  BY DEF Caused, FinalCallHasCause
<1>3. Inv /\ Caused(call) /\ [Next]_vars => Caused(call)'
  BY CauseStep
<1>4. QED
  BY <1>1, <1>2, <1>3, InvHolds, PTL DEF Spec

----------------------------------------------------------------------------
(* The session keeps the safety part of SessionContract.                   *)

Kept == UNCHANGED <<Stage, attempt, cdr.status>>

\* Contract!End: from a running session to one that is over, its record due.
LEMMA TeardownIsEnd ==
  ASSUME Inv, NEW c \in Call, NEW n \in 0..1, Teardown(c, n),
         conn \in {"connecting", "open", "gaveUp"}
  PROVE  Contract!End \/ Kept
<1>1. /\ attempt' = attempt
      /\ \/ conn' = "grace" /\ cdr' = cdr
         \/ conn' = "done" /\ cdr'.status = "pending"
  BY TeardownEnds DEF Inv
<1>2. QED
  BY <1>1 DEF Contract!End, Kept, Stage

LEMMA ContractSession == Inv /\ SessionStep => Contract!Next \/ Kept
<1> SUFFICES ASSUME Inv, SessionStep PROVE Contract!Next \/ Kept
  OBVIOUS
<1> USE DEF Contract!Next
<1>1. CASE StartSession
  BY <1>1 DEF StartSession, Contract!Start, Stage
<1>2. CASE Retry
  BY <1>2 DEF Retry, Inv, RetryBounded, Contract!Lose, Stage
<1>3. CASE GiveUp /\ conn \in {"connecting", "open"}
  BY <1>3 DEF GiveUp, Kept, Stage
<1>4. CASE conn \in {"connecting", "open", "gaveUp"} /\ \E c \in Call, n \in 0..1 : Teardown(c, n)
  BY <1>4, TeardownIsEnd
<1>5. CASE Connects \/ ConnectionLost \/ GraceOver
  BY <1>5 DEF Connects, ConnectionLost, LoopFree, GraceOver, Kept, Stage
<1>6. CASE FarewellAnswered
  <2>1. call \in Call /\ HungUp(call) \in Call /\ HungUp(call).state \in Final
        /\ (conn = "farewell" => call.state \in Final \cup {"TRANSFERRING"})
    BY WritersType, WritersState DEF Inv, TypeOK, Leaving, Final
  <2>2. PICK c \in {call, HungUp(call)} :
          IF c.state = "TRANSFERRING" THEN call' = Transferred(c) ELSE call' = c
    BY <1>6 DEF FarewellAnswered
  <2>3. call'.state \in Final
    BY <1>6, <2>1, <2>2, WritersState DEF FarewellAnswered, Final
  <2>4. cdr'.status = "pending"
    BY <1>6, <2>3, CdrDueType DEF FarewellAnswered, Inv
  <2>5. QED
    BY <1>6, <2>4 DEF FarewellAnswered, Contract!End, Stage
<1>7. QED
  <2>1. call \in Call /\ HungUp(call) \in Call
    BY WritersType DEF Inv, TypeOK
  <2>2. QED
    BY <1>1, <1>2, <1>3, <1>4, <1>5, <1>6, <2>1
       DEF SessionStep, HandshakeRejected, ConnectError, SessionClosed, ConnectionExhausted,
           EventLoopRaises, LoopFree, FailureHangupAnswered

LEMMA ContractStep == Inv /\ [Next]_vars => Contract!Next \/ Kept
<1> SUFFICES ASSUME Inv, [Next]_vars PROVE Contract!Next \/ Kept
  OBVIOUS
<1>1. CASE SessionStep
  BY <1>1, ContractSession
<1>2. CASE UNCHANGED <<conn, attempt, cdr>>
  BY <1>2 DEF Kept, Stage
<1>3. CASE SaveCdr
  <2>1. cdr'.status \in {"saved", "failed"}
    BY <1>3 DEF SaveCdr
  <2>2. QED
    BY <1>3, <2>1 DEF SaveCdr, sessionVars, Contract!Next, Contract!Write, Stage
<1>4. CASE Accepted
  BY <1>4 DEF Accepted, Inv, AcceptFirst, Kept, Stage
<1>5. ASSUME NEW a \in Referrers, ReferFails(a) PROVE Contract!Next \/ Kept
  <2>1. CASE a = "frustration"
    <3>1. conn = "open" /\ call \in Call /\ Teardown(call, 0)
      BY <1>5, <2>1 DEF ReferFails, Inv, LoopHeld, TypeOK
    <3>2. QED
      BY <3>1, TeardownIsEnd DEF Contract!Next
  <2>2. CASE a # "frustration"
    BY <1>2, <1>5, <2>2 DEF ReferFails, sessionVars
  <2>3. QED
    BY <2>1, <2>2
<1>6. CASE Handler \/ Interference
  BY <1>2, <1>3, <1>4, <1>5, <1>6
     DEF Handler, SendAccept, AcceptFails, OperatorHangupAnswered, ReferAccepted, Interference,
         EndSession, EscalateToAgent, ForceEscalate, OperatorHangsUp, BeginEscalation,
         CloseSession, sessionVars
<1>7. QED
  BY <1>1, <1>2, <1>6
     DEF Next, CallOver, vars, sessionVars, Answer, ProviderGrants, ProviderRefuses,
         CallerHangsUp, ServerCloses, SocketBreaks

\* However the caller, the network, the tools and the operators interfere, the
\* session runs once, retries a bounded number of times and ends with its record.
THEOREM ContractKept == Spec => Contract!Safety
<1>1. Init => Contract!Init
  BY DEF Init, NoCdr, Contract!Init, Stage
<1>2. Inv /\ [Next]_vars => [Contract!Next]_(Contract!cvars)
  BY ContractStep DEF Kept, Contract!cvars
<1>3. QED
  BY <1>1, <1>2, InvHolds, PTL DEF Spec, Contract!Safety

=============================================================================
