---------------------------- MODULE CallLifecycle ----------------------------
(***************************************************************************)
(* The record of one call (core/models.Call) from the accept task of       *)
(* webhook_handler.py to the call detail record, and everything that       *)
(* writes to it: the accept task, SessionManager.connect with its          *)
(* reconnect loop and _teardown, the conversation (end of WRAP_UP, the two *)
(* threshold escalations, escalate_to_agent) and the operator's hangup and *)
(* escalate requests of dashboard/routes/calls.py.                         *)
(*                                                                         *)
(* All of them hold the same Call object. A handler checks it, awaits a    *)
(* REST request to the provider, and then writes to it without a second    *)
(* look; the requests are answered in any order. A step is the code        *)
(* between two such awaits.                                                *)
(***************************************************************************)
EXTENDS Naturals, FiniteSets

CONSTANTS
  MaxReconnects,  \* len(_RECONNECT_BACKOFFS)
  Actors,         \* who may interfere in this instance
  Env             \* which troubles the environment may cause

Conversation == {"frustration",  \* check_escalation inside the event loop
                 "failures",     \* check_escalation in a tool handler
                 "tool",         \* escalate_to_agent
                 "wrap_up"}      \* _end_session
Operators    == {"operator",          \* POST /api/calls/{id}/escalate
                 "operator_hangup"}   \* POST /api/calls/{id}/hangup

ASSUME LifecycleAssumption ==
  /\ MaxReconnects \in Nat
  /\ Actors \subseteq Conversation \cup Operators
  /\ Env \subseteq {"drop",      \* the WebSocket breaks
                    "failure"}   \* a request, a handshake, the database or the event loop fails

Thresholds == {"frustration", "failures"}
Referrers  == {"frustration", "failures", "tool", "operator"}
Hangups    == {"operator_hangup", "failure_hangup", "teardown_hangup"}
Requests   == {"accept"} \cup Referrers \cup Hangups

Progress == {"idle", "sent", "granted", "refused", "handled"}

VARIABLES
  call,        \* the Call object
  published,   \* CALL_ENDED messages published, up to 2
  request,     \* the REST requests of this call
  leg,         \* the provider's side of the call
  conn,        \* where connect() is
  attempt,     \* the reconnects begun
  opened,      \* the conversation has begun
  registered,  \* the session is in _sessions
  closing,     \* _closing_intentionally
  ws,          \* the WebSocket
  cdr          \* the call detail record, and what it holds

sessionVars == <<conn, attempt, opened, registered, closing, ws>>
vars == <<call, published, request, leg, sessionVars, cdr>>

States == {"RINGING", "ACTIVE", "TRANSFERRING", "ENDED", "FAILED"}
Final  == {"ENDED", "FAILED"}
Causes == {"none", "normal", "transferred", "escalated", "ws_failure", "error"}

Call == [state : States, cause : Causes, answered : BOOLEAN, endedAt : BOOLEAN, escalated : BOOLEAN]

Cdr == [status : {"none", "pending", "saved", "failed"}, state : States, cause : Causes,
        endedAt : BOOLEAN]

NoCdr == [status |-> "none", state |-> "RINGING", cause |-> "none", endedAt |-> FALSE]

TypeOK ==
  /\ call \in Call
  /\ published \in 0..2
  /\ request \in [Requests -> Progress]
  /\ leg \in {"ringing", "up", "gone"}
  /\ conn \in {"none", "starting", "connecting", "open", "backoff", "gaveUp", "grace",
               "farewell", "done"}
  /\ attempt \in 0..MaxReconnects
  /\ opened \in BOOLEAN /\ registered \in BOOLEAN /\ closing \in BOOLEAN
  /\ ws \in {"none", "up", "broken", "closed"}
  /\ cdr \in Cdr

----------------------------------------------------------------------------
(* What the handlers write into the record.                                *)

Answered(c)    == [c EXCEPT !.state = "ACTIVE", !.answered = TRUE]
NotAnswered(c) == [c EXCEPT !.state = "FAILED", !.cause = "error"]
HungUp(c)      == [c EXCEPT !.state = "ENDED", !.cause = "normal", !.endedAt = TRUE]
Referred(c)    == [c EXCEPT !.state = "TRANSFERRING", !.cause = "transferred"]
Escalated(c)   == [c EXCEPT !.state = "TRANSFERRING", !.cause = "escalated", !.escalated = TRUE]
WrappedUp(c)   == [c EXCEPT !.state = "ENDED", !.cause = "normal"]

\* Mutants: the transferred call is not ended; a cause already there is kept,
\* but none is supplied.
NeverEnded(c)  == [c EXCEPT !.cause = "transferred", !.endedAt = TRUE]
ClosedAsIs(c)  == [c EXCEPT !.state = "ENDED", !.endedAt = TRUE]

\* The two ends of _teardown.
Transferred(c) == [c EXCEPT !.state = "ENDED", !.cause = "transferred", !.endedAt = TRUE]
Closed(c)      == [c EXCEPT !.state = "ENDED", !.endedAt = TRUE,
                            !.cause = IF @ = "none" THEN "normal" ELSE @]

\* The task of _save_cdr is created.
CdrDue == [cdr EXCEPT !.status = "pending"]

Publish(n) == IF published + n > 2 THEN 2 ELSE published + n

Send(r)   == request' = [request EXCEPT ![r] = "sent"]
Handle(r) == request' = [request EXCEPT ![r] = "handled"]

\* SessionManager.close on the registered session, if there is one. While the
\* socket is broken or not there yet only the flag is set.
CloseSession == /\ closing' = (closing \/ registered)
                /\ ws' = IF registered /\ ws = "up" THEN "closed" ELSE ws
                /\ UNCHANGED <<conn, attempt, opened, registered>>

----------------------------------------------------------------------------
(* webhook_handler._accept_call.                                           *)

SendAccept ==
  /\ request["accept"] = "idle"
  /\ Send("accept")
  /\ UNCHANGED <<call, published, leg, sessionVars, cdr>>

Accepted ==
  /\ request["accept"] = "granted"
  /\ Handle("accept")
  /\ call' = Answered(call)
  /\ conn' = "starting"
  /\ UNCHANGED <<published, leg, attempt, opened, registered, closing, ws, cdr>>

AcceptFails ==
  /\ request["accept"] = "refused"
  /\ Handle("accept")
  /\ call' = NotAnswered(call) /\ published' = Publish(1)
  /\ UNCHANGED <<leg, sessionVars, cdr>>

----------------------------------------------------------------------------
(* SessionManager.connect, _handle_ws_failure and _teardown.               *)

StartSession ==
  /\ conn = "starting"
  /\ conn' = "connecting" /\ registered' = TRUE
  /\ UNCHANGED <<call, published, request, leg, attempt, opened, closing, ws, cdr>>

Connects ==
  /\ conn = "connecting" /\ leg = "up"
  /\ conn' = "open" /\ ws' = "up" /\ opened' = TRUE
  /\ UNCHANGED <<call, published, request, leg, attempt, registered, closing, cdr>>

\* The session leaves the registry and _teardown looks at the record c, of
\* which n CALL_ENDED have just been published: a transferring call is given
\* time before it is hung up, any other is closed at once.
Teardown(c, n) ==
  /\ registered' = FALSE /\ ws' = "none"
  /\ UNCHANGED <<attempt, opened, closing>>
  /\ IF c.state = "TRANSFERRING"
     THEN /\ conn' = "grace" /\ call' = c /\ published' = Publish(n) /\ UNCHANGED cdr
     ELSE /\ conn' = "done"
          /\ cdr' = CdrDue
          /\ IF c.state \in Final THEN call' = c /\ published' = Publish(n)
                                  ELSE call' = Closed(c) /\ published' = Publish(n + 1)

\* _handle_ws_failure
GiveUp ==
  /\ call' = [call EXCEPT !.cause = "ws_failure"]
  /\ Send("failure_hangup")
  /\ conn' = "gaveUp" /\ ws' = "none"
  /\ UNCHANGED <<published, attempt, opened, registered, closing, cdr>>

\* InvalidStatus: the handshake is rejected.
HandshakeRejected ==
  /\ conn = "connecting"
  /\ leg = "gone" \/ "failure" \in Env
  /\ GiveUp
  /\ UNCHANGED leg

\* Another exception while connecting.
ConnectError ==
  /\ "failure" \in Env /\ conn = "connecting"
  /\ Teardown(call, 0)
  /\ UNCHANGED <<request, leg>>

\* The event loop waits inside check_escalation and sees nothing of the socket.
LoopFree == conn = "open" /\ request["frustration"] \in {"idle", "handled"}

SessionClosed ==
  /\ LoopFree
  /\ ws = "closed" \/ (ws = "broken" /\ closing)
  /\ Teardown(call, 0)
  /\ UNCHANGED <<request, leg>>

\* Mutant: one retry too many.
RetriesBeyond == attempt <= MaxReconnects

RetriesLeft == attempt < MaxReconnects

ConnectionLost ==
  /\ LoopFree /\ ws = "broken" /\ ~closing /\ RetriesLeft
  /\ conn' = "backoff"
  /\ UNCHANGED <<call, published, request, leg, attempt, opened, registered, closing, ws, cdr>>

ConnectionExhausted ==
  /\ LoopFree /\ ws = "broken" /\ ~closing /\ ~RetriesLeft
  /\ GiveUp
  /\ UNCHANGED leg

\* An event handler raises: no retry and no hangup.
EventLoopRaises ==
  /\ "failure" \in Env /\ LoopFree
  /\ Teardown(call, 0)
  /\ UNCHANGED <<request, leg>>

\* After the backoff, closing is not looked at again.
Retry ==
  /\ conn = "backoff"
  /\ conn' = "connecting" /\ attempt' = attempt + 1
  /\ UNCHANGED <<call, published, request, leg, opened, registered, closing, ws, cdr>>

\* Mutant: the exception of a refused hangup is not caught.
FailureHangupRaises ==
  /\ conn = "gaveUp" /\ request["failure_hangup"] = "granted"
  /\ Handle("failure_hangup")
  /\ Teardown(HungUp(call), 1)
  /\ UNCHANGED leg

FailureHangupAnswered ==
  /\ conn = "gaveUp" /\ request["failure_hangup"] \in {"granted", "refused"}
  /\ Handle("failure_hangup")
  /\ IF request["failure_hangup"] = "granted" THEN Teardown(HungUp(call), 1)
                                              ELSE Teardown(call, 0)
  /\ UNCHANGED leg

GraceOver ==
  /\ conn = "grace"
  /\ Send("teardown_hangup")
  /\ conn' = "farewell"
  /\ UNCHANGED <<call, published, leg, attempt, opened, registered, closing, ws, cdr>>

\* The rest of _teardown: hangup() has written to the record if it succeeded.
FarewellAnswered ==
  /\ conn = "farewell" /\ request["teardown_hangup"] \in {"granted", "refused"}
  /\ Handle("teardown_hangup")
  /\ LET granted == request["teardown_hangup"] = "granted"
         c == IF granted THEN HungUp(call) ELSE call
         n == IF granted THEN 1 ELSE 0
     IN IF c.state = "TRANSFERRING"
        THEN call' = Transferred(c) /\ published' = Publish(n + 1)
        ELSE call' = c /\ published' = Publish(n)
  /\ cdr' = IF call'.state \in Final THEN CdrDue ELSE cdr
  /\ conn' = "done"
  /\ UNCHANGED <<leg, attempt, opened, registered, closing, ws>>

\* The task of _save_cdr reads the record when it runs, not when it was created.
SaveCdr ==
  /\ cdr.status = "pending"
  /\ \E status \in {"saved"} \cup (IF "failure" \in Env THEN {"failed"} ELSE {}) :
       cdr' = [status |-> status, state |-> call.state, cause |-> call.cause,
               endedAt |-> call.endedAt]
  /\ UNCHANGED <<call, published, request, leg, sessionVars>>

----------------------------------------------------------------------------
(* The conversation. Tool handlers may outlive the event loop.             *)

EndSession ==
  /\ "wrap_up" \in Actors /\ opened
  /\ call' = WrappedUp(call)
  /\ CloseSession
  /\ UNCHANGED <<published, request, leg, cdr>>

BeginEscalation(a) ==
  /\ a \in Thresholds \cap Actors
  /\ IF a = "frustration" THEN LoopFree /\ ws = "up" ELSE opened
  /\ request[a] = "idle" /\ ~call.escalated
  /\ call' = Escalated(call)
  /\ Send(a)
  /\ UNCHANGED <<published, leg, sessionVars, cdr>>

EscalateToAgent ==
  /\ "tool" \in Actors /\ opened /\ request["tool"] = "idle"
  /\ Send("tool")
  /\ UNCHANGED <<call, published, leg, sessionVars, cdr>>

ForceEscalate ==
  /\ "operator" \in Actors /\ request["operator"] = "idle"
  /\ call.state \in {"RINGING", "ACTIVE"}
  /\ Send("operator")
  /\ UNCHANGED <<call, published, leg, sessionVars, cdr>>

\* call_controller.refer returns; its caller closes the session.
ReferAccepted(a) ==
  /\ a \in Referrers /\ request[a] = "granted"
  /\ Handle(a)
  /\ call' = Referred(call)
  /\ CloseSession
  /\ UNCHANGED <<published, leg, cdr>>

\* It raises: out of the event loop, which ends the session, or into a tool
\* result or an HTTP error, which change nothing here.
ReferFails(a) ==
  /\ a \in Referrers /\ request[a] = "refused"
  /\ Handle(a)
  /\ IF a = "frustration" THEN Teardown(call, 0)
                          ELSE UNCHANGED <<call, published, sessionVars, cdr>>
  /\ UNCHANGED leg

OperatorHangsUp ==
  /\ "operator_hangup" \in Actors /\ request["operator_hangup"] = "idle"
  /\ Send("operator_hangup")
  /\ UNCHANGED <<call, published, leg, sessionVars, cdr>>

OperatorHangupAnswered ==
  /\ request["operator_hangup"] \in {"granted", "refused"}
  /\ Handle("operator_hangup")
  /\ IF request["operator_hangup"] = "granted"
     THEN call' = HungUp(call) /\ published' = Publish(1) /\ CloseSession
     ELSE UNCHANGED <<call, published, sessionVars>>
  /\ UNCHANGED <<leg, cdr>>

----------------------------------------------------------------------------
(* The provider, the caller and the network (external).                    *)

\* Carried out; the answer may still be lost.
ProviderGrants(r) ==
  /\ request[r] = "sent"
  /\ CASE r = "accept"      -> leg = "ringing" /\ leg' = "up"
       [] r \in Referrers   -> leg = "up" /\ UNCHANGED leg
       [] OTHER             -> leg # "gone" /\ leg' = "gone"
  /\ \E answer \in {"granted"} \cup (IF "failure" \in Env THEN {"refused"} ELSE {}) :
       request' = [request EXCEPT ![r] = answer]
  /\ UNCHANGED <<call, published, sessionVars, cdr>>

ProviderRefuses(r) ==
  /\ request[r] = "sent"
  /\ \/ leg = "gone"
     \/ leg = "ringing" /\ r \in Referrers
     \/ "failure" \in Env
  /\ request' = [request EXCEPT ![r] = "refused"]
  /\ UNCHANGED <<call, published, leg, sessionVars, cdr>>

CallerHangsUp ==
  /\ leg # "gone" /\ leg' = "gone"
  /\ UNCHANGED <<call, published, request, sessionVars, cdr>>

\* The server closes the session of a call that is gone.
ServerCloses ==
  /\ leg = "gone" /\ ws = "up" /\ ws' = "closed"
  /\ UNCHANGED <<call, published, request, leg, conn, attempt, opened, registered, closing, cdr>>

SocketBreaks ==
  /\ "drop" \in Env /\ ws = "up" /\ ws' = "broken"
  /\ UNCHANGED <<call, published, request, leg, conn, attempt, opened, registered, closing, cdr>>

----------------------------------------------------------------------------
Init ==
  /\ call = [state |-> "RINGING", cause |-> "none", answered |-> FALSE, endedAt |-> FALSE,
             escalated |-> FALSE]
  /\ published = 0
  /\ request = [r \in Requests |-> "idle"]
  /\ leg = "ringing"
  /\ conn = "none" /\ attempt = 0 /\ opened = FALSE /\ registered = FALSE
  /\ closing = FALSE /\ ws = "none"
  /\ cdr = NoCdr

SessionStep ==
  \/ StartSession \/ Connects \/ HandshakeRejected \/ ConnectError \/ SessionClosed
  \/ ConnectionLost \/ ConnectionExhausted \/ EventLoopRaises \/ Retry
  \/ FailureHangupAnswered \/ GraceOver \/ FarewellAnswered

Answer(r) == ProviderGrants(r) \/ ProviderRefuses(r)

Handler == \/ SendAccept \/ Accepted \/ AcceptFails \/ OperatorHangupAnswered \/ SaveCdr
           \/ \E a \in Referrers : (ReferAccepted(a) \/ ReferFails(a))

Interference ==
  \/ EndSession \/ EscalateToAgent \/ ForceEscalate \/ OperatorHangsUp
  \/ \E a \in Thresholds : BeginEscalation(a)

\* Nobody is left to do anything.
CallOver ==
  /\ leg = "gone" /\ request["accept"] = "handled"
  /\ conn = "none" \/ (conn = "done" /\ cdr.status \in {"saved", "failed"})
  /\ UNCHANGED vars

Next ==
  \/ CallOver
  \/ SessionStep \/ Handler \/ Interference
  \/ \E r \in Requests : Answer(r)
  \/ CallerHangsUp \/ ServerCloses \/ SocketBreaks

Spec == Init /\ [][Next]_vars

\* Coroutines that can run do run, httpx bounds every request, and the server
\* closes the session of a call that is gone.
Fairness ==
  /\ WF_vars(SessionStep)
  /\ WF_vars(SendAccept) /\ WF_vars(Accepted) /\ WF_vars(AcceptFails)
  /\ WF_vars(OperatorHangupAnswered) /\ WF_vars(SaveCdr)
  /\ \A a \in Referrers : (WF_vars(ReferAccepted(a)) /\ WF_vars(ReferFails(a)))
  /\ \A r \in Requests : WF_vars(Answer(r))
  /\ WF_vars(ServerCloses)

FairSpec == Spec /\ Fairness

----------------------------------------------------------------------------
(* What the session keeps to, whoever interferes.                          *)

Stage == CASE conn \in {"none", "starting"} -> "waiting"
           [] conn = "done"                 -> "over"
           [] OTHER                         -> "running"

Contract == INSTANCE SessionContract
              WITH stage <- Stage, losses <- attempt, record <- cdr.status

\* The session keeps SessionContract: at most MaxReconnects reconnects, and one
\* detail record, due exactly when _teardown ends, whatever the tools and the
\* operators wrote to the call meanwhile. (connect, _teardown, _save_cdr.)
KeepsContract == Contract!Spec

\* A call that is gone at the provider is not kept by the bridge: connect()
\* comes to its end, through backoffs, failed hangups and the grace period.
SessionEnds ==
  leg = "gone" ~> (conn = "done" \/ (conn = "none" /\ request["accept"] = "handled"))

\* A call in a final state says why it ended, whichever of the eight writers of
\* the record came last. (_teardown, hangup, refer, _end_session, _accept_call.)
FinalCallHasCause == call.state \in Final => call.cause # "none"

----------------------------------------------------------------------------
(* Statements of the repository's documents that the code does not keep.   *)

\* session_manager.py, _teardown: "Mark call as ENDED, publish CALL_ENDED, and
\* persist CDR": when it has ended, CALL_ENDED was published.
TeardownPublishesCallEnded == conn = "done" => published > 0

\* The cause written before a hangup is in the detail record after it. README.md:
\* "calls that end via SIP REFER escalation have ended_at, duration_seconds, and
\* hangup_cause=transferred set after the BYE"; session_manager.py, connect: it retries
\* "before giving up and marking the call as failed".
CauseSurvivesHangup ==
  cdr.status = "saved" =>
    /\ closing /\ request["teardown_hangup"] = "handled" =>
         cdr.cause = "transferred" /\ cdr.endedAt
    /\ request["failure_hangup"] = "handled" =>
         cdr.cause = "ws_failure" \/ cdr.state = "FAILED"

=============================================================================
