------------------------------ MODULE Dashboard ------------------------------
(***************************************************************************)
(* What an operator's browser shows of one call: the publishers of calls,  *)
(* transcript turns and timeline events, the event bus with its bounded    *)
(* queue (event_bus.py), the fan-out that sends a snapshot, registers the  *)
(* client and then broadcasts (ws_manager.py, StateStore.snapshot), the    *)
(* reconnecting client (ws-client.js) and the panels that keep state       *)
(* (calls-panel.js, transcript-panel.js).                                  *)
(*                                                                         *)
(* The state of the call is its version: 1 when it is created, one more    *)
(* with every update. Most updates publish the call, several do not. An    *)
(* ended call may change as well, and a late transfer can make it a live   *)
(* one again (CallLifecycle). Messages of other topics only take room in   *)
(* the queue; those modelled fill it as well.                              *)
(* A message sent over an open socket arrives at once and in order.        *)
(***************************************************************************)
EXTENDS Naturals, Sequences, FiniteSets

CONSTANTS
  Versions,      \* states the call goes through (bound)
  Turns,         \* transcript turns, by turn_index: 1..n
  Events,        \* timeline events, in the order they are emitted: 1..n
  Items,         \* turns and events the call has in all (bound)
  QueueSize,     \* maxsize of the subscriber's queue (256 in the code)
  Limit,         \* turns, and events, of an ended call in a snapshot (50 in the code)
  MaxAttempts,   \* ws_reconnect_max_attempts
  Env            \* which troubles the environment may cause

ASSUME DashboardAssumption ==
  /\ {Versions, QueueSize, Limit} \subseteq Nat \ {0} /\ {Items, MaxAttempts} \subseteq Nat
  /\ IsFiniteSet(Turns) /\ Turns = 1..Cardinality(Turns)
  /\ IsFiniteSet(Events) /\ Events = 1..Cardinality(Events)
  /\ Env \subseteq {"failure",   \* the database or a snapshot fails
                    "break",     \* a socket breaks, a connect is refused
                    "stall",     \* the browser does not read for two seconds
                    "key"}       \* the key in the browser may be wrong

VARIABLES
  version,   \* the Call in the store; 0: not created
  said,      \* the version published last
  live,      \* its state is RINGING, ACTIVE or TRANSFERRING
  turn,      \* the task _save_transcript_turn of each turn
  stored,    \* emit_call_event's database write of each event
  emitted,   \* emit_call_event's publish task of each event
  queue,     \* the queue of the broadcast loop
  conn,      \* the server's side of the browser's socket
  snap,      \* what the snapshot under way, or the last one sent, contains
  ws,        \* ReconnectingWS._state
  attempt,   \* ReconnectingWS._attempt
  row,       \* CallsPanel._calls: the version shown for the call
  turns,     \* TranscriptPanel._transcripts: turn indexes
  events,    \* TranscriptPanel._events: from the database, live
  dropped,   \* history: messages, but raw events, that a full queue never took
  missed     \* history: those broadcast past the browser since it last connected, and events
             \* broadcast past it at any time, as they may be stored later

callVars    == <<version, said, live>>
publishVars == <<callVars, turn, stored, emitted>>
serverVars  == <<queue, conn, snap, dropped, missed>>
clientVars  == <<ws, attempt>>
panelVars   == <<row, turns, events>>
vars == <<publishVars, serverVars, clientVars, panelVars>>

NoRow  == 0
Broken == Versions + 1   \* a row with an event and without the call's fields

Msg(kind, n) == [kind |-> kind, n |-> n]
CallMsg(v)   == Msg("call", v)
RawMsg       == Msg("raw", 0)
TurnMsg(t)   == Msg("turn", t)
EventMsg(e)  == Msg("event", e)
Messages == {CallMsg(v) : v \in 1..Versions} \cup {RawMsg}
              \cup {TurnMsg(t) : t \in Turns} \cup {EventMsg(e) : e \in Events}

\* Where WSManager.connect is with the browser's latest socket.
ConnPC == {"none",
           "listed",      \* snapshot has the list of calls and starts to read their data
           "read",        \* and the turns and events from the database
           "sent",        \* the snapshot is sent, or failed
           "registered",  \* in _connections
           "discarded"}   \* dropped by _broadcast, the socket left open

\* full: the call was live, no limit; written: history, the events that the database had.
Snapshot == [sent : BOOLEAN, listed : BOOLEAN, full : BOOLEAN, read : BOOLEAN,
             call : 0..Versions, turns : SUBSET Turns, events : SUBSET Events,
             written : SUBSET Events]

NoSnapshot == [sent |-> FALSE, listed |-> FALSE, full |-> TRUE, read |-> FALSE, call |-> 0,
               turns |-> {}, events |-> {}, written |-> {}]

TypeOK ==
  /\ version \in 0..Versions /\ said \in 0..version /\ live \in BOOLEAN
  /\ turn \in [Turns -> {"none", "saving", "saved", "published"}]
  /\ stored \in [Events -> {"none", "pending", "written"}]
  /\ emitted \in [Events -> {"none", "pending", "published"}]
  /\ queue \in Seq(Messages) /\ Len(queue) <= QueueSize
  /\ conn \in ConnPC /\ snap \in Snapshot
  /\ ws \in {"DISCONNECTED", "CONNECTING", "CONNECTED", "BACKING_OFF", "AUTH_FAILED", "EXHAUSTED"}
  /\ attempt \in 0..MaxAttempts
  /\ row \in 0..Broken /\ turns \subseteq Turns
  /\ events \in [db : SUBSET Events, live : SUBSET Events]
  /\ dropped \subseteq Messages /\ missed \subseteq Messages

----------------------------------------------------------------------------
(* The event bus. publish never waits: a full queue drops the message.     *)

\* What the histories keep of a message: a raw event has no state that could be missed.
Lost(m) == IF m.kind = "raw" THEN {} ELSE {m}

\* Mutant: the queue has no bound.
PublishUnbounded(m) == queue' = Append(queue, m) /\ UNCHANGED dropped

\* Mutant: the newest message comes first.
PublishInFront(m) ==
  IF Len(queue) < QueueSize THEN queue' = <<m>> \o queue /\ UNCHANGED dropped
                            ELSE dropped' = dropped \cup Lost(m) /\ UNCHANGED queue

Publish(m) ==
  IF Len(queue) < QueueSize THEN queue' = Append(queue, m) /\ UNCHANGED dropped
                            ELSE dropped' = dropped \cup Lost(m) /\ UNCHANGED queue

----------------------------------------------------------------------------
(* The publishers.                                                         *)

\* create_call or update_call, and the publish of the whole call after it.
CallChanges ==
  /\ version < Versions
  /\ version' = version + 1 /\ said' = version + 1
  /\ live' \in BOOLEAN /\ (version = 0 => live')
  /\ Publish(CallMsg(version + 1))
  /\ UNCHANGED <<turn, stored, emitted, conn, snap, missed, clientVars, panelVars>>

\* An update that publishes nothing: the account found, the category, the count of tool
\* failures, the tokens, the cause of a failed session, the end after a refused transfer.
CallChangesQuietly ==
  /\ version \in 1..Versions - 1
  /\ version' = version + 1 /\ live' \in BOOLEAN
  /\ UNCHANGED <<said, turn, stored, emitted, serverVars, clientVars, panelVars>>

\* _event_loop publishes every server event as a CALL_UPDATED that has call_id
\* and event only, until its socket is closed, the call ended or not.
RawEvent ==
  /\ version > 0
  /\ Publish(RawMsg)
  /\ UNCHANGED <<publishVars, conn, snap, missed, clientVars, panelVars>>

\* The call has no more turns and events than the bound.
OneMore ==
  Cardinality({t \in Turns : turn[t] # "none"}) + Cardinality({e \in Events : emitted[e] # "none"})
    < Items

\* A turn takes its index when its task starts.
TurnStarts(t) ==
  /\ version > 0 /\ turn[t] = "none" /\ OneMore
  /\ \A u \in Turns : u < t => turn[u] # "none"
  /\ turn' = [turn EXCEPT ![t] = "saving"]
  /\ UNCHANGED <<callVars, stored, emitted, serverVars, clientVars, panelVars>>

\* A save that fails is one that does not come: nothing is published then either.
TurnSaved(t) ==
  /\ turn[t] = "saving"
  /\ turn' = [turn EXCEPT ![t] = "saved"]
  /\ UNCHANGED <<callVars, stored, emitted, serverVars, clientVars, panelVars>>

\* Mutant: the publish does not wait for the commit.
TurnPublishedEarly(t) ==
  /\ turn[t] \in {"saving", "saved"}
  /\ turn' = IF turn[t] = "saved" THEN [turn EXCEPT ![t] = "published"] ELSE turn
  /\ Publish(TurnMsg(t))
  /\ UNCHANGED <<callVars, stored, emitted, conn, snap, missed, clientVars, panelVars>>

TurnPublished(t) ==
  /\ turn[t] = "saved"
  /\ turn' = [turn EXCEPT ![t] = "published"]
  /\ Publish(TurnMsg(t))
  /\ UNCHANGED <<callVars, stored, emitted, conn, snap, missed, clientVars, panelVars>>

\* emit_call_event: two tasks, neither waits for the other.
EmitCallEvent(e) ==
  /\ version > 0 /\ emitted[e] = "none" /\ OneMore
  /\ \A f \in Events : f < e => emitted[f] # "none"
  /\ stored'  = [stored EXCEPT ![e] = "pending"]
  /\ emitted' = [emitted EXCEPT ![e] = "pending"]
  /\ UNCHANGED <<callVars, turn, serverVars, clientVars, panelVars>>

\* A write that fails is one that does not come.
SaveCallEvent(e) ==
  /\ stored[e] = "pending"
  /\ stored' = [stored EXCEPT ![e] = "written"]
  /\ UNCHANGED <<callVars, turn, emitted, serverVars, clientVars, panelVars>>

EventPublished(e) ==
  /\ emitted[e] = "pending"
  /\ emitted' = [emitted EXCEPT ![e] = "published"]
  /\ Publish(EventMsg(e))
  /\ UNCHANGED <<callVars, turn, stored, conn, snap, missed, clientVars, panelVars>>

----------------------------------------------------------------------------
(* The panels.                                                             *)

\* CallsPanel.handleMessage: full messages have every field, raw events none.
RowAfter(m) == CASE m.kind = "call" -> m.n
                 [] m.kind = "raw" /\ row = NoRow -> Broken
                 [] OTHER -> row

\* The broadcast message m reaches the page.
Shown(m) ==
  /\ row'    = RowAfter(m)
  /\ turns'  = IF m.kind = "turn" THEN turns \cup {m.n} ELSE turns
  /\ events' = IF m.kind = "event" THEN [events EXCEPT !.live = @ \cup {m.n}] ELSE events

\* SNAPSHOT: the table is cleared; turns are merged by index; stored events
\* replace stored events, the live ones stay.
ShownSnapshot(s) ==
  /\ row'    = s.call
  /\ turns'  = turns \cup s.turns
  /\ events' = IF s.listed THEN [events EXCEPT !.db = s.events] ELSE events

----------------------------------------------------------------------------
(* The fan-out.                                                            *)

StoredTurns  == {t \in Turns : turn[t] \in {"saved", "published"}}
StoredEvents == {e \in Events : stored[e] = "written"}

\* Enough later turns are stored for the limit to leave t out.
LeftOut(t) == Cardinality({u \in StoredTurns : u > t}) >= Limit

\* Mutant: the first turns in place of the most recent ones.
Opening(full) == {t \in StoredTurns : full \/ Cardinality({u \in StoredTurns : u < t}) < Limit}

\* get_transcript: all turns, or the most recent ones.
Transcript(full) == {t \in StoredTurns : full \/ ~LeftOut(t)}

\* get_call_events: all events, or the most recent ones; which were written last is left open.
CallEvents(full) ==
  IF full \/ Cardinality(StoredEvents) <= Limit
  THEN {StoredEvents}
  ELSE {E \in SUBSET StoredEvents : Cardinality(E) = Limit}

\* store.snapshot reads the database for the calls it listed; a failed read
\* leaves that call's turns and events empty.
SnapshotReads ==
  /\ conn = "listed" /\ conn' = "read"
  /\ \/ /\ snap.listed
        /\ \E E \in CallEvents(snap.full) :
             snap' = [snap EXCEPT !.read = TRUE, !.turns = Transcript(snap.full), !.events = E,
                                  !.written = StoredEvents]
     \/ (~snap.listed \/ "failure" \in Env) /\ UNCHANGED snap
  /\ UNCHANGED <<publishVars, queue, dropped, missed, clientVars, panelVars>>

\* Mutant: a call still ringing is not part of the snapshot.
AnsweredCall == IF snap.listed /\ version > 1 THEN version ELSE 0

\* The listed Call objects are dumped when everything has been read.
DumpedCall == IF snap.listed THEN version ELSE 0

SnapshotSent ==
  /\ conn = "read" /\ conn' = "sent"
  /\ snap' = [snap EXCEPT !.sent = TRUE, !.call = DumpedCall]
  /\ ShownSnapshot(snap')
  /\ UNCHANGED <<publishVars, queue, dropped, missed, clientVars>>

\* It cannot be built, or is not taken within two seconds: only logged.
SnapshotFails ==
  /\ conn \in {"listed", "read"} /\ Env \cap {"failure", "stall"} # {}
  /\ conn' = "sent" /\ snap' = NoSnapshot
  /\ UNCHANGED <<publishVars, queue, dropped, missed, clientVars, panelVars>>

Register ==
  /\ conn = "sent" /\ conn' = "registered"
  /\ UNCHANGED <<publishVars, queue, snap, dropped, missed, clientVars, panelVars>>

\* The broadcast loop takes the next message to the registered sockets.
Broadcast ==
  /\ queue # <<>> /\ queue' = Tail(queue)
  /\ \/ conn = "registered" /\ Shown(Head(queue)) /\ UNCHANGED <<conn, missed>>
     \/ /\ conn = "registered" /\ "stall" \in Env
        /\ conn' = "discarded" /\ missed' = missed \cup Lost(Head(queue))
        /\ UNCHANGED panelVars
     \/ /\ conn # "registered"
        /\ missed' = IF conn = "none" /\ Head(queue).kind # "event"
                      THEN missed ELSE missed \cup Lost(Head(queue))
        /\ UNCHANGED <<conn, panelVars>>
  /\ UNCHANGED <<publishVars, snap, dropped, clientVars>>

----------------------------------------------------------------------------
(* The reconnecting client.                                                *)

\* connect or the timer: a new WebSocket.
DoConnect ==
  /\ ws \in {"DISCONNECTED", "BACKING_OFF"} /\ ws' = "CONNECTING"
  /\ UNCHANGED <<publishVars, serverVars, attempt, panelVars>>

\* ws_require_auth lets it in: onopen here, WSManager.connect there.
Opened ==
  /\ ws = "CONNECTING" /\ ws' = "CONNECTED" /\ attempt' = 0
  /\ conn' = "listed"
  /\ snap' = IF version = 0 THEN NoSnapshot
             ELSE [NoSnapshot EXCEPT !.listed = TRUE, !.full = live]
  /\ UNCHANGED <<publishVars, queue, dropped, missed, panelVars>>

\* It accepts a wrong key too: onopen here, ...
OpenedWithWrongKey ==
  /\ ws = "CONNECTING" /\ "key" \in Env /\ ws' = "CONNECTED" /\ attempt' = 0
  /\ UNCHANGED <<publishVars, serverVars, panelVars>>

\* ... and closes the socket with 4001, before WSManager.connect.
AuthFailed ==
  /\ ws = "CONNECTED" /\ conn = "none" /\ ws' = "AUTH_FAILED"
  /\ UNCHANGED <<publishVars, serverVars, attempt, panelVars>>

\* Mutant: the attempts are not counted.
RetryForGood == ws' = "BACKING_OFF" /\ UNCHANGED attempt

ScheduleReconnect ==
  IF attempt >= MaxAttempts
  THEN ws' = "EXHAUSTED" /\ UNCHANGED attempt
  ELSE ws' = "BACKING_OFF" /\ attempt' = attempt + 1

\* onclose: the socket breaks or never opens. The server takes it off its list.
Closed ==
  /\ ws \in {"CONNECTING", "CONNECTED"} /\ "break" \in Env
  /\ ScheduleReconnect
  /\ conn' = "none" /\ snap' = NoSnapshot
  /\ missed' = {m \in missed : m.kind = "event"}
  /\ UNCHANGED <<publishVars, queue, dropped, panelVars>>

\* The login form: init() closes the old client and connects a new one.
Login ==
  /\ ws = "AUTH_FAILED" /\ ws' = "DISCONNECTED" /\ attempt' = 0
  /\ UNCHANGED <<publishVars, serverVars, panelVars>>

----------------------------------------------------------------------------
Init ==
  /\ version = 0 /\ said = 0 /\ live = FALSE
  /\ turn = [t \in Turns |-> "none"]
  /\ stored = [e \in Events |-> "none"] /\ emitted = [e \in Events |-> "none"]
  /\ queue = <<>> /\ conn = "none" /\ snap = NoSnapshot
  /\ ws = "DISCONNECTED" /\ attempt = 0
  /\ row = NoRow /\ turns = {} /\ events = [db |-> {}, live |-> {}]
  /\ dropped = {} /\ missed = {}

\* The rest of WSManager.connect.
Fanout == SnapshotReads \/ SnapshotSent \/ SnapshotFails \/ Register

Client == DoConnect \/ Opened \/ OpenedWithWrongKey \/ AuthFailed \/ Closed

Next ==
  \/ CallChanges \/ CallChangesQuietly \/ RawEvent
  \/ \E t \in Turns : TurnStarts(t) \/ TurnSaved(t) \/ TurnPublished(t)
  \/ \E e \in Events : EmitCallEvent(e) \/ SaveCallEvent(e) \/ EventPublished(e)
  \/ Fanout \/ Broadcast \/ Client \/ Login

Spec == Init /\ [][Next]_vars

\* Timers fire, and a connect comes to an end.
Fairness == WF_vars(DoConnect) /\ WF_vars(ws = "CONNECTING" /\ Client)

FairSpec == Spec /\ Fairness

----------------------------------------------------------------------------
(* Properties.                                                             *)

\* A turn on the screen is in the database, although the two reach the page on
\* different ways and a save may fail (_save_transcript_turn).
ShownTurnsAreStored == turns \subseteq StoredTurns

\* When the queue is drained a registered browser that got its snapshot shows the
\* last state of the call that was published, or a later one, every published turn and
\* every published event, except for what the queue had no room for, what was broadcast
\* between the snapshot's reading and the registration, and the older turns and events of a
\* call that had ended (ws_manager.connect: "a clean baseline before any live events").
CaughtUp ==
  conn = "registered" /\ snap.sent /\ queue = <<>> =>
    /\ \/ row \in said..version
       \/ CallMsg(said) \in dropped
       \/ CallMsg(said) \in missed /\ said > snap.call
    /\ \A t \in Turns :
         turn[t] = "published" =>
           \/ t \in turns
           \/ TurnMsg(t) \in dropped /\ t \notin snap.turns
           \/ snap.listed /\ ~snap.read
           \/ ~snap.full /\ LeftOut(t)
           \/ TurnMsg(t) \in missed /\ t \notin snap.turns
    /\ \A e \in Events :
         emitted[e] = "published" =>
           \/ e \in events.db \cup events.live
           \/ ~snap.full /\ Cardinality(StoredEvents) > Limit
           \/ EventMsg(e) \in dropped \cup missed /\ e \notin snap.written

\* A row without the call's fields, on which the table cannot be rendered, means
\* that a browser with a snapshot missed the call's creation (calls-panel.js, _event_loop).
BrokenRowMissedCreation ==
  conn = "registered" /\ snap.sent /\ row = Broken => CallMsg(1) \in dropped \cup missed

\* The table goes back to an older state only by messages that were in the
\* queue before its snapshot was made; newer ones arrive in order.
GoesBackOnlyToQueued ==
  [][ (row' < row /\ row # Broken /\ snap.sent) => row' # NoRow /\ row <= snap.call ]_vars

\* The browser does not stay between sockets: it is connected, has given up, or
\* asks for the key (ws-client.js, the states at its head).
ClientSettles ==
  ws \in {"CONNECTING", "BACKING_OFF"} ~> ws \in {"CONNECTED", "EXHAUSTED", "AUTH_FAILED"}
=============================================================================
