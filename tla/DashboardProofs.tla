--------------------------- MODULE DashboardProofs ---------------------------
(***************************************************************************)
(* Proofs about Dashboard: what holds on every instance, for any number of *)
(* states of the call, turns and events, any size of the queue and all the *)
(* troubles of the environment.                                            *)
(*                                                                         *)
(* The argument follows a message from its publish to the page: it is in   *)
(* the queue, was dropped there, was broadcast past the browser, or has    *)
(* been shown. What a snapshot holds bridges the time before the socket is *)
(* registered.                                                             *)
(***************************************************************************)
EXTENDS Dashboard, FiniteSetTheorems, TLAPS

----------------------------------------------------------------------------
(* The invariant.                                                          *)

Queued(m) == \E i \in 1..Len(queue) : queue[i] = m

\* Calls are queued in the order of their versions, and none before the call exists.
\* The creation, if it waits at all, waits at the head.
QueueSound ==
  /\ \A i \in 1..Len(queue) : queue[i].kind = "call" => queue[i].n <= said
  /\ \A i, j \in 1..Len(queue) :
       i < j /\ queue[i].kind = "call" /\ queue[j].kind = "call" => queue[i].n < queue[j].n
  /\ \A i \in 1..Len(queue) : queue[i] = CallMsg(1) => i = 1
  /\ version > 0 => \/ Queued(CallMsg(said)) \/ CallMsg(said) \in dropped
                    \/ \A i \in 1..Len(queue) : queue[i].kind # "call"

\* Nothing is published for a call that does not exist; its creation is published.
NothingBefore ==
  /\ version = 0 => /\ queue = <<>>
                    /\ \A t \in Turns : turn[t] = "none"
                    /\ \A e \in Events : emitted[e] = "none"
  /\ version > 0 => said > 0

\* The write of an event is started with its publish.
StoredOnce == \A e \in Events : emitted[e] = "none" => stored[e] = "none"

\* Turns are on their way to the page only once they are stored.
TurnsStored ==
  /\ turns \subseteq StoredTurns /\ snap.turns \subseteq StoredTurns
  /\ \A t \in Turns : Queued(TurnMsg(t)) => t \in StoredTurns

\* The limit kept stored events out of the snapshot.
EventsCut == ~snap.full /\ Cardinality(StoredEvents) > Limit

\* What the snapshot contains, before and after it is sent.
SnapSound ==
  /\ snap.call <= version
  /\ conn = "listed" => ~snap.read
  /\ conn \in {"listed", "read"} => ~snap.sent /\ (snap.listed => version > 0)
  /\ ~snap.listed => snap.turns = {} /\ snap.events = {}
  /\ snap.sent => /\ snap.turns \subseteq turns /\ snap.events \subseteq events.db
                  /\ snap.listed <=> snap.call > 0

\* All the events that the database had are in it, or the limit was reached.
EventsRead == snap.written \subseteq snap.events \/ EventsCut

\* A message that has been published and not yet shown.
Pending(m) == Queued(m) \/ m \in dropped \/ m \in missed

\* The row is a state that the call has had, and the one published last, or a later one,
\* unless its message is pending; it is behind the queue unless the snapshot was ahead of it.
RowSound ==
  /\ row <= version \/ row = Broken
  /\ conn \in {"listed", "read"} /\ ~snap.listed /\ version > 0
       => Pending(CallMsg(1)) /\ Pending(CallMsg(said))
  /\ conn = "sent" /\ snap.sent => row = snap.call
  /\ conn \in {"sent", "registered"} /\ snap.sent =>
       /\ \/ row \in said..version
          \/ Queued(CallMsg(said)) \/ CallMsg(said) \in dropped
          \/ CallMsg(said) \in missed /\ said > snap.call
       /\ row = NoRow /\ version > 0 => Pending(CallMsg(1))
       /\ row = Broken => CallMsg(1) \in dropped \cup missed
       /\ \/ row = Broken \/ row <= snap.call
          \/ \A i \in 1..Len(queue) : queue[i].kind = "call" => queue[i].n > row

\* The turn t could not be read for the snapshot, or the limit left it out.
Unread(t) == (snap.listed /\ ~snap.read) \/ (~snap.full /\ LeftOut(t))

\* A published turn is pending, shown, or in the snapshot; a published event is pending
\* or shown.
TurnsCovered ==
  \A t \in Turns : turn[t] = "published" =>
    /\ conn = "listed" /\ ~snap.listed => Pending(TurnMsg(t)) \/ t \in turns
    /\ conn = "read" => Pending(TurnMsg(t)) \/ t \in turns \cup snap.turns \/ Unread(t)
    /\ conn \in {"sent", "registered"} /\ snap.sent =>
         Pending(TurnMsg(t)) \/ t \in turns \/ Unread(t)

EventsCovered ==
  \A e \in Events : emitted[e] = "published" => Pending(EventMsg(e)) \/ e \in events.live

Inv == TypeOK /\ QueueSound /\ NothingBefore /\ StoredOnce /\ TurnsStored /\ SnapSound /\ EventsRead
         /\ RowSound /\ TurnsCovered /\ EventsCovered


----------------------------------------------------------------------------
(* The queue.                                                              *)

LEMMA MessageFacts ==
  /\ \A v \in 1..Versions : CallMsg(v) \in Messages
  /\ RawMsg \in Messages
  /\ \A t \in Turns : TurnMsg(t) \in Messages
  /\ \A e \in Events : EventMsg(e) \in Messages
  /\ \A v : CallMsg(v).kind = "call" /\ CallMsg(v).n = v
  /\ RawMsg.kind = "raw"
  /\ \A t : TurnMsg(t).kind = "turn" /\ TurnMsg(t).n = t
  /\ \A e : EventMsg(e).kind = "event" /\ EventMsg(e).n = e
BY DEF Messages, CallMsg, RawMsg, TurnMsg, EventMsg, Msg

\* What a message of each kind is.
LEMMA MessageKinds ==
  ASSUME NEW m \in Messages
  PROVE  /\ m.kind \in {"call", "raw", "turn", "event"}
         /\ m.kind = "call" => m.n \in 1..Versions /\ m = CallMsg(m.n)
         /\ m.kind = "turn" => m.n \in Turns /\ m = TurnMsg(m.n)
         /\ m.kind = "event" => m.n \in Events /\ m = EventMsg(m.n)
BY DEF Messages, CallMsg, RawMsg, TurnMsg, EventMsg, Msg

\* A publish appends the message, or drops it if the queue is full.
LEMMA PublishEffect ==
  ASSUME TypeOK, NEW m \in Messages, Publish(m)
  PROVE  /\ queue' \in Seq(Messages) /\ Len(queue') <= QueueSize
         /\ dropped' \subseteq Messages /\ dropped \subseteq dropped'
         /\ Len(queue') \in Nat /\ Len(queue) \in Nat
         /\ \/ queue' = queue /\ (m.kind # "raw" => m \in dropped')
            \/ /\ Len(queue') = Len(queue) + 1 /\ queue'[Len(queue) + 1] = m
               /\ \A i \in 1..Len(queue) : queue'[i] = queue[i]
<1>1. queue \in Seq(Messages) /\ Len(queue) \in Nat /\ Len(queue) <= QueueSize
  BY DEF TypeOK
<1>2. CASE Len(queue) < QueueSize
  <2>1. queue' = Append(queue, m) /\ dropped' = dropped
    BY <1>2 DEF Publish
  <2>2. /\ queue' \in Seq(Messages) /\ Len(queue') = Len(queue) + 1
        /\ queue'[Len(queue) + 1] = m
        /\ \A i \in 1..Len(queue) : queue'[i] = queue[i]
    BY <1>1, <2>1
  <2>3. Len(queue') <= QueueSize
    BY <1>1, <1>2, <2>2, DashboardAssumption
  <2> QED BY <1>1, <2>1, <2>2, <2>3 DEF TypeOK
<1>3. CASE ~(Len(queue) < QueueSize)
  <2>1. queue' = queue /\ dropped' = dropped \cup Lost(m)
    BY <1>3 DEF Publish
  <2> QED BY <1>1, <2>1 DEF TypeOK, Lost
<1> QED BY <1>2, <1>3

\* After it, what was queued still is, and the message is queued or dropped.
LEMMA PublishQueued ==
  ASSUME TypeOK, NEW m \in Messages, Publish(m)
  PROVE  /\ \A x : Queued(x) => Queued(x)'
         /\ \A x : Queued(x)' => Queued(x) \/ x = m
         /\ m.kind # "raw" => Queued(m)' \/ m \in dropped'
<1>1. CASE queue' = queue /\ (m.kind # "raw" => m \in dropped')
  BY <1>1 DEF Queued
<1>2. CASE /\ Len(queue') = Len(queue) + 1 /\ queue'[Len(queue) + 1] = m
           /\ \A i \in 1..Len(queue) : queue'[i] = queue[i]
  <2>1. Len(queue) \in Nat /\ Len(queue') \in Nat
    BY PublishEffect
  <2>2. 1..Len(queue') = 1..Len(queue) \cup {Len(queue) + 1}
    BY <1>2, <2>1
  <2> QED BY <1>2, <2>1, <2>2 DEF Queued
<1> QED BY <1>1, <1>2, PublishEffect

\* The broadcast loop takes the first message; the others move up.
LEMMA PopEffect ==
  ASSUME TypeOK, queue # <<>>, queue' = Tail(queue)
  PROVE  /\ queue' \in Seq(Messages) /\ Len(queue') <= QueueSize
         /\ Head(queue) \in Messages /\ Head(queue) = queue[1]
         /\ Len(queue) \in Nat \ {0} /\ Len(queue') = Len(queue) - 1
         /\ \A i \in 1..Len(queue') : i + 1 \in 1..Len(queue) /\ queue'[i] = queue[i + 1]
<1>1. queue \in Seq(Messages) /\ Len(queue) \in Nat /\ Len(queue) <= QueueSize
  BY DEF TypeOK
<1>2. Len(queue) # 0
  BY <1>1
<1>3. /\ queue' \in Seq(Messages) /\ Len(queue') = Len(queue) - 1
      /\ \A i \in 1..Len(queue') : queue'[i] = queue[i + 1]
  BY <1>1, <1>2
<1>4. Head(queue) = queue[1] /\ queue[1] \in Messages
  BY <1>1, <1>2
<1>5. Len(queue) - 1 <= QueueSize
  BY <1>1, <1>2, DashboardAssumption
<1>6. \A i \in 1..Len(queue') : i + 1 \in 1..Len(queue)
  BY <1>1, <1>2, <1>3
<1> QED BY <1>1, <1>2, <1>3, <1>4, <1>5, <1>6

LEMMA PopQueued ==
  ASSUME TypeOK, queue # <<>>, queue' = Tail(queue)
  PROVE  /\ \A x : Queued(x) => x = Head(queue) \/ Queued(x)'
         /\ \A x : Queued(x)' => Queued(x)
         /\ Queued(Head(queue))
<1>1. ASSUME NEW i \in 1..Len(queue), i # 1
      PROVE  \E j \in 1..Len(queue') : queue'[j] = queue[i]
  <2>1. i - 1 \in 1..Len(queue') /\ queue'[i - 1] = queue[(i - 1) + 1] /\ (i - 1) + 1 = i
    BY <1>1, PopEffect
  <2> QED BY <2>1
<1>2. 1 \in 1..Len(queue)
  BY PopEffect
<1>3. ASSUME NEW i \in 1..Len(queue')
      PROVE  \E j \in 1..Len(queue) : queue'[i] = queue[j]
  BY PopEffect
<1>4. \A x : Queued(x) => x = Head(queue) \/ Queued(x)'
  BY <1>1, PopEffect DEF Queued
<1>5. \A x : Queued(x)' => Queued(x)
  BY <1>3 DEF Queued
<1>6. Queued(Head(queue))
  BY <1>2, PopEffect DEF Queued
<1> QED BY <1>4, <1>5, <1>6


----------------------------------------------------------------------------
(* The types.                                                              *)

Publisher ==
  \/ CallChanges \/ CallChangesQuietly \/ RawEvent
  \/ \E t \in Turns : TurnStarts(t) \/ TurnSaved(t) \/ TurnPublished(t)
  \/ \E e \in Events : EmitCallEvent(e) \/ SaveCallEvent(e) \/ EventPublished(e)

LEMMA PublisherTypes ==
  ASSUME TypeOK, Publisher
  PROVE  TypeOK'
<1> USE DEF callVars, publishVars, serverVars, clientVars, panelVars
<1>1. Versions \in Nat /\ version \in 0..Versions
  BY DashboardAssumption DEF TypeOK
<1>2. CASE CallChanges
  <2>1. version + 1 \in 0..Versions /\ CallMsg(version + 1) \in Messages
    BY <1>1, <1>2, MessageFacts DEF CallChanges
  <2>2. Publish(CallMsg(version + 1)) /\ version' = version + 1
    BY <1>2 DEF CallChanges
  <2>3. queue' \in Seq(Messages) /\ Len(queue') <= QueueSize /\ dropped' \subseteq Messages
    BY <2>1, <2>2, PublishEffect
  <2>4. said' \in 0..version' /\ live' \in BOOLEAN
    BY <1>1, <1>2 DEF CallChanges
  <2> QED BY <1>2, <2>1, <2>2, <2>3, <2>4 DEF CallChanges, TypeOK
<1>8. CASE CallChangesQuietly
  <2>1. version' \in 0..Versions /\ said' \in 0..version' /\ live' \in BOOLEAN
    BY <1>1, <1>8 DEF CallChangesQuietly, TypeOK
  <2> QED BY <1>8, <2>1 DEF CallChangesQuietly, TypeOK
<1>3. CASE RawEvent
  <2>1. queue' \in Seq(Messages) /\ Len(queue') <= QueueSize /\ dropped' \subseteq Messages
    BY <1>3, PublishEffect, MessageFacts DEF RawEvent
  <2> QED BY <1>3, <2>1 DEF RawEvent, TypeOK
<1>4. ASSUME NEW t \in Turns, TurnStarts(t) \/ TurnSaved(t)  PROVE TypeOK'
  <2>1. turn' \in [Turns -> {"none", "saving", "saved", "published"}]
    BY <1>4 DEF TurnStarts, TurnSaved, TypeOK
  <2> QED BY <1>4, <2>1 DEF TurnStarts, TurnSaved, TypeOK
<1>5. ASSUME NEW t \in Turns, TurnPublished(t)  PROVE TypeOK'
  <2>1. queue' \in Seq(Messages) /\ Len(queue') <= QueueSize /\ dropped' \subseteq Messages
    BY <1>5, PublishEffect, MessageFacts DEF TurnPublished
  <2>2. turn' \in [Turns -> {"none", "saving", "saved", "published"}]
    BY <1>5 DEF TurnPublished, TypeOK
  <2> QED BY <1>5, <2>1, <2>2 DEF TurnPublished, TypeOK
<1>6. ASSUME NEW e \in Events, EmitCallEvent(e) \/ SaveCallEvent(e)  PROVE TypeOK'
  <2>1. /\ stored' \in [Events -> {"none", "pending", "written"}]
        /\ emitted' \in [Events -> {"none", "pending", "published"}]
    BY <1>6 DEF EmitCallEvent, SaveCallEvent, TypeOK
  <2> QED BY <1>6, <2>1 DEF EmitCallEvent, SaveCallEvent, TypeOK
<1>7. ASSUME NEW e \in Events, EventPublished(e)  PROVE TypeOK'
  <2>1. queue' \in Seq(Messages) /\ Len(queue') <= QueueSize /\ dropped' \subseteq Messages
    BY <1>7, PublishEffect, MessageFacts DEF EventPublished
  <2>2. emitted' \in [Events -> {"none", "pending", "published"}]
    BY <1>7 DEF EventPublished, TypeOK
  <2> QED BY <1>7, <2>1, <2>2 DEF EventPublished, TypeOK
<1> QED BY <1>2, <1>3, <1>4, <1>5, <1>6, <1>7, <1>8 DEF Publisher

LEMMA ShownTypes ==
  ASSUME TypeOK, NEW m \in Messages, Shown(m)
  PROVE  /\ row' \in 0..Broken /\ turns' \subseteq Turns
         /\ events' \in [db : SUBSET Events, live : SUBSET Events]
<1>1. Versions \in Nat
  BY DashboardAssumption
<1>2. row' \in 0..Broken
  <2>1. m.kind = "call" => m.n \in 0..Broken
    BY <1>1, MessageKinds DEF Broken
  <2>2. Broken \in 0..Broken
    BY <1>1 DEF Broken
  <2>3. row' = RowAfter(m) /\ row \in 0..Broken
    BY DEF Shown, TypeOK
  <2>4. CASE m.kind = "call"
    BY <2>1, <2>3, <2>4 DEF RowAfter
  <2>5. CASE m.kind = "raw" /\ row = NoRow
    BY <2>2, <2>3, <2>5 DEF RowAfter
  <2>6. CASE m.kind # "call" /\ ~(m.kind = "raw" /\ row = NoRow)
    BY <2>3, <2>6 DEF RowAfter
  <2> QED BY <2>4, <2>5, <2>6
<1>3. turns' \subseteq Turns
  BY MessageKinds DEF Shown, TypeOK
<1>4. events' \in [db : SUBSET Events, live : SUBSET Events]
  BY MessageKinds DEF Shown, TypeOK
<1> QED BY <1>2, <1>3, <1>4

LEMMA ServerTypes ==
  ASSUME TypeOK, Fanout \/ Broadcast
  PROVE  TypeOK'
<1> USE DEF callVars, publishVars, serverVars, clientVars, panelVars
<1>1. Versions \in Nat /\ version \in 0..Versions
  BY DashboardAssumption DEF TypeOK
<1>2. CASE SnapshotReads
  <2>1. /\ Transcript(snap.full) \in SUBSET Turns /\ StoredEvents \in SUBSET Events
        /\ \A E \in CallEvents(snap.full) : E \in SUBSET Events
    BY DEF StoredTurns, StoredEvents, Transcript, CallEvents
  <2>2. ASSUME NEW E \in CallEvents(snap.full)
        PROVE  [snap EXCEPT !.read = TRUE, !.turns = Transcript(snap.full), !.events = E,
                            !.written = StoredEvents] \in Snapshot
    <3>1. E \in SUBSET Events
      BY <2>1
    <3> HIDE DEF Transcript, StoredEvents
    <3> QED BY <2>1, <3>1 DEF TypeOK, Snapshot
  <2>3. snap \in Snapshot
    BY DEF TypeOK
  <2>4. \/ snap' = snap
        \/ \E E \in CallEvents(snap.full) :
             snap' = [snap EXCEPT !.read = TRUE, !.turns = Transcript(snap.full), !.events = E,
                                  !.written = StoredEvents]
    BY <1>2 DEF SnapshotReads
  <2>5. snap' \in Snapshot
    BY <2>2, <2>3, <2>4, Zenon
  <2>6. conn' \in ConnPC
    BY <1>2 DEF SnapshotReads, ConnPC
  <2> QED BY <1>2, <2>5, <2>6 DEF SnapshotReads, TypeOK
<1>3. CASE SnapshotSent
  <2>1. DumpedCall \in 0..Versions
    BY <1>1 DEF DumpedCall
  <2>2. snap' \in Snapshot /\ conn' \in ConnPC
    BY <1>3, <2>1 DEF SnapshotSent, Snapshot, TypeOK, ConnPC
  <2>3. /\ row' = snap'.call /\ turns' = turns \cup snap'.turns
        /\ events' = IF snap'.listed THEN [events EXCEPT !.db = snap'.events] ELSE events
    BY <1>3 DEF SnapshotSent, ShownSnapshot
  <2>4. /\ snap'.call \in 0..Versions /\ snap'.turns \subseteq Turns
        /\ snap'.events \subseteq Events
    BY <2>2 DEF Snapshot
  <2>5. row' \in 0..Broken /\ turns' \subseteq Turns
    BY <1>1, <2>3, <2>4 DEF TypeOK, Broken
  <2>6. events' \in [db : SUBSET Events, live : SUBSET Events]
    BY <2>3, <2>4 DEF TypeOK
  <2> QED BY <1>3, <2>2, <2>5, <2>6 DEF SnapshotSent, TypeOK
<1>4. CASE SnapshotFails
  BY <1>1, <1>4 DEF SnapshotFails, TypeOK, NoSnapshot, Snapshot, ConnPC
<1>5. CASE Register
  BY <1>5 DEF Register, TypeOK, ConnPC
<1>6. CASE Broadcast
  <2>1. queue # <<>> /\ queue' = Tail(queue)
    BY <1>6 DEF Broadcast
  <2>2. queue' \in Seq(Messages) /\ Len(queue') <= QueueSize /\ Head(queue) \in Messages
    BY <2>1, PopEffect
  <2>3. CASE Shown(Head(queue)) /\ UNCHANGED <<conn, missed>>
    <3>1. /\ row' \in 0..Broken /\ turns' \subseteq Turns
          /\ events' \in [db : SUBSET Events, live : SUBSET Events]
      BY <2>2, <2>3, ShownTypes
    <3> QED BY <1>6, <2>2, <2>3, <3>1 DEF Broadcast, TypeOK
  <2>4. CASE /\ conn' \in {conn, "discarded"} /\ missed' \subseteq missed \cup {Head(queue)}
             /\ UNCHANGED panelVars
    <3>1. conn' \in ConnPC
      BY <2>4 DEF TypeOK, ConnPC
    <3>2. UNCHANGED <<publishVars, snap, dropped, clientVars>>
      BY <1>6 DEF Broadcast
    <3> QED BY <2>2, <2>4, <3>1, <3>2 DEF TypeOK
  <2> QED BY <1>6, <2>3, <2>4 DEF Broadcast, Lost
<1> QED BY <1>2, <1>3, <1>4, <1>5, <1>6 DEF Fanout

LEMMA ClientTypes ==
  ASSUME TypeOK, Client \/ Login
  PROVE  TypeOK'
<1> USE DEF callVars, publishVars, serverVars, clientVars, panelVars
<1>1. Versions \in Nat /\ MaxAttempts \in Nat
  BY DashboardAssumption
<1>2. NoSnapshot \in Snapshot /\ [NoSnapshot EXCEPT !.listed = TRUE, !.full = live] \in Snapshot
  <2>1. NoSnapshot \in Snapshot
    BY <1>1 DEF NoSnapshot, Snapshot
  <2> HIDE DEF NoSnapshot
  <2> QED BY <2>1 DEF Snapshot, TypeOK
<1>3. CASE DoConnect \/ OpenedWithWrongKey \/ AuthFailed \/ Login
  <2>1. /\ ws' \in {"DISCONNECTED", "CONNECTING", "CONNECTED", "AUTH_FAILED"}
        /\ attempt' \in {attempt, 0}
        /\ UNCHANGED <<publishVars, serverVars, panelVars>>
    BY <1>3 DEF DoConnect, OpenedWithWrongKey, AuthFailed, Login
  <2> QED BY <1>1, <2>1 DEF TypeOK
<1>4. CASE Opened
  BY <1>1, <1>2, <1>4 DEF Opened, TypeOK, ConnPC
<1>5. CASE Closed
  <2>1. attempt' \in 0..MaxAttempts
    BY <1>1, <1>5 DEF Closed, ScheduleReconnect, TypeOK
  <2>2. ws' \in {"EXHAUSTED", "BACKING_OFF"}
    BY <1>5 DEF Closed, ScheduleReconnect
  <2> QED BY <1>2, <1>5, <2>1, <2>2 DEF Closed, TypeOK, ConnPC
<1> QED BY <1>3, <1>4, <1>5 DEF Client


----------------------------------------------------------------------------
(* The kinds of steps.                                                     *)

\* A message that is not of a call is published, and with it a turn or an event that was
\* ready for it.
Appends(m) ==
  /\ m \in Messages /\ m.kind # "call" /\ version > 0 /\ Publish(m)
  /\ \A t \in Turns : turn'[t] = "published" => turn[t] = "published" \/ m = TurnMsg(t)
  /\ \A t \in Turns : m = TurnMsg(t) => t \in StoredTurns'
  /\ \A e \in Events : emitted'[e] = "published" => emitted[e] = "published" \/ m = EventMsg(e)
  /\ UNCHANGED <<version, said, stored, conn, snap, missed, clientVars, panelVars>>

\* A turn or an event gets nearer to its publish.
Prepares ==
  /\ version = 0 => UNCHANGED <<turn, emitted>>
  /\ \A t \in Turns : turn'[t] = "published" => turn[t] = "published"
  /\ \A e \in Events : emitted'[e] = "published" => emitted[e] = "published"
  /\ UNCHANGED <<version, said, serverVars, panelVars>>

\* Only the client's own state changes.
Idles == UNCHANGED <<publishVars, serverVars, panelVars>>

LEMMA StepKinds ==
  ASSUME TypeOK, NothingBefore, [Next]_vars
  PROVE  \/ CallChanges \/ CallChangesQuietly \/ Prepares \/ Idles \/ Opened \/ Closed
         \/ SnapshotReads \/ SnapshotSent \/ SnapshotFails \/ Register \/ Broadcast
         \/ \E m \in Messages : Appends(m)
<1> USE DEF callVars, publishVars, serverVars, clientVars, panelVars
<1>1. CASE UNCHANGED vars
  BY <1>1 DEF vars, Idles
<1>2. ASSUME RawEvent  PROVE Appends(RawMsg)
  <2>1. \A t \in Turns : RawMsg # TurnMsg(t)
    BY MessageFacts
  <2>2. version > 0
    BY <1>2, DashboardAssumption DEF RawEvent
  <2> QED BY <1>2, <2>1, <2>2, MessageFacts DEF RawEvent, Appends
<1>3. ASSUME NEW t \in Turns, TurnPublished(t)  PROVE Appends(TurnMsg(t))
  <2>1. version > 0
    BY <1>3 DEF TurnPublished, NothingBefore, TypeOK
  <2>2. turn' = [turn EXCEPT ![t] = "published"]
    BY <1>3 DEF TurnPublished
  <2>3. \A u \in Turns : turn'[u] = "published" => turn[u] = "published" \/ u = t
    BY <2>2 DEF TypeOK
  <2>4. \A u \in Turns : TurnMsg(t) = TurnMsg(u) => u = t
    BY MessageFacts
  <2>5. t \in StoredTurns'
    BY <2>2 DEF StoredTurns, TypeOK
  <2> QED BY <1>3, <2>1, <2>3, <2>4, <2>5, MessageFacts DEF TurnPublished, Appends
<1>4. ASSUME NEW e \in Events, EventPublished(e)  PROVE Appends(EventMsg(e))
  <2>1. version > 0
    BY <1>4 DEF EventPublished, NothingBefore, TypeOK
  <2>2. \A f \in Events : emitted'[f] = "published" => emitted[f] = "published" \/ f = e
    BY <1>4 DEF EventPublished, TypeOK
  <2>3. \A t \in Turns : EventMsg(e) # TurnMsg(t)
    BY MessageFacts
  <2> QED BY <1>4, <2>1, <2>2, <2>3, MessageFacts DEF EventPublished, Appends
<1>5. ASSUME NEW t \in Turns, TurnStarts(t) \/ TurnSaved(t)  PROVE Prepares
  <2>1. version # 0
    BY <1>5 DEF TurnStarts, TurnSaved, NothingBefore, TypeOK
  <2>2. \A u \in Turns : turn'[u] = "published" => turn[u] = "published"
    BY <1>5 DEF TurnStarts, TurnSaved, TypeOK
  <2> QED BY <1>5, <2>1, <2>2 DEF TurnStarts, TurnSaved, Prepares
<1>6. ASSUME NEW e \in Events, EmitCallEvent(e) \/ SaveCallEvent(e)  PROVE Prepares
  <2>1. \A f \in Events : emitted'[f] = "published" => emitted[f] = "published"
    BY <1>6 DEF EmitCallEvent, SaveCallEvent, TypeOK
  <2>2. version = 0 => UNCHANGED <<turn, emitted>>
    BY <1>6 DEF EmitCallEvent, SaveCallEvent, TypeOK
  <2> QED BY <1>6, <2>1, <2>2 DEF EmitCallEvent, SaveCallEvent, Prepares
<1>7. ASSUME DoConnect \/ OpenedWithWrongKey \/ AuthFailed \/ Login  PROVE Idles
  BY <1>7 DEF DoConnect, OpenedWithWrongKey, AuthFailed, Login, Idles
<1> QED BY <1>1, <1>2, <1>3, <1>4, <1>5, <1>6, <1>7, MessageFacts DEF Next, Fanout, Client

\* A new connection starts with an empty snapshot, which lists the call if there is one.
LEMMA OpenedEffect ==
  ASSUME TypeOK, Opened
  PROVE  /\ snap'.call = 0 /\ snap'.turns = {} /\ snap'.events = {} /\ snap'.written = {}
         /\ ~snap'.read /\ ~snap'.sent
         /\ snap'.listed <=> version > 0
         /\ conn' = "listed"
         /\ UNCHANGED <<version, said, turn, emitted, queue, dropped, missed, panelVars>>
<1>1. version \in Nat
  BY DashboardAssumption DEF TypeOK
<1>2. CASE version = 0
  <2>1. snap' = NoSnapshot
    BY <1>2 DEF Opened
  <2> QED BY <1>2, <2>1 DEF NoSnapshot, Opened, callVars, publishVars
<1>3. CASE version # 0
  <2>1. snap' = [NoSnapshot EXCEPT !.listed = TRUE, !.full = live]
    BY <1>3 DEF Opened
  <2>2. version > 0
    BY <1>1, <1>3
  <2> QED BY <2>1, <2>2 DEF NoSnapshot, Opened, callVars, publishVars
<1> QED BY <1>2, <1>3

\* What a snapshot gets from the database.
LEMMA ReadEffect ==
  ASSUME TypeOK, SnapshotReads
  PROVE  /\ snap'.call = snap.call /\ snap'.sent = snap.sent
         /\ snap'.listed = snap.listed /\ snap'.full = snap.full
         /\ \/ snap' = snap
            \/ /\ snap.listed /\ snap'.read
               /\ snap'.turns = Transcript(snap.full) /\ snap'.written = StoredEvents
               /\ snap'.events \in CallEvents(snap.full)
<1>1. snap \in Snapshot
  BY DEF TypeOK
<1>2. CASE snap' = snap
  BY <1>2
<1>3. ASSUME NEW E \in CallEvents(snap.full), snap.listed,
             snap' = [snap EXCEPT !.read = TRUE, !.turns = Transcript(snap.full), !.events = E,
                                  !.written = StoredEvents]
      PROVE  /\ snap'.call = snap.call /\ snap'.sent = snap.sent
             /\ snap'.listed = snap.listed /\ snap'.full = snap.full
             /\ snap'.read /\ snap'.turns = Transcript(snap.full)
             /\ snap'.written = StoredEvents /\ snap'.events = E
  BY <1>1, <1>3 DEF Snapshot
<1> QED BY <1>2, <1>3 DEF SnapshotReads

LEMMA TypeStep ==
  ASSUME TypeOK, [Next]_vars
  PROVE  TypeOK'
<1>1. CASE UNCHANGED vars
  BY <1>1 DEF vars, callVars, publishVars, serverVars, clientVars, panelVars, TypeOK
<1>2. CASE Publisher
  BY <1>2, PublisherTypes
<1>3. CASE Fanout \/ Broadcast
  BY <1>3, ServerTypes
<1>4. CASE Client \/ Login
  BY <1>4, ClientTypes
<1> QED BY <1>1, <1>2, <1>3, <1>4 DEF Next, Publisher

----------------------------------------------------------------------------
(* The queue and the database.                                             *)

LEMMA StoredOnceStep ==
  ASSUME TypeOK, StoredOnce, [Next]_vars
  PROVE  StoredOnce'
<1> USE DEF callVars, publishVars, serverVars, clientVars, panelVars
<1>1. CASE UNCHANGED <<stored, emitted>>
  BY <1>1 DEF StoredOnce
<1>2. ASSUME NEW e \in Events, EmitCallEvent(e) \/ SaveCallEvent(e) \/ EventPublished(e)
      PROVE  StoredOnce'
  BY <1>2 DEF EmitCallEvent, SaveCallEvent, EventPublished, StoredOnce, TypeOK
<1>3. ASSUME NEW t \in Turns, TurnStarts(t) \/ TurnSaved(t) \/ TurnPublished(t)
      PROVE  UNCHANGED <<stored, emitted>>
  BY <1>3 DEF TurnStarts, TurnSaved, TurnPublished
<1>4. CASE CallChanges \/ CallChangesQuietly \/ RawEvent \/ Broadcast \/ Login
  BY <1>1, <1>4 DEF CallChanges, CallChangesQuietly, RawEvent, Broadcast, Login
<1>5. CASE Fanout
  BY <1>1, <1>5 DEF Fanout, SnapshotReads, SnapshotSent, SnapshotFails, Register
<1>6. CASE Client
  BY <1>1, <1>6 DEF Client, DoConnect, Opened, OpenedWithWrongKey, AuthFailed, Closed
<1>7. CASE UNCHANGED vars
  BY <1>1, <1>7 DEF vars
<1> QED BY <1>1, <1>2, <1>3, <1>4, <1>5, <1>6, <1>7 DEF Next

\* What is stored stays.
LEMMA StoredGrows ==
  ASSUME TypeOK, StoredOnce, [Next]_vars
  PROVE  StoredTurns \subseteq StoredTurns' /\ StoredEvents \subseteq StoredEvents'
<1> USE DEF callVars, publishVars, serverVars, clientVars, panelVars
<1>1. CASE UNCHANGED <<turn, stored>>
  BY <1>1 DEF StoredTurns, StoredEvents
<1>2. ASSUME NEW t \in Turns, TurnStarts(t) \/ TurnSaved(t) \/ TurnPublished(t)
      PROVE  StoredTurns \subseteq StoredTurns' /\ stored' = stored
  BY <1>2 DEF TurnStarts, TurnSaved, TurnPublished, StoredTurns, TypeOK
<1>3. CASE CallChanges \/ CallChangesQuietly \/ RawEvent \/ Broadcast \/ Login
  BY <1>1, <1>3 DEF CallChanges, CallChangesQuietly, RawEvent, Broadcast, Login
<1>4. CASE Fanout
  BY <1>1, <1>4 DEF Fanout, SnapshotReads, SnapshotSent, SnapshotFails, Register
<1>5. CASE Client
  BY <1>1, <1>5 DEF Client, DoConnect, Opened, OpenedWithWrongKey, AuthFailed, Closed
<1>6. ASSUME NEW e \in Events, EmitCallEvent(e) \/ SaveCallEvent(e) \/ EventPublished(e)
      PROVE  StoredEvents \subseteq StoredEvents' /\ turn' = turn
  <2>1. CASE EmitCallEvent(e)
    <3>1. stored' = [stored EXCEPT ![e] = "pending"] /\ turn' = turn /\ emitted[e] = "none"
      BY <2>1 DEF EmitCallEvent
    <3> QED BY <3>1 DEF StoredEvents, StoredOnce, TypeOK
  <2>2. CASE SaveCallEvent(e)
    BY <2>2 DEF SaveCallEvent, StoredEvents, TypeOK
  <2>3. CASE EventPublished(e)
    BY <2>3 DEF EventPublished, StoredEvents
  <2> QED BY <1>6, <2>1, <2>2, <2>3
<1>7. CASE UNCHANGED vars
  BY <1>1, <1>7 DEF vars
<1>8. stored' = stored => StoredEvents' = StoredEvents
  BY DEF StoredEvents
<1>9. turn' = turn => StoredTurns' = StoredTurns
  BY DEF StoredTurns
<1> QED BY <1>1, <1>2, <1>3, <1>4, <1>5, <1>6, <1>7, <1>8, <1>9 DEF Next

\* A turn once left out by the limit is left out for good, and so are events.
LEMMA LimitStays ==
  ASSUME TypeOK, StoredOnce, [Next]_vars
  PROVE  /\ \A t \in Turns : LeftOut(t) => LeftOut(t)'
         /\ Cardinality(StoredEvents) > Limit => Cardinality(StoredEvents') > Limit
<1>1. IsFiniteSet(Turns) /\ IsFiniteSet(Events) /\ Limit \in Nat
  BY DashboardAssumption
<1>2. ASSUME NEW t \in Turns, LeftOut(t)  PROVE LeftOut(t)'
  <2> DEFINE S == {u \in StoredTurns : u > t}
             T == {u \in StoredTurns' : u > t}
  <2>1. S \subseteq T /\ T \subseteq Turns
    BY StoredGrows DEF StoredTurns
  <2>2. IsFiniteSet(T) /\ Cardinality(T) \in Nat
    BY <1>1, <2>1, FS_Subset, FS_CardinalityType
  <2>3. Cardinality(S) <= Cardinality(T) /\ Cardinality(S) \in Nat
    BY <2>1, <2>2, FS_Subset, FS_CardinalityType
  <2>4. Cardinality(S) >= Limit
    BY <1>2 DEF LeftOut
  <2>5. Cardinality(T) >= Limit
    BY <1>1, <2>2, <2>3, <2>4
  <2> QED BY <2>5 DEF LeftOut
<1>3. ASSUME Cardinality(StoredEvents) > Limit  PROVE Cardinality(StoredEvents') > Limit
  <2>1. StoredEvents \subseteq StoredEvents' /\ StoredEvents' \subseteq Events
    BY StoredGrows DEF StoredEvents
  <2>2. IsFiniteSet(StoredEvents') /\ Cardinality(StoredEvents') \in Nat
    BY <1>1, <2>1, FS_Subset, FS_CardinalityType
  <2>3. Cardinality(StoredEvents) <= Cardinality(StoredEvents') /\ Cardinality(StoredEvents) \in Nat
    BY <2>1, <2>2, FS_Subset, FS_CardinalityType
  <2> QED BY <1>1, <1>3, <2>2, <2>3
<1> QED BY <1>2, <1>3

LEMMA NothingStep ==
  ASSUME TypeOK, NothingBefore, [Next]_vars
  PROVE  NothingBefore'
<1> USE DEF callVars, publishVars, serverVars, clientVars, panelVars
<1>1. CASE CallChanges \/ CallChangesQuietly
  BY <1>1, DashboardAssumption DEF CallChanges, CallChangesQuietly, NothingBefore, TypeOK
<1>2. CASE Prepares \/ Idles \/ Opened \/ Closed
  BY <1>2 DEF Prepares, Idles, Opened, Closed, NothingBefore
<1>3. CASE SnapshotReads \/ SnapshotSent \/ SnapshotFails \/ Register
  BY <1>3 DEF SnapshotReads, SnapshotSent, SnapshotFails, Register, NothingBefore
<1>4. CASE Broadcast
  BY <1>4 DEF Broadcast, NothingBefore
<1>5. ASSUME NEW m \in Messages, Appends(m)  PROVE NothingBefore'
  BY <1>5 DEF Appends, NothingBefore
<1> QED BY <1>1, <1>2, <1>3, <1>4, <1>5, StepKinds


LEMMA QueueStep ==
  ASSUME TypeOK, NothingBefore, QueueSound, [Next]_vars
  PROVE  QueueSound'
<1> USE DEF callVars, publishVars, serverVars, clientVars, panelVars
<1> DEFINE n == Len(queue)
<1>1. /\ n \in Nat /\ version \in Nat /\ said \in Nat /\ said <= version
      /\ \A i \in 1..n : queue[i] \in Messages
  BY DashboardAssumption DEF TypeOK
<1>2. \A i \in 1..n : queue[i].kind = "call" => queue[i].n \in 1..Versions
                                                /\ queue[i] = CallMsg(queue[i].n)
  BY <1>1, MessageKinds
<1>3. CASE UNCHANGED <<queue, said, dropped>> /\ (version' > 0 => version > 0)
  BY <1>3 DEF QueueSound, Queued
<1>8. CASE CallChangesQuietly
  BY <1>1, <1>3, <1>8, DashboardAssumption DEF CallChangesQuietly
<1>4. CASE Prepares \/ Idles \/ Opened \/ Closed \/ SnapshotReads \/ SnapshotSent
             \/ SnapshotFails \/ Register
  BY <1>3, <1>4 DEF Prepares, Idles, Opened, Closed, SnapshotReads, SnapshotSent,
     SnapshotFails, Register
<1>5. ASSUME NEW m \in Messages, Appends(m)  PROVE QueueSound'
  <2>1. m.kind # "call" /\ Publish(m) /\ UNCHANGED <<version, said>> /\ m # CallMsg(1)
    BY <1>5, MessageFacts DEF Appends
  <2>2. dropped \subseteq dropped' /\ \A x : Queued(x) => Queued(x)'
    BY <2>1, PublishEffect, PublishQueued
  <2>3. CASE queue' = queue
    BY <2>1, <2>2, <2>3 DEF QueueSound
  <2>4. CASE /\ Len(queue') = n + 1 /\ queue'[n + 1] = m
             /\ \A i \in 1..n : queue'[i] = queue[i]
    <3>1. \A i \in 1..Len(queue') : i \in 1..n \/ (i = n + 1 /\ queue'[i] = m)
      BY <1>1, <2>4
    <3>2. \A i \in 1..Len(queue') : queue'[i].kind = "call" => i \in 1..n /\ queue'[i] = queue[i]
      BY <2>1, <2>4, <3>1
    <3>3. \A i \in 1..Len(queue') : queue'[i] = CallMsg(1) => i \in 1..n /\ queue'[i] = queue[i]
      BY <2>1, <2>4, <3>1
    <3>4. version > 0 => \/ Queued(CallMsg(said))' \/ CallMsg(said) \in dropped'
                         \/ \A i \in 1..Len(queue') : queue'[i].kind # "call"
      BY <2>1, <2>2, <3>2 DEF QueueSound, CallMsg, Msg
    <3> QED BY <2>1, <3>2, <3>3, <3>4 DEF QueueSound
  <2> QED BY <2>1, <2>3, <2>4, PublishEffect
<1>6. CASE CallChanges
  <2> DEFINE m == CallMsg(version + 1)
  <2>1. version + 1 \in 1..Versions /\ m \in Messages
    BY <1>1, <1>6, DashboardAssumption, MessageFacts DEF CallChanges
  <2>2. /\ Publish(m) /\ version' = version + 1 /\ said' = version + 1
        /\ m.kind = "call" /\ m.n = version + 1
    BY <1>6, MessageFacts DEF CallChanges
  <2>3. version + 1 = 1 => n = 0
    BY <1>1 DEF NothingBefore
  <2> HIDE DEF m
  <2>4. (\E i \in 1..Len(queue') : queue'[i] = m) \/ m \in dropped'
    <3>1. \A x \in Messages :
            Publish(x) /\ x.kind # "raw"
              => (\E i \in 1..Len(queue') : queue'[i] = x) \/ x \in dropped'
      BY PublishQueued DEF Queued
    <3> QED BY <2>1, <2>2, <3>1
  <2>5. Queued(CallMsg(said))' \/ CallMsg(said') \in dropped'
    BY <2>2, <2>4 DEF m, Queued, CallMsg, Msg
  <2>6. CASE queue' = queue
    <3>1. \A i \in 1..n : queue[i].kind = "call" => queue[i].n <= said'
      BY <1>1, <1>2, <2>2 DEF QueueSound
    <3>2. /\ \A i, j \in 1..n :
                i < j /\ queue[i].kind = "call" /\ queue[j].kind = "call" => queue[i].n < queue[j].n
          /\ \A i \in 1..n : queue[i] = CallMsg(1) => i = 1
      BY DEF QueueSound
    <3> QED BY <2>5, <2>6, <3>1, <3>2 DEF QueueSound
  <2>7. CASE /\ Len(queue') = n + 1 /\ queue'[n + 1] = m
             /\ \A i \in 1..n : queue'[i] = queue[i]
    <3>1. \A i \in 1..Len(queue') : \/ i \in 1..n /\ queue'[i] = queue[i]
                                    \/ i = n + 1 /\ queue'[i] = m
      BY <1>1, <2>7
    <3>2. \A i \in 1..n : queue[i].kind = "call" => queue[i].n < version + 1
      BY <1>1, <1>2 DEF QueueSound
    <3>3. \A i \in 1..Len(queue') : queue'[i].kind = "call" => queue'[i].n <= said'
      BY <1>1, <1>2, <2>2, <3>1, <3>2
    <3>4. \A i, j \in 1..Len(queue') :
            i < j /\ queue'[i].kind = "call" /\ queue'[j].kind = "call"
              => queue'[i].n < queue'[j].n
      <4> SUFFICES ASSUME NEW i \in 1..Len(queue'), NEW j \in 1..Len(queue'), i < j,
                          queue'[i].kind = "call", queue'[j].kind = "call"
                   PROVE  queue'[i].n < queue'[j].n
        OBVIOUS
      <4>1. i \in 1..n /\ queue'[i] = queue[i]
        BY <1>1, <2>7, <3>1
      <4>2. CASE j \in 1..n /\ queue'[j] = queue[j]
        BY <4>1, <4>2 DEF QueueSound
      <4>3. CASE queue'[j] = m
        BY <2>2, <3>2, <4>1, <4>3
      <4> QED BY <3>1, <4>2, <4>3
    <3>5. \A i \in 1..Len(queue') : queue'[i] = CallMsg(1) => i = 1
      <4> SUFFICES ASSUME NEW i \in 1..Len(queue'), queue'[i] = CallMsg(1)  PROVE i = 1
        OBVIOUS
      <4>1. CASE i \in 1..n /\ queue'[i] = queue[i]
        BY <4>1 DEF QueueSound
      <4>2. CASE i = n + 1 /\ queue'[i] = m
        BY <1>1, <2>2, <2>3, <4>2, MessageFacts
      <4> QED BY <3>1, <4>1, <4>2
    <3> QED BY <2>5, <3>3, <3>4, <3>5 DEF QueueSound
  <2> QED BY <2>1, <2>2, <2>6, <2>7, PublishEffect
<1>7. CASE Broadcast
  <2>1. queue # <<>> /\ queue' = Tail(queue) /\ UNCHANGED <<version, said>> /\ dropped' = dropped
    BY <1>7 DEF Broadcast
  <2>2. /\ n \in Nat \ {0} /\ Len(queue') = n - 1 /\ Head(queue) = queue[1]
        /\ \A i \in 1..Len(queue') : i + 1 \in 1..n /\ queue'[i] = queue[i + 1]
    BY <2>1, PopEffect
  <2>3. \A i \in 1..Len(queue') : queue'[i].kind = "call" => queue'[i].n <= said
    BY <2>2 DEF QueueSound
  <2>4. \A i, j \in 1..Len(queue') :
          i < j /\ queue'[i].kind = "call" /\ queue'[j].kind = "call"
            => queue'[i].n < queue'[j].n
    <3> SUFFICES ASSUME NEW i \in 1..Len(queue'), NEW j \in 1..Len(queue'), i < j,
                        queue'[i].kind = "call", queue'[j].kind = "call"
                 PROVE  queue'[i].n < queue'[j].n
      OBVIOUS
    <3>1. i + 1 < j + 1 /\ i + 1 \in 1..n /\ j + 1 \in 1..n
      BY <2>2
    <3> QED BY <2>2, <3>1 DEF QueueSound
  <2>5. \A i \in 1..Len(queue') : queue'[i] # CallMsg(1)
    <3> SUFFICES ASSUME NEW i \in 1..Len(queue'), queue'[i] = CallMsg(1)  PROVE FALSE
      OBVIOUS
    <3>1. i + 1 \in 1..n /\ queue[i + 1] = CallMsg(1) /\ i + 1 # 1
      BY <2>2
    <3> QED BY <3>1 DEF QueueSound
  <2>6. CASE version > 0 /\ Queued(CallMsg(said)) /\ CallMsg(said) # Head(queue)
    <3>1. Queued(CallMsg(said))'
      BY <2>1, <2>6, PopQueued DEF Queued, CallMsg, Msg
    <3> QED BY <2>1, <2>3, <2>4, <2>5, <3>1 DEF QueueSound
  <2>7. CASE version > 0 /\ CallMsg(said) = Head(queue)
    <3>1. queue[1].kind = "call" /\ queue[1].n = said /\ 1 \in 1..n
      BY <2>2, <2>7, MessageFacts
    <3>2. ASSUME NEW i \in 1..Len(queue'), queue'[i].kind = "call"  PROVE FALSE
      <4>1. i + 1 \in 1..n /\ queue'[i] = queue[i + 1] /\ 1 < i + 1
        BY <2>2
      <4>2. queue[1].n < queue[i + 1].n /\ queue[i + 1].n <= said
        BY <3>1, <3>2, <4>1 DEF QueueSound
      <4>3. queue[i + 1].n \in Nat
        BY <1>2, <3>2, <4>1
      <4> QED BY <1>1, <3>1, <4>2, <4>3
    <3> QED BY <2>1, <2>3, <2>4, <2>5, <3>2 DEF QueueSound
  <2>8. CASE version > 0 => CallMsg(said) \in dropped
    BY <2>1, <2>3, <2>4, <2>5, <2>8 DEF QueueSound
  <2>9. CASE \A i \in 1..n : queue[i].kind # "call"
    BY <2>1, <2>2, <2>3, <2>4, <2>5, <2>9 DEF QueueSound
  <2> QED BY <2>6, <2>7, <2>8, <2>9 DEF QueueSound
<1> QED BY <1>4, <1>5, <1>6, <1>7, <1>8, StepKinds

LEMMA StoredStep ==
  ASSUME TypeOK, NothingBefore, StoredOnce, TurnsStored, [Next]_vars
  PROVE  TurnsStored'
<1> USE DEF callVars, publishVars, serverVars, clientVars, panelVars
<1>1. StoredTurns \subseteq StoredTurns'
  BY StoredGrows
<1>2. CASE UNCHANGED <<queue, turns, snap>>
  BY <1>1, <1>2 DEF TurnsStored, Queued
<1>3. CASE CallChangesQuietly \/ Prepares \/ Idles \/ Register
  BY <1>2, <1>3 DEF CallChangesQuietly, Prepares, Idles, Register
<1>4. CASE Opened \/ Closed \/ SnapshotFails
  <2>1. snap'.turns = {} /\ UNCHANGED <<queue, turns>>
    BY <1>4, OpenedEffect DEF Closed, SnapshotFails, NoSnapshot
  <2> QED BY <1>1, <2>1 DEF TurnsStored, Queued
<1>5. CASE SnapshotReads
  <2>1. snap'.turns \subseteq snap.turns \cup StoredTurns
    BY <1>5, ReadEffect DEF Transcript
  <2>2. UNCHANGED <<queue, turns>>
    BY <1>5 DEF SnapshotReads
  <2> QED BY <1>1, <2>1, <2>2 DEF TurnsStored, Queued
<1>6. CASE SnapshotSent
  <2>1. snap'.turns = snap.turns /\ turns' = turns \cup snap.turns /\ queue' = queue
    BY <1>6 DEF SnapshotSent, ShownSnapshot, TypeOK, Snapshot
  <2> QED BY <1>1, <2>1 DEF TurnsStored, Queued
<1>7. ASSUME NEW m \in Messages, Publish(m), UNCHANGED <<turns, snap>>,
             \A t \in Turns : m = TurnMsg(t) => t \in StoredTurns'
      PROVE  TurnsStored'
  <2>1. \A t \in Turns : Queued(TurnMsg(t))' => t \in StoredTurns'
    BY <1>1, <1>7, PublishQueued DEF TurnsStored
  <2> QED BY <1>1, <1>7, <2>1 DEF TurnsStored, Queued, TurnMsg, Msg
<1>8. ASSUME NEW m \in Messages, Appends(m)  PROVE TurnsStored'
  BY <1>7, <1>8 DEF Appends
<1>9. CASE CallChanges
  <2>1. version + 1 \in 1..Versions
    BY <1>9, DashboardAssumption DEF CallChanges, TypeOK
  <2>2. CallMsg(version + 1) \in Messages /\ \A t \in Turns : CallMsg(version + 1) # TurnMsg(t)
    BY <2>1, MessageFacts
  <2> QED BY <1>7, <1>9, <2>2 DEF CallChanges
<1>10. CASE Broadcast
  <2>1. queue # <<>> /\ queue' = Tail(queue) /\ snap' = snap
    BY <1>10 DEF Broadcast
  <2>2. Head(queue) \in Messages /\ Queued(Head(queue))
    BY <2>1, PopEffect, PopQueued
  <2>3. turns' \subseteq turns \cup {t \in Turns : TurnMsg(t) = Head(queue)}
    BY <1>10, <2>2, MessageKinds DEF Broadcast, Shown
  <2>4. \A t \in Turns : Queued(TurnMsg(t))' => Queued(TurnMsg(t))
    BY <2>1, PopQueued DEF Queued, TurnMsg, Msg
  <2> QED BY <1>1, <2>1, <2>2, <2>3, <2>4 DEF TurnsStored, Queued, TurnMsg, Msg
<1> QED BY <1>3, <1>4, <1>5, <1>6, <1>8, <1>9, <1>10, StepKinds


----------------------------------------------------------------------------
(* The snapshot and the row.                                               *)

LEMMA SnapStep ==
  ASSUME TypeOK, NothingBefore, SnapSound, [Next]_vars
  PROVE  SnapSound'
<1> USE DEF callVars, publishVars, serverVars, clientVars, panelVars
<1>1. version \in Nat /\ snap \in Snapshot /\ snap.call \in Nat /\ events.db \subseteq Events
  BY DashboardAssumption DEF TypeOK, Snapshot
<1>2. CASE /\ UNCHANGED <<conn, snap, turns, events>>
           /\ version' = version \/ version' = version + 1
  BY <1>1, <1>2 DEF SnapSound
<1>3. CASE CallChanges \/ CallChangesQuietly \/ Prepares \/ Idles
  BY <1>2, <1>3 DEF CallChanges, CallChangesQuietly, Prepares, Idles
<1>4. ASSUME NEW m \in Messages, Appends(m)  PROVE SnapSound'
  BY <1>2, <1>4 DEF Appends
<1>5. CASE Opened
  <2>1. /\ snap'.call = 0 /\ snap'.turns = {} /\ snap'.events = {} /\ ~snap'.read /\ ~snap'.sent
        /\ snap'.listed <=> version > 0
    BY <1>5, OpenedEffect
  <2>2. conn' = "listed" /\ version' = version
    BY <1>5, OpenedEffect
  <2> QED BY <1>1, <2>1, <2>2 DEF SnapSound
<1>6. CASE Closed \/ SnapshotFails
  <2>1. /\ snap'.call = 0 /\ snap'.turns = {} /\ snap'.events = {} /\ ~snap'.sent
        /\ conn' \in {"none", "sent"} /\ version' = version
    BY <1>6 DEF Closed, SnapshotFails, NoSnapshot
  <2> QED BY <1>1, <2>1 DEF SnapSound
<1>7. CASE SnapshotReads
  <2>1. /\ snap'.call = snap.call /\ snap'.sent = snap.sent /\ snap'.listed = snap.listed
        /\ snap.listed \/ snap' = snap
    BY <1>7, ReadEffect
  <2> QED BY <1>7, <2>1 DEF SnapshotReads, SnapSound
<1>8. CASE SnapshotSent
  <2>1. /\ snap'.call = DumpedCall /\ snap'.sent /\ snap'.listed = snap.listed
        /\ snap'.turns = snap.turns /\ snap'.events = snap.events /\ snap'.read = snap.read
        /\ conn = "read" /\ conn' = "sent" /\ version' = version
        /\ turns' = turns \cup snap.turns
        /\ events'.db = IF snap.listed THEN snap.events ELSE events.db
    BY <1>1, <1>8 DEF SnapshotSent, ShownSnapshot, Snapshot, TypeOK
  <2> QED BY <1>1, <2>1 DEF SnapSound, DumpedCall
<1>9. CASE Register
  BY <1>9 DEF Register, SnapSound
<1>10. CASE Broadcast
  <2>1. events'.db = events.db /\ turns \subseteq turns'
    BY <1>10 DEF Broadcast, Shown, TypeOK
  <2>2. snap' = snap /\ version' = version /\ conn' \in {conn, "discarded"}
    BY <1>10 DEF Broadcast
  <2> QED BY <2>1, <2>2 DEF SnapSound
<1> QED BY <1>3, <1>4, <1>5, <1>6, <1>7, <1>8, <1>9, <1>10, StepKinds

LEMMA EventsReadStep ==
  ASSUME TypeOK, NothingBefore, StoredOnce, EventsRead, [Next]_vars
  PROVE  EventsRead'
<1> USE DEF callVars, publishVars, serverVars, clientVars, panelVars
<1>1. snap'.full = snap.full /\ EventsCut => EventsCut'
  BY LimitStays DEF EventsCut
<1>2. CASE /\ snap'.full = snap.full /\ snap'.written = snap.written
           /\ snap'.events = snap.events
  BY <1>1, <1>2 DEF EventsRead
<1>3. CASE CallChanges \/ CallChangesQuietly \/ Prepares \/ Idles \/ Register \/ Broadcast
  BY <1>2, <1>3 DEF CallChanges, CallChangesQuietly, Prepares, Idles, Register, Broadcast
<1>4. ASSUME NEW m \in Messages, Appends(m)  PROVE EventsRead'
  BY <1>2, <1>4 DEF Appends
<1>5. CASE Opened \/ Closed \/ SnapshotFails
  <2>1. snap'.written = {}
    BY <1>5, OpenedEffect DEF Closed, SnapshotFails, NoSnapshot
  <2> QED BY <2>1 DEF EventsRead
<1>6. CASE SnapshotSent
  <2>1. /\ snap'.full = snap.full /\ snap'.written = snap.written
        /\ snap'.events = snap.events
    BY <1>6 DEF SnapshotSent, TypeOK, Snapshot
  <2> QED BY <1>2, <2>1
<1>7. CASE SnapshotReads
  <2>1. CASE snap' = snap
    BY <1>2, <2>1
  <2>2. CASE snap'.events \in CallEvents(snap.full) /\ snap'.written = StoredEvents
    <3>1. CASE snap.full \/ Cardinality(StoredEvents) <= Limit
      BY <2>2, <3>1 DEF CallEvents, EventsRead
    <3>2. CASE ~snap.full /\ ~(Cardinality(StoredEvents) <= Limit)
      <4>1. Cardinality(StoredEvents) \in Nat /\ Limit \in Nat
        <5>1. StoredEvents \subseteq Events /\ IsFiniteSet(Events) /\ Limit \in Nat
          BY DashboardAssumption DEF StoredEvents
        <5> QED BY <5>1, FS_Subset, FS_CardinalityType
      <4>2. EventsCut
        BY <3>2, <4>1 DEF EventsCut
      <4>3. snap'.full = snap.full
        BY <1>7, ReadEffect
      <4> QED BY <1>1, <4>2, <4>3 DEF EventsRead
    <3> QED BY <3>1, <3>2
  <2> QED BY <1>7, <2>1, <2>2, ReadEffect
<1> QED BY <1>3, <1>4, <1>5, <1>6, <1>7, StepKinds

\* A pending message stays so, until it is broadcast to the page or a lost connection
\* makes its loss uninteresting.
LEMMA PendingStays ==
  ASSUME TypeOK, NothingBefore, [Next]_vars, NEW x, Pending(x),
         Closed => x.kind = "event",
         Broadcast => x # Head(queue) \/ Head(queue) \in missed'
  PROVE  Pending(x)'
<1> USE DEF callVars, publishVars, serverVars, clientVars, panelVars
<1>1. CASE UNCHANGED <<queue, dropped>> /\ missed \subseteq missed'
  BY <1>1 DEF Pending, Queued
<1>2. CASE CallChangesQuietly \/ Prepares \/ Idles \/ Opened \/ SnapshotReads \/ SnapshotSent
             \/ SnapshotFails \/ Register
  BY <1>1, <1>2 DEF CallChangesQuietly, Prepares, Idles, Opened, SnapshotReads, SnapshotSent,
     SnapshotFails, Register
<1>3. CASE Closed
  BY <1>3 DEF Closed, Pending, Queued
<1>4. ASSUME NEW m \in Messages, Publish(m), missed' = missed  PROVE Pending(x)'
  BY <1>4, PublishQueued, PublishEffect DEF Pending
<1>5. ASSUME NEW m \in Messages, Appends(m)  PROVE Pending(x)'
  BY <1>4, <1>5 DEF Appends
<1>6. CASE CallChanges
  <2>1. version + 1 \in 1..Versions
    BY <1>6, DashboardAssumption DEF CallChanges, TypeOK
  <2> QED BY <1>4, <1>6, <2>1, MessageFacts DEF CallChanges
<1>7. CASE Broadcast
  <2>1. queue # <<>> /\ queue' = Tail(queue) /\ dropped' = dropped /\ missed \subseteq missed'
    BY <1>7 DEF Broadcast
  <2> QED BY <1>7, <2>1, PopQueued DEF Pending
<1> QED BY <1>2, <1>3, <1>5, <1>6, <1>7, StepKinds

\* A message that is published is pending.
LEMMA PublishedPends ==
  ASSUME TypeOK, NEW m \in Messages, m.kind # "raw", Publish(m)
  PROVE  (\E i \in 1..Len(queue') : queue'[i] = m) \/ m \in dropped'
BY PublishQueued DEF Queued

\* What a change of the call does to the queue.
LEMMA CallQueued ==
  ASSUME TypeOK, NothingBefore, QueueSound, CallChanges
  PROVE  /\ Queued(CallMsg(said))' \/ CallMsg(said') \in dropped'
         /\ Pending(CallMsg(said))'
         /\ Pending(CallMsg(1)) \/ version = 0 => Pending(CallMsg(1))'
         /\ \A i \in 1..Len(queue') : queue'[i].kind = "call" =>
              queue'[i].n = version + 1 \/ \E j \in 1..Len(queue) : queue'[i] = queue[j]
<1> DEFINE m == CallMsg(version + 1)
<1>1. version \in Nat /\ version + 1 \in 1..Versions
  BY DashboardAssumption DEF CallChanges, TypeOK
<1>2. m \in Messages /\ Publish(m) /\ version' = version + 1 /\ said' = version + 1
      /\ m.kind = "call" /\ m.n = version + 1
  BY <1>1, MessageFacts DEF CallChanges
<1> HIDE DEF m
<1>3. (\E i \in 1..Len(queue') : queue'[i] = m) \/ m \in dropped'
  BY <1>2, PublishedPends
<1>4. Queued(CallMsg(said))' \/ CallMsg(said') \in dropped'
  BY <1>2, <1>3 DEF m, Queued, CallMsg, Msg
<1>5. Pending(CallMsg(said))'
  BY <1>4 DEF Pending, Queued, CallMsg, Msg
<1>6. version = 0 => CallMsg(said') = CallMsg(1)
  BY <1>2
<1>7. ASSUME version = 0  PROVE Pending(CallMsg(1))'
  BY <1>5, <1>6, <1>7 DEF Pending, Queued, CallMsg, Msg
<1>8. ASSUME Pending(CallMsg(1))  PROVE Pending(CallMsg(1))'
  <2>1. dropped \subseteq dropped' /\ missed' = missed
    BY <1>2, PublishEffect DEF CallChanges
  <2>2. Queued(CallMsg(1)) => Queued(CallMsg(1))'
    BY <1>2, PublishQueued DEF Queued, CallMsg, Msg
  <2> QED BY <1>8, <2>1, <2>2 DEF Pending, CallMsg, Msg
<1>9. \A x : Queued(x)' => Queued(x) \/ x = m
  BY <1>2, PublishQueued
<1>10. \A i \in 1..Len(queue') : queue'[i] = m \/ \E j \in 1..Len(queue) : queue'[i] = queue[j]
  BY <1>9 DEF Queued
<1> QED BY <1>2, <1>4, <1>5, <1>7, <1>8, <1>10


\* The page shows the message h at the head of the queue.
LEMMA RowShown ==
  ASSUME TypeOK, NothingBefore, QueueSound, SnapSound, RowSound, Broadcast,
         conn = "registered", Shown(Head(queue)), UNCHANGED <<conn, missed>>
  PROVE  RowSound'
<1> DEFINE h == Head(queue)
<1>1. /\ queue # <<>> /\ queue' = Tail(queue) /\ UNCHANGED <<version, said, dropped, snap>>
  BY DEF Broadcast, callVars, publishVars
<1>2. /\ h \in Messages /\ h = queue[1] /\ 1 \in 1..Len(queue) /\ Len(queue) \in Nat
      /\ \A i \in 1..Len(queue') : i + 1 \in 1..Len(queue) /\ 1 < i + 1
                                     /\ queue'[i] = queue[i + 1]
  BY <1>1, PopEffect
<1>3. \A x : Queued(x) => x = h \/ Queued(x)'
  BY <1>1, PopQueued
<1>4. /\ version \in Nat /\ version > 0 /\ version <= Versions /\ Versions \in Nat
      /\ Broken = Versions + 1 /\ said \in 1..version
  BY <1>1, DashboardAssumption DEF TypeOK, NothingBefore, Broken
<1>5. row' = RowAfter(h) /\ conn' = "registered"
  BY DEF Shown
<1> HIDE DEF h
<1>6. CASE h.kind = "call"
  <2>1. h.n \in 1..said /\ row' = h.n /\ h = CallMsg(h.n)
    BY <1>2, <1>4, <1>5, <1>6, MessageKinds DEF QueueSound, RowAfter
  <2>2. row' \in said..version \/ Queued(CallMsg(said))' \/ CallMsg(said) \in dropped
    <3>1. h = CallMsg(said) => h.n = said
      BY MessageFacts
    <3>2. Queued(CallMsg(said)) \/ CallMsg(said) \in dropped
      BY <1>2, <1>4, <1>6 DEF QueueSound
    <3>3. Queued(CallMsg(said)) /\ h # CallMsg(said) => Queued(CallMsg(said))'
      BY <1>1, <1>3 DEF Queued, CallMsg, Msg
    <3> QED BY <1>4, <2>1, <3>1, <3>2, <3>3
  <2>3. \A i \in 1..Len(queue') : queue'[i].kind = "call" => queue'[i].n > row'
    <3> SUFFICES ASSUME NEW i \in 1..Len(queue'), queue'[i].kind = "call"
                 PROVE  queue'[i].n > row'
      OBVIOUS
    <3>1. queue[1].n < queue[i + 1].n
      BY <1>2, <1>6 DEF QueueSound
    <3> QED BY <1>2, <2>1, <3>1
  <2>4. row' # NoRow /\ row' # Broken /\ row' <= version
    BY <1>4, <2>1 DEF NoRow
  <2> QED BY <1>1, <1>5, <2>2, <2>3, <2>4 DEF RowSound
<1>7. CASE h.kind # "call"
  <2>1. \A v : h # CallMsg(v)
    BY <1>7, MessageFacts
  <2>2. /\ Queued(CallMsg(said)) => Queued(CallMsg(said))'
        /\ Queued(CallMsg(1)) => Queued(CallMsg(1))'
    BY <1>1, <1>3, <2>1 DEF Queued, CallMsg, Msg
  <2>3. Pending(CallMsg(1)) => Pending(CallMsg(1))'
    BY <1>1, <2>2 DEF Pending, CallMsg, Msg
  <2>4. CASE row' = row
    <3>1. ASSUME \A i \in 1..Len(queue) : queue[i].kind = "call" => queue[i].n > row
          PROVE  \A i \in 1..Len(queue') : queue'[i].kind = "call" => queue'[i].n > row'
      BY <1>2, <2>4, <3>1
    <3> QED BY <1>1, <1>5, <2>2, <2>3, <2>4, <3>1 DEF RowSound
  <2>5. CASE row = NoRow /\ row' = Broken
    <3>1. ~Queued(CallMsg(1))
      BY <1>2, <2>1 DEF Queued, QueueSound
    <3>2. snap.sent => CallMsg(1) \in dropped \cup missed
      BY <1>4, <2>5, <3>1 DEF RowSound, Pending
    <3>3. snap.sent => \/ Queued(CallMsg(said)) \/ CallMsg(said) \in dropped
                       \/ CallMsg(said) \in missed /\ said > snap.call
      BY <1>4, <2>5 DEF RowSound, NoRow
    <3>4. row' # NoRow
      BY <1>4, <2>5 DEF NoRow
    <3> QED BY <1>1, <1>5, <2>2, <2>5, <3>2, <3>3, <3>4 DEF RowSound
  <2> QED BY <1>5, <1>7, <2>4, <2>5 DEF RowAfter
<1> QED BY <1>6, <1>7

\* It is broadcast past the page.
LEMMA RowMissed ==
  ASSUME TypeOK, NothingBefore, QueueSound, SnapSound, RowSound, [Next]_vars, Broadcast,
         UNCHANGED panelVars,
         \/ conn' = "discarded"
         \/ conn' = conn /\ conn # "registered"
            /\ (conn # "none" => missed' = missed \cup Lost(Head(queue)))
  PROVE  RowSound'
<1>1. queue # <<>> /\ queue' = Tail(queue) /\ UNCHANGED <<version, said, dropped, snap>>
  BY DEF Broadcast, callVars, publishVars
<1>2. UNCHANGED row
  BY DEF panelVars
<1>3. CASE conn' \in {"discarded", "none"}
  BY <1>1, <1>2, <1>3 DEF RowSound
<1>4. CASE conn' = conn /\ conn \notin {"discarded", "none", "registered"}
  <2>1. missed' = missed \cup Lost(Head(queue))
    BY <1>4
  <2>2. \A x : Pending(x) /\ x.kind = "call" => Pending(x)'
    BY <2>1, PendingStays DEF Closed, Broadcast, Lost, callVars, publishVars, clientVars
  <2>3. /\ Pending(CallMsg(1)) => Pending(CallMsg(1))'
        /\ Pending(CallMsg(said)) => Pending(CallMsg(said))'
    BY <1>1, <2>2, MessageFacts DEF Pending, Queued, CallMsg, Msg
  <2>4. conn = "sent" /\ snap.sent =>
          /\ row = snap.call /\ snap.call \in Nat /\ version \in Nat /\ snap.call <= version
          /\ row # Broken /\ said \in Nat
    BY DashboardAssumption DEF RowSound, SnapSound, TypeOK, Snapshot, Broken
  <2>5. conn = "sent" /\ snap.sent =>
          \/ row \in said..version
          \/ Queued(CallMsg(said))' \/ CallMsg(said) \in dropped
          \/ CallMsg(said) \in missed' /\ said > snap.call
    <3>1. said <= snap.call /\ conn = "sent" /\ snap.sent => row \in said..version
      BY <2>4
    <3>2. conn = "sent" /\ snap.sent /\ row \notin said..version =>
            \/ Queued(CallMsg(said)) \/ CallMsg(said) \in dropped
            \/ CallMsg(said) \in missed
      BY DEF RowSound
    <3>3. conn = "sent" /\ snap.sent /\ row \notin said..version =>
            Queued(CallMsg(said))' \/ CallMsg(said) \in dropped \/ CallMsg(said) \in missed'
      BY <1>1, <2>1, <2>3, <3>2 DEF Pending, CallMsg, Msg
    <3> QED BY <2>4, <3>1, <3>3
  <2> QED BY <1>1, <1>2, <1>4, <2>1, <2>3, <2>4, <2>5 DEF RowSound
<1> QED BY <1>3, <1>4


LEMMA RowStep ==
  ASSUME TypeOK, NothingBefore, QueueSound, SnapSound, RowSound, [Next]_vars
  PROVE  RowSound'
<1> USE DEF callVars, publishVars, serverVars, clientVars, panelVars
<1>1. /\ version \in Nat /\ said \in 0..version /\ version <= Versions
      /\ Versions \in Nat /\ Broken = Versions + 1
      /\ snap \in Snapshot /\ snap.call \in Nat
  BY DashboardAssumption DEF TypeOK, Snapshot, Broken
<1>2. CASE UNCHANGED <<version, said, queue, conn, snap, dropped, missed, row>>
  BY <1>2 DEF RowSound, Pending, Queued
<1>3. CASE Prepares \/ Idles
  BY <1>2, <1>3 DEF Prepares, Idles
<1>4. CASE SnapshotReads
  <2>1. snap'.listed = snap.listed /\ ~snap'.sent
    BY <1>4, ReadEffect DEF SnapshotReads, SnapSound
  <2> QED BY <1>4, <2>1 DEF SnapshotReads, RowSound, Pending, Queued
<1>5. CASE Register
  BY <1>1, <1>5 DEF Register, RowSound, Pending, Queued
<1>6. CASE Opened
  BY <1>6, OpenedEffect DEF RowSound
<1>7. CASE Closed \/ SnapshotFails
  <2>1. /\ ~snap'.sent /\ conn' \in {"none", "sent"}
        /\ UNCHANGED <<version, said, row>>
    BY <1>7 DEF Closed, SnapshotFails, NoSnapshot
  <2> QED BY <2>1 DEF RowSound
<1>8. CASE SnapshotSent
  <2>1. /\ snap'.call = DumpedCall /\ snap'.listed = snap.listed /\ row' = DumpedCall
        /\ conn = "read" /\ conn' = "sent"
        /\ UNCHANGED <<version, said, queue, dropped, missed>>
    BY <1>1, <1>8 DEF SnapshotSent, ShownSnapshot, Snapshot
  <2>2. CASE snap.listed
    <3>1. row' = version /\ version > 0 /\ snap'.call = version
      BY <2>1, <2>2 DEF DumpedCall, SnapSound
    <3> QED BY <1>1, <2>1, <2>2, <3>1 DEF RowSound, NoRow
  <2>3. CASE ~snap.listed
    <3>1. row' = 0 /\ snap'.call = 0
      BY <2>1, <2>3 DEF DumpedCall
    <3>2. version > 0 => Pending(CallMsg(1)) /\ Pending(CallMsg(said))
      BY <2>1, <2>3 DEF RowSound
    <3>3. version > 0 => Pending(CallMsg(1))' /\ Pending(CallMsg(said))'
      BY <2>1, <3>2 DEF Pending, Queued
    <3> QED BY <1>1, <2>1, <2>3, <3>1, <3>3 DEF RowSound, Pending
  <2> QED BY <2>2, <2>3
<1>12. CASE CallChangesQuietly
  <2>1. /\ version > 0 /\ version' = version + 1
        /\ UNCHANGED <<said, queue, conn, snap, dropped, missed, row>>
    BY <1>1, <1>12 DEF CallChangesQuietly
  <2>2. row \in said..version => row' \in said'..version'
    BY <1>1, <2>1
  <2>3. row' <= version' \/ row' = Broken
    BY <1>1, <2>1 DEF RowSound, TypeOK, Broken
  <2>4. /\ Pending(CallMsg(1)) => Pending(CallMsg(1))'
        /\ Pending(CallMsg(said)) => Pending(CallMsg(said))'
        /\ Queued(CallMsg(said)) => Queued(CallMsg(said))'
    BY <2>1 DEF Pending, Queued
  <2> QED BY <2>1, <2>2, <2>3, <2>4 DEF RowSound
<1>9. CASE CallChanges
  <2>1. version' = version + 1 /\ said' = version + 1 /\ UNCHANGED <<conn, snap, missed, row>>
    BY <1>9 DEF CallChanges
  <2>2. /\ Queued(CallMsg(said))' \/ CallMsg(said') \in dropped'
        /\ Pending(CallMsg(said))'
        /\ Pending(CallMsg(1)) \/ version = 0 => Pending(CallMsg(1))'
    BY <1>9, CallQueued
  <2>3. CallMsg(1) \in dropped => CallMsg(1) \in dropped'
    <3>1. version + 1 \in 1..Versions
      BY <1>1, <1>9 DEF CallChanges
    <3> QED BY <1>9, <3>1, MessageFacts, PublishEffect DEF CallChanges
  <2>4. ASSUME row <= version, \A i \in 1..Len(queue) : queue[i].kind = "call" => queue[i].n > row
        PROVE  \A i \in 1..Len(queue') : queue'[i].kind = "call" => queue'[i].n > row'
    <3> SUFFICES ASSUME NEW i \in 1..Len(queue'), queue'[i].kind = "call"
                 PROVE  queue'[i].n > row
      BY <2>1
    <3>1. CASE queue'[i].n = version + 1
      BY <1>1, <2>4, <3>1 DEF TypeOK
    <3>2. CASE \E j \in 1..Len(queue) : queue'[i] = queue[j]
      BY <2>4, <3>2
    <3> QED BY <1>9, <3>1, <3>2, CallQueued
  <2>5. row' <= version' \/ row' = Broken
    BY <1>1, <2>1 DEF RowSound, TypeOK, Broken
  <2>6. conn \in {"sent", "registered"} /\ snap.sent =>
          \/ row = Broken \/ row <= snap.call
          \/ \A i \in 1..Len(queue') : queue'[i].kind = "call" => queue'[i].n > row'
    BY <2>4 DEF RowSound
  <2>7. /\ conn \in {"listed", "read"} /\ ~snap.listed => Pending(CallMsg(1))'
        /\ conn \in {"sent", "registered"} /\ snap.sent /\ row = NoRow => Pending(CallMsg(1))'
    BY <1>1, <2>2 DEF RowSound
  <2> QED BY <2>1, <2>2, <2>3, <2>5, <2>6, <2>7 DEF RowSound
<1>10. ASSUME NEW m \in Messages, Appends(m)  PROVE RowSound'
  <2>1. UNCHANGED <<version, said, conn, snap, missed, row>> /\ Publish(m) /\ m.kind # "call"
    BY <1>10 DEF Appends
  <2>2. dropped \subseteq dropped' /\ \A x : Queued(x) => Queued(x)'
    BY <2>1, PublishEffect, PublishQueued
  <2>3. /\ Queued(CallMsg(1)) => Queued(CallMsg(1))'
        /\ Queued(CallMsg(said)) => Queued(CallMsg(said))'
    BY <2>1, <2>2 DEF Queued, CallMsg, Msg
  <2>4. ASSUME \A i \in 1..Len(queue) : queue[i].kind = "call" => queue[i].n > row
        PROVE  \A i \in 1..Len(queue') : queue'[i].kind = "call" => queue'[i].n > row'
    <3>1. \A x : Queued(x)' => Queued(x) \/ x = m
      BY <2>1, PublishQueued
    <3> QED BY <2>1, <2>4, <3>1 DEF Queued
  <2>5. /\ Pending(CallMsg(1)) => Pending(CallMsg(1))'
        /\ Pending(CallMsg(said)) => Pending(CallMsg(said))'
    BY <2>1, <2>2, <2>3 DEF Pending, CallMsg, Msg
  <2>6. /\ CallMsg(1) \in dropped \cup missed => CallMsg(1) \in (dropped \cup missed)'
        /\ CallMsg(said) \in dropped => CallMsg(said') \in dropped'
        /\ CallMsg(said) \in missed => CallMsg(said') \in missed'
    BY <2>1, <2>2
  <2> QED BY <2>1, <2>3, <2>4, <2>5, <2>6 DEF RowSound
<1>11. CASE Broadcast
  <2>1. CASE conn = "registered" /\ Shown(Head(queue)) /\ UNCHANGED <<conn, missed>>
    BY <1>11, <2>1, RowShown
  <2>2. CASE /\ UNCHANGED panelVars
             /\ \/ conn' = "discarded"
                \/ conn' = conn /\ conn # "registered"
                   /\ (conn # "none" => missed' = missed \cup Lost(Head(queue)))
    BY <1>11, <2>2, RowMissed
  <2> QED BY <1>11, <2>1, <2>2 DEF Broadcast
<1> QED BY <1>3, <1>4, <1>5, <1>6, <1>7, <1>8, <1>9, <1>10, <1>11, <1>12, StepKinds


----------------------------------------------------------------------------
(* Turns and events.                                                       *)

\* A turn that is pending or shown stays so, over an open connection.
LEMMA TurnStays ==
  ASSUME TypeOK, NothingBefore, [Next]_vars, ~Closed, NEW t \in Turns,
         conn \in {"none", "discarded"} => ~Broadcast,
         Pending(TurnMsg(t)) \/ t \in turns, conn' # "discarded"
  PROVE  Pending(TurnMsg(t))' \/ t \in turns'
<1> USE DEF callVars, publishVars, serverVars, clientVars, panelVars
<1>1. turns \subseteq turns'
  <2>1. CASE UNCHANGED turns
    BY <2>1
  <2>2. CASE CallChanges \/ CallChangesQuietly \/ Prepares \/ Idles \/ Opened \/ SnapshotReads
               \/ SnapshotFails \/ Register
    BY <2>1, <2>2 DEF CallChanges, CallChangesQuietly, Prepares, Idles, Opened, SnapshotReads,
       SnapshotFails, Register
  <2>3. CASE SnapshotSent
    BY <2>3 DEF SnapshotSent, ShownSnapshot
  <2>4. CASE Broadcast
    BY <2>4 DEF Broadcast, Shown
  <2>5. ASSUME NEW m \in Messages, Appends(m)  PROVE UNCHANGED turns
    BY <2>5 DEF Appends
  <2> QED BY <2>1, <2>2, <2>3, <2>4, <2>5, StepKinds
<1>2. CASE Broadcast /\ TurnMsg(t) = Head(queue)
  <2>1. CASE Head(queue) \in missed'
    BY <1>2, <2>1 DEF Pending, TurnMsg, Msg
  <2>2. CASE Shown(Head(queue))
    BY <1>2, <2>2, MessageFacts DEF Shown
  <2>3. Lost(Head(queue)) = {Head(queue)}
    BY <1>2, MessageFacts DEF Lost
  <2> QED BY <1>2, <2>1, <2>2, <2>3 DEF Broadcast
<1>3. ASSUME Pending(TurnMsg(t)), ~Broadcast \/ TurnMsg(t) # Head(queue)
      PROVE  Pending(TurnMsg(t))'
  <2>1. \A x : Pending(x) /\ (~Broadcast \/ x # Head(queue)) => Pending(x)'
    BY PendingStays
  <2> QED BY <1>3, <2>1 DEF Pending, Queued, TurnMsg, Msg
<1> QED BY <1>1, <1>2, <1>3

LEMMA OpenStays == UNCHANGED clientVars => ~Closed
BY DEF clientVars, Closed, ScheduleReconnect

LEMMA TurnsStep ==
  ASSUME TypeOK, NothingBefore, StoredOnce, SnapSound, TurnsCovered, [Next]_vars
  PROVE  TurnsCovered'
<1> USE DEF callVars, publishVars, serverVars, clientVars, panelVars
<1> DEFINE Safe(t) == Pending(TurnMsg(t)) \/ t \in turns
<1> SUFFICES ASSUME NEW t \in Turns, turn'[t] = "published"
             PROVE  /\ conn' = "listed" /\ ~snap'.listed => Safe(t)'
                    /\ conn' = "read" => Safe(t)' \/ t \in snap'.turns \/ Unread(t)'
                    /\ conn' \in {"sent", "registered"} /\ snap'.sent =>
                         Safe(t)' \/ Unread(t)'
  BY DEF TurnsCovered
<1>1. ASSUME Safe(t), ~Closed, conn \in {"none", "discarded"} => ~Broadcast, conn' # "discarded"
      PROVE  Safe(t)'
  BY <1>1, TurnStays
<1> HIDE DEF Safe
<1>2. turn[t] = "published" =>
        /\ conn = "listed" /\ ~snap.listed => Safe(t)
        /\ conn = "read" => Safe(t) \/ t \in snap.turns \/ Unread(t)
        /\ conn \in {"sent", "registered"} /\ snap.sent => Safe(t) \/ Unread(t)
  BY DEF TurnsCovered, Safe
<1>14. ASSUME Unread(t), snap'.listed = snap.listed, snap'.read = snap.read,
              snap'.full = snap.full
       PROVE  Unread(t)'
  BY <1>14, LimitStays DEF Unread
<1>3. CASE turn[t] = "published" /\ UNCHANGED <<conn, snap>> /\ ~Closed
  <2>1. CASE conn \in {"none", "discarded"}
    BY <1>3, <2>1
  <2> QED BY <1>1, <1>2, <1>3, <1>14, <2>1
<1>4. CASE Prepares \/ Idles
  <2>1. turn[t] = "published" /\ UNCHANGED <<conn, snap, turns, queue, dropped, missed>>
    BY <1>4 DEF Prepares, Idles
  <2>2. Safe(t) <=> Safe(t)'
    BY <2>1 DEF Safe, Pending, Queued
  <2> QED BY <1>2, <1>14, <2>1, <2>2
<1>5. CASE CallChanges \/ CallChangesQuietly
  BY <1>3, <1>5, OpenStays DEF CallChanges, CallChangesQuietly
<1>6. ASSUME NEW m \in Messages, Appends(m)  PROVE turn[t] = "published" \/ Safe(t)'
  <2>1. CASE m = TurnMsg(t)
    <3>1. Queued(m)' \/ m \in dropped'
      BY <1>6, <2>1, PublishQueued, MessageFacts DEF Appends
    <3> QED BY <2>1, <3>1 DEF Safe, Pending, Queued, TurnMsg, Msg
  <2> QED BY <1>6, <2>1 DEF Appends
<1>7. ASSUME NEW m \in Messages, Appends(m), turn[t] = "published"
      PROVE  UNCHANGED <<conn, snap>> /\ ~Closed
  BY <1>7, OpenStays DEF Appends
<1>8. CASE Opened
  <2>1. turn'[t] = turn[t] /\ (snap'.listed <=> version > 0) /\ conn' = "listed"
    BY <1>8, OpenedEffect
  <2>2. version > 0
    BY <2>1 DEF NothingBefore, TypeOK
  <2> QED BY <2>1, <2>2
<1>9. CASE Closed \/ SnapshotFails
  <2>1. ~snap'.sent /\ conn' \in {"none", "sent"}
    BY <1>9 DEF Closed, SnapshotFails, NoSnapshot
  <2> QED BY <2>1
<1>10. CASE SnapshotReads
  <2>1. /\ conn = "listed" /\ conn' = "read" /\ turn'[t] = turn[t] /\ t \in StoredTurns
    BY <1>10 DEF SnapshotReads, StoredTurns
  <2>2. ~Closed /\ ~Broadcast
    BY <1>10 DEF SnapshotReads, Closed, Broadcast
  <2>3. ~snap.read
    BY <2>1 DEF SnapSound
  <2>4. CASE snap' = snap
    <3>1. CASE snap.listed
      <4>1. Unread(t)'
        BY <2>3, <2>4, <3>1 DEF Unread
      <4> QED BY <2>1, <4>1
    <3>2. CASE ~snap.listed
      <4>1. Safe(t)
        BY <1>2, <2>1, <3>2
      <4> QED BY <1>1, <2>1, <2>2, <4>1
    <3> QED BY <3>1, <3>2
  <2>5. CASE snap'.turns = Transcript(snap.full) /\ snap'.full = snap.full
    <3>1. t \in snap'.turns \/ (~snap.full /\ LeftOut(t))
      BY <2>1, <2>5 DEF Transcript
    <3>2. LeftOut(t) => LeftOut(t)'
      BY LimitStays
    <3> QED BY <2>1, <2>5, <3>1, <3>2 DEF Unread
  <2> QED BY <1>10, <2>4, <2>5, ReadEffect
<1>11. CASE SnapshotSent
  <2>1. /\ conn = "read" /\ conn' = "sent" /\ turn'[t] = turn[t]
        /\ snap'.listed = snap.listed /\ snap'.read = snap.read /\ snap'.full = snap.full
        /\ snap.turns \subseteq turns'
    BY <1>11 DEF SnapshotSent, ShownSnapshot, TypeOK, Snapshot
  <2>2. ~Closed /\ ~Broadcast
    BY <2>1, <1>11 DEF SnapshotSent, Closed, Broadcast
  <2> QED BY <1>1, <1>2, <1>14, <2>1, <2>2 DEF Safe
<1>12. CASE Register
  <2>1. conn = "sent" /\ conn' = "registered" /\ turn'[t] = turn[t] /\ snap' = snap
    BY <1>12 DEF Register
  <2>2. ~Closed /\ ~Broadcast
    BY <2>1, <1>12 DEF Closed, Broadcast
  <2> QED BY <1>1, <1>2, <1>14, <2>1, <2>2
<1>13. CASE Broadcast
  <2>1. turn'[t] = turn[t] /\ snap' = snap /\ conn' \in {conn, "discarded"}
    BY <1>13 DEF Broadcast
  <2>2. ~Closed
    BY <1>13, OpenStays DEF Broadcast
  <2> QED BY <1>3, <2>1, <2>2
<1> QED BY <1>3, <1>4, <1>5, <1>6, <1>7, <1>8, <1>9, <1>10, <1>11, <1>12, <1>13, StepKinds


LEMMA EventsStep ==
  ASSUME TypeOK, NothingBefore, EventsCovered, [Next]_vars
  PROVE  EventsCovered'
<1> USE DEF callVars, publishVars, serverVars, clientVars, panelVars
<1> SUFFICES ASSUME NEW e \in Events, emitted'[e] = "published"
             PROVE  Pending(EventMsg(e))' \/ e \in events'.live
  BY DEF EventsCovered
<1>1. ASSUME NEW m \in Messages, Appends(m)
      PROVE  emitted[e] = "published" \/ Pending(EventMsg(e))'
  <2>1. CASE m = EventMsg(e)
    <3>1. Queued(m)' \/ m \in dropped'
      BY <1>1, <2>1, PublishQueued, MessageFacts DEF Appends
    <3> QED BY <2>1, <3>1 DEF Pending, Queued, EventMsg, Msg
  <2> QED BY <1>1, <2>1 DEF Appends
<1>2. emitted[e] = "published" \/ Pending(EventMsg(e))'
  <2>1. CASE CallChanges \/ CallChangesQuietly \/ Prepares \/ Idles \/ Opened \/ Closed
    BY <2>1 DEF CallChanges, CallChangesQuietly, Prepares, Idles, Opened, Closed
  <2>2. CASE SnapshotReads \/ SnapshotSent \/ SnapshotFails \/ Register \/ Broadcast
    BY <2>2 DEF SnapshotReads, SnapshotSent, SnapshotFails, Register, Broadcast
  <2> QED BY <1>1, <2>1, <2>2, StepKinds
<1>3. events.live \subseteq events'.live
  <2>1. CASE UNCHANGED events
    BY <2>1
  <2>2. CASE CallChanges \/ CallChangesQuietly \/ Prepares \/ Idles \/ Opened \/ Closed
    BY <2>1, <2>2 DEF CallChanges, CallChangesQuietly, Prepares, Idles, Opened, Closed
  <2>3. CASE SnapshotReads \/ SnapshotFails \/ Register
    BY <2>1, <2>3 DEF SnapshotReads, SnapshotFails, Register
  <2>4. CASE SnapshotSent
    BY <2>4 DEF SnapshotSent, ShownSnapshot, TypeOK
  <2>5. CASE Broadcast
    BY <2>5 DEF Broadcast, Shown, TypeOK
  <2>6. ASSUME NEW m \in Messages, Appends(m)  PROVE UNCHANGED events
    BY <2>6 DEF Appends
  <2> QED BY <2>1, <2>2, <2>3, <2>4, <2>5, <2>6, StepKinds
<1>4. CASE Broadcast /\ EventMsg(e) = Head(queue)
  <2>1. CASE Head(queue) \in missed'
    BY <1>4, <2>1 DEF Pending, EventMsg, Msg
  <2>2. CASE Shown(Head(queue))
    BY <1>4, <2>2, MessageFacts DEF Shown, TypeOK
  <2>3. Head(queue).kind = "event" /\ Lost(Head(queue)) = {Head(queue)}
    BY <1>4, MessageFacts DEF Lost
  <2> QED BY <1>4, <2>1, <2>2, <2>3 DEF Broadcast
<1>5. ASSUME Pending(EventMsg(e)), ~(Broadcast /\ EventMsg(e) = Head(queue))
      PROVE  Pending(EventMsg(e))'
  <2>1. \A x : Pending(x) /\ x.kind = "event" /\ ~(Broadcast /\ x = Head(queue)) => Pending(x)'
    BY PendingStays
  <2> QED BY <1>5, <2>1, MessageFacts DEF Pending, Queued, EventMsg, Msg
<1> QED BY <1>2, <1>3, <1>4, <1>5 DEF EventsCovered

----------------------------------------------------------------------------
(* The theorems.                                                           *)

LEMMA InitInv == Init => Inv
<1> SUFFICES ASSUME Init  PROVE Inv
  OBVIOUS
<1>1. Versions \in Nat \ {0} /\ QueueSize \in Nat \ {0} /\ MaxAttempts \in Nat
  BY DashboardAssumption
<1>2. NoSnapshot \in Snapshot
  BY <1>1 DEF NoSnapshot, Snapshot
<1>3. queue = <<>> /\ Len(queue) = 0 /\ queue \in Seq(Messages)
  BY DEF Init
<1>4. TypeOK
  <2>1. version \in 0..Versions /\ said \in 0..version /\ live \in BOOLEAN
    <3>1. version = 0 /\ said = 0 /\ live = FALSE
      BY Zenon DEF Init
    <3>2. live \in BOOLEAN
      BY <3>1, Zenon
    <3>3. version \in 0..Versions /\ said \in 0..version
      BY <1>1, <3>1
    <3> QED BY <3>2, <3>3, Zenon
  <2>2. row \in 0..Broken /\ attempt \in 0..MaxAttempts
    BY <1>1 DEF Init, NoRow, Broken
  <2> QED BY <1>1, <1>2, <1>3, <2>1, <2>2 DEF Init, TypeOK, ConnPC
<1>5. QueueSound /\ NothingBefore /\ StoredOnce /\ TurnsStored
  BY <1>3 DEF Init, QueueSound, NothingBefore, StoredOnce, TurnsStored, Queued, NoSnapshot
<1>6. SnapSound /\ EventsRead
  BY DEF Init, SnapSound, EventsRead, NoSnapshot
<1>7. RowSound
  BY DEF Init, RowSound, NoRow
<1>8. TurnsCovered /\ EventsCovered
  BY DEF Init, TurnsCovered, EventsCovered
<1> QED BY <1>4, <1>5, <1>6, <1>7, <1>8 DEF Inv

LEMMA InvHolds == Spec => []Inv
<1>1. Inv /\ [Next]_vars => Inv'
  BY TypeStep, QueueStep, NothingStep, StoredOnceStep, StoredStep, SnapStep, EventsReadStep,
     RowStep, TurnsStep, EventsStep
     DEF Inv
<1> QED BY <1>1, InitInv, PTL DEF Spec

\* The queue keeps to its bound and every variable to its type.
THEOREM TypeCorrect == Spec => []TypeOK
<1>1. Inv => TypeOK
  BY DEF Inv
<1> QED BY <1>1, InvHolds, PTL

\* A turn on the screen is in the database: it is published after its commit, and a
\* snapshot takes its turns from there.
THEOREM ShownTurnsStored == Spec => []ShownTurnsAreStored
<1>1. Inv => ShownTurnsAreStored
  BY DEF Inv, TurnsStored, ShownTurnsAreStored
<1> QED BY <1>1, InvHolds, PTL

\* A browser that got its snapshot catches up when the queue is drained, whatever was
\* published while it connected and whatever changed without a publish, except for what was
\* dropped, or broadcast before the registration and after the snapshot, and the older turns
\* and events of a call that had ended.
THEOREM CatchesUp == Spec => []CaughtUp
<1>1. Inv => CaughtUp
  <2> SUFFICES ASSUME Inv, conn = "registered", snap.sent, queue = <<>>
               PROVE  /\ \/ row \in said..version
                         \/ CallMsg(said) \in dropped
                         \/ CallMsg(said) \in missed /\ said > snap.call
                      /\ \A t \in Turns :
                           turn[t] = "published" =>
                             \/ t \in turns
                             \/ TurnMsg(t) \in dropped /\ t \notin snap.turns
                             \/ snap.listed /\ ~snap.read
                             \/ ~snap.full /\ LeftOut(t)
                             \/ TurnMsg(t) \in missed /\ t \notin snap.turns
                      /\ \A e \in Events :
                           emitted[e] = "published" =>
                             \/ e \in events.db \cup events.live
                             \/ ~snap.full /\ Cardinality(StoredEvents) > Limit
                             \/ EventMsg(e) \in dropped \cup missed /\ e \notin snap.written
    BY DEF CaughtUp
  <2>1. \A m : ~Queued(m)
    BY DEF Queued
  <2>2. /\ snap.turns \subseteq turns /\ snap.events \subseteq events.db
        /\ snap.written \subseteq snap.events \/ EventsCut
    BY DEF Inv, SnapSound, EventsRead
  <2>3. \/ row \in said..version \/ CallMsg(said) \in dropped
        \/ CallMsg(said) \in missed /\ said > snap.call
    BY <2>1 DEF Inv, RowSound
  <2>4. \A t \in Turns : turn[t] = "published" =>
          TurnMsg(t) \in dropped \cup missed \/ t \in turns \/ Unread(t)
    <3>1. \A t \in Turns : turn[t] = "published" => Pending(TurnMsg(t)) \/ t \in turns \/ Unread(t)
      BY DEF Inv, TurnsCovered
    <3> QED BY <2>1, <3>1 DEF Pending
  <2>5. \A e \in Events : emitted[e] = "published" =>
          EventMsg(e) \in dropped \cup missed \/ e \in events.live
    BY <2>1 DEF Inv, EventsCovered, Pending
  <2> QED BY <2>2, <2>3, <2>4, <2>5 DEF EventsCut, Unread
<1> QED BY <1>1, InvHolds, PTL

\* A row that cannot be rendered is one whose creation the browser has missed.
THEOREM BrokenRowMissed == Spec => []BrokenRowMissedCreation
<1>1. Inv => BrokenRowMissedCreation
  BY DEF Inv, RowSound, BrokenRowMissedCreation
<1> QED BY <1>1, InvHolds, PTL

\* The table goes back to an older state only by messages that were queued before its
\* snapshot was made.
THEOREM GoesBackToQueued == Spec => GoesBackOnlyToQueued
<1>1. ASSUME Inv, [Next]_vars, row' < row, row # Broken, snap.sent
      PROVE  row' # NoRow /\ row <= snap.call
  <2> USE DEF callVars, publishVars, serverVars, clientVars, panelVars
  <2>1. row \in 0..Broken /\ Broken \in Nat
    BY <1>1, DashboardAssumption DEF Inv, TypeOK, Broken
  <2>2. row' # row
    BY <1>1, <2>1
  <2>3. ~SnapshotSent
    BY <1>1 DEF Inv, SnapSound, SnapshotSent
  <2>4. \A m \in Messages : ~Appends(m)
    BY <2>2 DEF Appends
  <2>5. ~CallChanges /\ ~CallChangesQuietly /\ ~Prepares /\ ~Idles /\ ~Opened /\ ~Closed
    BY <2>2 DEF CallChanges, CallChangesQuietly, Prepares, Idles, Opened, Closed
  <2>6. ~SnapshotReads /\ ~SnapshotFails /\ ~Register
    BY <2>2 DEF SnapshotReads, SnapshotFails, Register
  <2>7. Broadcast
    BY <1>1, <2>3, <2>4, <2>5, <2>6, StepKinds DEF Inv
  <2>8. conn = "registered" /\ row' = RowAfter(Head(queue))
    BY <2>2, <2>7 DEF Broadcast, Shown
  <2>9. Head(queue) \in Messages /\ Head(queue) = queue[1] /\ 1 \in 1..Len(queue)
    BY <1>1, <2>7, PopEffect DEF Inv, Broadcast
  <2>10. Head(queue).kind = "call" /\ row' = Head(queue).n
    BY <1>1, <2>1, <2>2, <2>8 DEF RowAfter
  <2>11. row' \in 1..Versions
    BY <2>9, <2>10, MessageKinds
  <2>12. row <= snap.call \/ queue[1].n > row
    BY <1>1, <2>8, <2>9, <2>10 DEF Inv, RowSound
  <2> QED BY <1>1, <2>1, <2>9, <2>10, <2>11, <2>12 DEF NoRow
<1>2. Inv /\ [Next]_vars => [(row' < row /\ row # Broken /\ snap.sent)
                               => row' # NoRow /\ row <= snap.call]_vars
  BY <1>1
<1> QED BY <1>2, InvHolds, PTL DEF Spec, GoesBackOnlyToQueued
================================================================================
