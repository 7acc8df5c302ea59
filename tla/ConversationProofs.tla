-------------------------- MODULE ConversationProofs --------------------------
(***************************************************************************)
(* Proofs about Conversation, for any number of overlapping tool handlers, *)
(* any tools, limits and troubles: the tool lock serialises the handlers,  *)
(* the thresholds start one transfer, the response gate follows the        *)
(* server, and VERIFY is left by its own responses in turn only.           *)
(*                                                                         *)
(* Inv is the inductive invariant of the first two. The handlers' order    *)
(* needs the types: a handler that finishes leaves the head of the queue,  *)
(* which is a queue of tasks, and an event that arrives makes a task. The  *)
(* gate has an invariant of its own, about the order of unread events, and *)
(* VERIFY one about the calls made in it.                                  *)
(***************************************************************************)
EXTENDS Conversation, TLAPS

Jobs == [Tasks -> Job \cup {Idle}]

\* TypeOK by the groups of variables that handlers change together.
FsmTypes ==
  /\ phase \in Phases
  /\ turns \in Nat /\ (phase # "WRAP_UP" => turns < TurnLimit(phase))
  /\ called \subseteq OneCallTools
  /\ category \in Categories \cup {NoCategory}
  /\ known \in BOOLEAN
  /\ fresh \subseteq Tasks
  /\ runs \in [OneCallTools -> 0..2]

CallTypes ==
  /\ escalated \in BOOLEAN /\ referred \in BOOLEAN
  /\ failures \in 0..FailureLimit /\ frustration \in 0..FrustrationLimit
  /\ announcements \in 0..2

SocketTypes ==
  closing \in BOOLEAN /\ greeted \in BOOLEAN /\ ws \in {"up", "down", "closing", "closed"}

ServerTypes == inbox \in Seq(Event) /\ resp \in {"idle", "active"} /\ respPhase \in Phases

TaskTypes == ready \in BOOLEAN /\ lockQueue \in Seq(Tasks) /\ job \in Jobs /\ loop \in LoopPC

LEMMA TypeGroups == TypeOK <=> FsmTypes /\ CallTypes /\ SocketTypes /\ ServerTypes /\ TaskTypes
BY DEF TypeOK, FsmTypes, CallTypes, SocketTypes, ServerTypes, TaskTypes, Jobs

\* A threshold escalation is announced when it is marked, and only then.
AnnouncedWhenMarked == announcements = IF escalated THEN 1 ELSE 0

Inv == TypeOK /\ HandlersSerialised /\ AnnouncedWhenMarked

----------------------------------------------------------------------------
(* Static facts.                                                           *)

LEMMA Limits ==
  /\ \A p \in Phases : TurnLimit(p) \in Nat \ {0}
  /\ FailureLimit \in Nat \ {0} /\ FrustrationLimit \in Nat \ {0}
BY ConversationAssumption DEF TurnLimit, Phases

LEMMA Successors ==
  \A p \in Phases : /\ Successor(p) \in Phases \ {"GREETING"}
                    /\ p = "TRIAGE" => Successor(p) = "DIAGNOSE"
BY DEF Successor, Phases

LEMMA SaturatedType ==
  ASSUME NEW bound \in Nat, NEW n \in 0..bound
  PROVE  Saturated(n, bound) \in 0..bound
BY DEF Saturated

----------------------------------------------------------------------------
(* Tasks: where a handler is.                                              *)

\* Only the head of the lock's queue is anywhere else.
Waiting(j) == j.pc \in {"idle", "queued"}

LEMMA JobFacts ==
  /\ Idle.pc = "idle" /\ Idle \in Job \cup {Idle}
  /\ \A j \in Job \cup {Idle} : j.pc = "idle" <=> j = Idle
  /\ \A j \in Job \cup {Idle} : j # Idle => j \in Job
BY DEF Idle, Job, JobPC

LEMMA NextPC ==
  ASSUME NEW j \in Job, NEW p \in JobPC
  PROVE  /\ [j EXCEPT !.pc = p] \in Job
         /\ [j EXCEPT !.pc = p].pc = p
         /\ [j EXCEPT !.pc = p].tool = j.tool /\ [j EXCEPT !.pc = p].asked = j.asked
BY DEF Job

\* js holds the handlers of ks, each before or beyond the lock as it was there.
Alike(js, ks) ==
  \A t \in Tasks : /\ js[t].pc = "idle" <=> ks[t].pc = "idle"
                   /\ Waiting(js[t]) <=> Waiting(ks[t])
                   /\ js[t].tool = ks[t].tool /\ js[t].asked = ks[t].asked

LEMMA WokenAlike ==
  ASSUME NEW jobs \in Jobs
  PROVE  Woken(jobs) \in Jobs /\ Alike(Woken(jobs), jobs)
<1>1. ASSUME NEW t \in Tasks
      PROVE  /\ Woken(jobs)[t] \in Job \cup {Idle}
             /\ Woken(jobs)[t].pc = "idle" <=> jobs[t].pc = "idle"
             /\ Waiting(Woken(jobs)[t]) <=> Waiting(jobs[t])
             /\ Woken(jobs)[t].tool = jobs[t].tool /\ Woken(jobs)[t].asked = jobs[t].asked
  <2>1. jobs[t] \in Job \cup {Idle}
    BY DEF Jobs
  <2>2. CASE jobs[t].pc \in {"gate", "announce"}
    <3>1. jobs[t] \in Job
      BY <2>1, <2>2, JobFacts
    <3>2. PICK p \in {"open", "announced"} : Woken(jobs)[t] = [jobs[t] EXCEPT !.pc = p]
      BY <2>2 DEF Woken
    <3>3. p \in JobPC
      BY DEF JobPC
    <3>4. /\ Woken(jobs)[t] \in Job /\ Woken(jobs)[t].pc = p
          /\ Woken(jobs)[t].tool = jobs[t].tool /\ Woken(jobs)[t].asked = jobs[t].asked
      BY <3>1, <3>2, <3>3, NextPC
    <3>5. QED
      BY <2>2, <3>4 DEF Waiting
  <2>3. CASE jobs[t].pc \notin {"gate", "announce"}
    BY <2>1, <2>3 DEF Woken
  <2>4. QED
    BY <2>2, <2>3
<1>2. Woken(jobs) \in Jobs
  BY <1>1 DEF Woken, Jobs
<1>3. QED
  BY <1>1, <1>2 DEF Alike

LEMMA LoopWokenType == ASSUME NEW l \in LoopPC PROVE LoopWoken(l) \in LoopPC
BY DEF LoopWoken, LoopPC

LEMMA ReleaseType ==
  ASSUME NEW jobs \in Jobs, NEW t \in Tasks
  PROVE  /\ Release(jobs, t) \in Jobs
         /\ Release(jobs, t)[t].pc = "idle"
         /\ \A u \in Tasks : u # t => Release(jobs, t)[u] = jobs[u]
BY JobFacts DEF Release, Jobs

\* send_event("response.create") keeps the types and every handler's place.
LEMMA RequestKeeps ==
  ASSUME TypeOK, phase' \in Phases,
         NEW jobs \in Jobs, NEW l \in LoopPC, NEW q \in Seq(Event), RequestResponse(jobs, l, q)
  PROVE  /\ ready' \in BOOLEAN /\ job' \in Jobs /\ loop' \in LoopPC
         /\ ServerTypes'
         /\ Alike(job', jobs)
         /\ respPhase' \in {respPhase, phase'}
         /\ inbox' \in {q, Append(q, Notify("created"))}
<1>1. Notify("created") \in Event
  BY DEF Notify, Event, Notice
<1>2. Append(q, Notify("created")) \in Seq(Event)
  BY <1>1
<1>3. Alike(jobs, jobs)
  BY DEF Alike
<1>4. ready' \in BOOLEAN /\ job' \in {jobs, Woken(jobs)} /\ loop' \in {l, LoopWoken(l)}
  BY DEF RequestResponse
<1>5. /\ resp' \in {resp, "active"} /\ respPhase' \in {respPhase, phase'}
      /\ inbox' \in {q, Append(q, Notify("created"))}
  BY DEF RequestResponse
<1>6. QED
  BY <1>2, <1>3, <1>4, <1>5, WokenAlike, LoopWokenType DEF ServerTypes, TypeOK

----------------------------------------------------------------------------
(* The lock's queue.                                                       *)

LEMMA Pop ==
  ASSUME NEW q \in Seq(Tasks), q # <<>>,
         \A i, j \in DOMAIN q : q[i] = q[j] => i = j
  PROVE  /\ Tail(q) \in Seq(Tasks)
         /\ \A i, j \in DOMAIN Tail(q) : Tail(q)[i] = Tail(q)[j] => i = j
         /\ \A t \in Tasks : (\E i \in DOMAIN Tail(q) : Tail(q)[i] = t)
                             <=> t # Head(q) /\ \E i \in DOMAIN q : q[i] = t
<1>1. /\ Len(q) \in Nat \ {0} /\ DOMAIN q = 1..Len(q) /\ Head(q) = q[1]
      /\ Tail(q) \in Seq(Tasks) /\ Len(Tail(q)) = Len(q) - 1
      /\ DOMAIN Tail(q) = 1..(Len(q) - 1)
      /\ \A i \in 1..(Len(q) - 1) : Tail(q)[i] = q[i + 1]
  OBVIOUS
<1>2. ASSUME NEW i \in DOMAIN Tail(q), NEW j \in DOMAIN Tail(q), Tail(q)[i] = Tail(q)[j]
      PROVE  i = j
  <2>1. i + 1 \in DOMAIN q /\ j + 1 \in DOMAIN q /\ q[i + 1] = q[j + 1]
    BY <1>1, <1>2
  <2>2. QED
    BY <1>1, <2>1
<1>3. ASSUME NEW t \in Tasks, NEW i \in DOMAIN Tail(q), Tail(q)[i] = t
      PROVE  t # Head(q) /\ \E k \in DOMAIN q : q[k] = t
  <2>1. i + 1 \in DOMAIN q /\ 1 \in DOMAIN q /\ q[i + 1] = t /\ i + 1 # 1
    BY <1>1, <1>3
  <2>2. QED
    BY <1>1, <2>1
<1>4. ASSUME NEW t \in Tasks, t # Head(q), NEW i \in DOMAIN q, q[i] = t
      PROVE  \E k \in DOMAIN Tail(q) : Tail(q)[k] = t
  <2>1. i - 1 \in DOMAIN Tail(q) /\ Tail(q)[i - 1] = q[i]
    BY <1>1, <1>4
  <2>2. QED
    BY <1>4, <2>1
<1>5. QED
  BY <1>1, <1>2, <1>3, <1>4

LEMMA Push ==
  ASSUME NEW q \in Seq(Tasks), NEW t \in Tasks,
         \A i, j \in DOMAIN q : q[i] = q[j] => i = j,
         \A i \in DOMAIN q : q[i] # t
  PROVE  /\ Append(q, t) \in Seq(Tasks)
         /\ \A i, j \in DOMAIN Append(q, t) : Append(q, t)[i] = Append(q, t)[j] => i = j
         /\ \A u \in Tasks : (\E i \in DOMAIN Append(q, t) : Append(q, t)[i] = u)
                             <=> u = t \/ \E i \in DOMAIN q : q[i] = u
         /\ q # <<>> => Head(Append(q, t)) = Head(q)
<1>1. /\ Len(q) \in Nat /\ DOMAIN q = 1..Len(q)
      /\ Append(q, t) \in Seq(Tasks) /\ DOMAIN Append(q, t) = 1..(Len(q) + 1)
      /\ Append(q, t)[Len(q) + 1] = t
      /\ \A i \in 1..Len(q) : Append(q, t)[i] = q[i]
  OBVIOUS
<1>2. \A i \in 1..(Len(q) + 1) : i # Len(q) + 1 => i \in 1..Len(q)
  BY <1>1
<1>3. q # <<>> => Head(Append(q, t)) = Head(q)
  OBVIOUS
<1>4. ASSUME NEW i \in DOMAIN Append(q, t), NEW j \in DOMAIN Append(q, t),
             Append(q, t)[i] = Append(q, t)[j]
      PROVE  i = j
  BY <1>1, <1>2, <1>4
<1>5. ASSUME NEW u \in Tasks
      PROVE  (\E i \in DOMAIN Append(q, t) : Append(q, t)[i] = u)
               <=> u = t \/ \E i \in DOMAIN q : q[i] = u
  <2>1. Len(q) + 1 \in DOMAIN Append(q, t) /\ \A i \in DOMAIN q : i \in DOMAIN Append(q, t)
    BY <1>1
  <2>2. QED
    BY <1>1, <1>2, <2>1
<1>6. QED
  BY <1>1, <1>3, <1>4, <1>5

\* The same queue, and every handler where it was, or at the head.
LEMMA HandlersStay ==
  ASSUME Inv, lockQueue' = lockQueue, job' \in Jobs,
         \A u \in Tasks : /\ job'[u].pc = "idle" <=> job[u].pc = "idle"
                          /\ Waiting(job'[u]) \/ ~Waiting(job[u]) \/ u = Head(lockQueue)
  PROVE  HandlersSerialised'
<1>1. \A u \in Tasks : job[u] \in Job \cup {Idle} /\ job'[u] \in Job \cup {Idle}
  BY DEF Inv, TypeOK, Jobs
<1>2. \A u \in Tasks : job'[u] # Idle <=> job[u] # Idle
  BY <1>1, JobFacts
<1>3. QED
  BY <1>2 DEF Inv, HandlersSerialised, InQueue, Waiting

\* The holder of the lock finishes.
LEMMA HandlerLeaves ==
  ASSUME Inv, NEW t \in Tasks, lockQueue # <<>>, t = Head(lockQueue),
         lockQueue' = Tail(lockQueue), job' \in Jobs, Alike(job', Release(job, t))
  PROVE  HandlersSerialised'
<1>1. \A u \in Tasks : job[u] \in Job \cup {Idle} /\ job'[u] \in Job \cup {Idle}
  BY DEF Inv, TypeOK, Jobs
<1>2. job \in Jobs /\ lockQueue \in Seq(Tasks)
  BY DEF Inv, TypeOK, Jobs
<1>3. job'[t].pc = "idle"
      /\ \A u \in Tasks : u # t => /\ job'[u].pc = "idle" <=> job[u].pc = "idle"
                                   /\ Waiting(job'[u]) <=> Waiting(job[u])
  BY <1>2, ReleaseType DEF Alike
<1>4. job'[t] = Idle /\ \A u \in Tasks : u # t => (job'[u] # Idle <=> job[u] # Idle)
  BY <1>1, <1>3, JobFacts
<1>5. /\ \A i, j \in DOMAIN lockQueue' : lockQueue'[i] = lockQueue'[j] => i = j
      /\ \A u \in Tasks : InQueue(u)' <=> u # t /\ InQueue(u)
  BY <1>2, Pop DEF Inv, HandlersSerialised, InQueue
<1>6. \A u \in Tasks : Waiting(job'[u])
  BY <1>3 DEF Inv, HandlersSerialised, Waiting
<1>7. QED
  BY <1>4, <1>5, <1>6 DEF Inv, HandlersSerialised, Waiting

\* Whoever is beyond waiting for the lock holds it.
LEMMA Holder ==
  ASSUME Inv, NEW t \in Tasks, HoldsLock(t) \/ ~Waiting(job[t])
  PROVE  /\ lockQueue # <<>> /\ t = Head(lockQueue)
         /\ job[t] \in Job /\ job[t].pc # "idle"
<1>1. lockQueue \in Seq(Tasks) /\ job[t] \in Job \cup {Idle}
  BY DEF Inv, TypeOK
<1>2. CASE HoldsLock(t)
  <2>1. InQueue(t)
    <3>1. 1 \in DOMAIN lockQueue /\ lockQueue[1] = t
      BY <1>1, <1>2 DEF HoldsLock
    <3>2. QED
      BY <3>1 DEF InQueue
  <2>2. QED
    BY <1>1, <1>2, <2>1, JobFacts DEF Inv, HandlersSerialised, HoldsLock
<1>3. CASE ~Waiting(job[t])
  <2>1. job[t] # Idle /\ t = Head(lockQueue) /\ InQueue(t)
    BY <1>3, JobFacts DEF Inv, HandlersSerialised, Waiting
  <2>2. lockQueue # <<>>
    BY <2>1 DEF InQueue
  <2>3. QED
    BY <1>1, <2>1, <2>2, JobFacts
<1>4. QED
  BY <1>2, <1>3

\* The holder goes on to its next point of suspension.
LEMMA HolderMoves ==
  ASSUME Inv, NEW t \in Tasks, HoldsLock(t) \/ ~Waiting(job[t]), NEW p \in JobPC \ {"queued"}
  PROVE  /\ [job EXCEPT ![t].pc = p] \in Jobs
         /\ \A u \in Tasks :
              /\ [job EXCEPT ![t].pc = p][u].pc = "idle" <=> job[u].pc = "idle"
              /\ Waiting([job EXCEPT ![t].pc = p][u]) \/ ~Waiting(job[u]) \/ u = Head(lockQueue)
<1>1. job \in Jobs /\ job[t] \in Job /\ job[t].pc # "idle" /\ t = Head(lockQueue)
  BY Holder DEF Inv, TypeOK, Jobs
<1>2. /\ [job[t] EXCEPT !.pc = p] \in Job
      /\ [job[t] EXCEPT !.pc = p].pc = p
  BY <1>1, NextPC
<1>3. /\ [job EXCEPT ![t].pc = p][t] = [job[t] EXCEPT !.pc = p]
      /\ \A u \in Tasks : u # t => [job EXCEPT ![t].pc = p][u] = job[u]
      /\ DOMAIN [job EXCEPT ![t].pc = p] = Tasks
      /\ [job EXCEPT ![t].pc = p] = [u \in Tasks |-> [job EXCEPT ![t].pc = p][u]]
  BY <1>1 DEF Jobs
<1>4. p # "idle"
  BY DEF JobPC
<1>5. [job EXCEPT ![t].pc = p] \in Jobs
  BY <1>1, <1>2, <1>3 DEF Jobs
<1>6. QED
  BY <1>1, <1>2, <1>3, <1>4, <1>5

----------------------------------------------------------------------------
(* The types of what the state machine keeps.                              *)

LEMMA EnterType == ASSUME FsmTypes, NEW p \in Phases, Enter(p), UNCHANGED <<category, known>>
                   PROVE  FsmTypes'
BY Limits DEF FsmTypes, Enter, TurnLimit

LEMMA RecordType ==
  ASSUME FsmTypes, NEW t \in Tasks, NEW b, RecordToolCalled(t, b),
         UNCHANGED <<category, known>>
  PROVE  FsmTypes'
<1>1. \A n \in 0..2 : Saturated(n, 2) \in 0..2
  BY DEF Saturated
<1>2. runs' \in [OneCallTools -> 0..2]
  BY <1>1 DEF FsmTypes, RecordToolCalled
<1>3. QED
  BY <1>2 DEF FsmTypes, RecordToolCalled, TurnLimit

LEMMA FsmSame == ASSUME FsmTypes, UNCHANGED fsmVars PROVE FsmTypes'
BY DEF FsmTypes, fsmVars, TurnLimit

LEMMA FsmTask == ASSUME Inv, NEW t \in Tasks, TaskStep(t) PROVE FsmTypes'
<1>1. FsmTypes
  BY TypeGroups DEF Inv
<1>2. CASE UNCHANGED fsmVars
  BY <1>1, <1>2, FsmSame
<1>3. CASE CompletePhase(t)
  <2>1. category' \in Categories \cup {NoCategory}
    BY <1>1, <1>3 DEF CompletePhase, CategoryAfter, FsmTypes
  <2>2. Successor(phase) \in Phases
    BY <1>1, Successors DEF FsmTypes
  <2>3. QED
    BY <1>1, <1>3, <2>1, <2>2, Limits DEF CompletePhase, Enter, FsmTypes, TurnLimit
<1>4. CASE StayInPhase /\ UNCHANGED <<category, known>>
  BY <1>2, <1>4 DEF StayInPhase, fsmVars
<1>5. CASE ReportNewIssue(t)
  BY <1>1, <1>4, <1>5, EnterType DEF ReportNewIssue, Phases
<1>6. CASE Dispatch(t)
  BY <1>1, <1>6 DEF Dispatch, FsmTypes, TurnLimit
<1>7. ASSUME NEW b, RecordToolCalled(t, b), UNCHANGED <<category, known>>
      PROVE  FsmTypes'
  BY <1>1, <1>7, RecordType
<1>8. CASE BlockedTool(t) \/ ToolReturns(t)
  BY <1>7, <1>8 DEF BlockedTool, ToolReturns, Reply, Escalate
<1>9. CASE TransferReturns(t)
  BY <1>7, <1>9 DEF TransferReturns
<1>10. CASE ToolFails(t) \/ TransferFails(t)
  <2>1. fresh' \subseteq Tasks /\ UNCHANGED <<phase, turns, called, runs, category, known>>
    BY <1>1, <1>10 DEF ToolFails, TransferFails, Reply, Escalate, FsmTypes
  <2>2. QED
    BY <1>1, <2>1 DEF FsmTypes, TurnLimit
<1>11. QED
  BY <1>2, <1>3, <1>4, <1>5, <1>6, <1>8, <1>9, <1>10
     DEF TaskStep, WaitForResponse, CompleteWrapUp, AfterWrapUp, WaitForUser, RejectDuplicate,
         ReferAccepted, ReferFails, AfterTransfer

LEMMA FsmLoop == ASSUME Inv, LoopStep PROVE FsmTypes'
<1>1. FsmTypes
  BY TypeGroups DEF Inv
<1>2. CASE UNCHANGED fsmVars
  BY <1>1, <1>2, FsmSame
<1>3. CASE StayInPhase /\ UNCHANGED <<category, known>>
  BY <1>2, <1>3 DEF StayInPhase, fsmVars
<1>4. CASE OnResponseDone
  <2>1. turns' \in Nat /\ turns' < TurnLimit(phase)
    BY <1>1, <1>4, Limits DEF OnResponseDone, LimitReached, FsmTypes
  <2>2. QED
    BY <1>1, <1>4, <2>1 DEF OnResponseDone, FsmTypes, TurnLimit
<1>5. CASE AutoAdvance
  BY <1>1, <1>5, EnterType, Successors DEF AutoAdvance, FsmTypes
<1>6. CASE AutoEnd
  BY <1>1, <1>6 DEF AutoEnd, FsmTypes
<1>7. CASE Reconnect
  BY <1>1, <1>7, EnterType DEF Reconnect, FsmTypes
<1>8. QED
  BY <1>2, <1>3, <1>4, <1>5, <1>6, <1>7
     DEF LoopStep, OnSessionUpdated, OnResponseCreated, OnFunctionCall, OnMalformedCall,
         OnFrustration, LoopReferAccepted, LoopReferFails, LoopAfterClose, LoopEnds,
         LoopSeesDrop, GiveUp

LEMMA FsmStep == ASSUME Inv, [Next]_vars PROVE FsmTypes'
<1>1. ASSUME UNCHANGED fsmVars PROVE FsmTypes'
  BY <1>1, FsmSame, TypeGroups DEF Inv
<1>2. CASE UNCHANGED vars
  BY <1>1, <1>2 DEF vars
<1>3. ASSUME NEW t \in Tasks, TaskStep(t) \/ WaitTimesOut(t) PROVE FsmTypes'
  BY <1>1, <1>3, FsmTask DEF WaitTimesOut
<1>4. CASE LoopStep \/ LoopWaitTimesOut
  BY <1>1, <1>4, FsmLoop DEF LoopWaitTimesOut
<1>5. CASE ServerStep \/ CloseHandshake \/ CallOver
  BY <1>1, <1>2, <1>5
     DEF ServerStep, CallerSpeaks, ServerCallsTool, ServerEndsResponse, ServerNotice,
         SocketDrops, ServerCloses, CloseHandshake, CallOver
<1>6. QED
  BY <1>2, <1>3, <1>4, <1>5 DEF Next

----------------------------------------------------------------------------
(* The counters, and the mark of a threshold escalation.                   *)

Counted == CallTypes /\ AnnouncedWhenMarked

LEMMA CountedSame == ASSUME Counted, UNCHANGED callVars PROVE Counted'
BY DEF Counted, CallTypes, AnnouncedWhenMarked, callVars

LEMMA CountedRefer ==
  ASSUME Counted, referred' \in {referred, TRUE},
         UNCHANGED <<failures, frustration, escalated, announcements>>
  PROVE  Counted'
BY DEF Counted, CallTypes, AnnouncedWhenMarked

LEMMA CountedRise ==
  ASSUME Counted, failures' \in {failures, Saturated(failures, FailureLimit)},
         frustration' \in {frustration, Saturated(frustration, FrustrationLimit)},
         referred' \in {referred, TRUE},
         \/ UNCHANGED <<escalated, announcements>>
         \/ ShouldEscalate /\ BeginEscalation
  PROVE  Counted'
<1>1. /\ failures \in 0..FailureLimit /\ frustration \in 0..FrustrationLimit
      /\ FailureLimit \in Nat /\ FrustrationLimit \in Nat
  BY Limits DEF Counted, CallTypes
<1>2. failures' \in 0..FailureLimit /\ frustration' \in 0..FrustrationLimit
  BY <1>1, SaturatedType
<1>3. escalated' \in BOOLEAN /\ announcements' \in 0..2 /\ AnnouncedWhenMarked'
  <2>1. CASE UNCHANGED <<escalated, announcements>>
    BY <2>1 DEF Counted, CallTypes, AnnouncedWhenMarked
  <2>2. CASE ShouldEscalate /\ BeginEscalation
    <3>1. announcements = 0
      BY <2>2 DEF Counted, AnnouncedWhenMarked, ShouldEscalate
    <3>2. escalated' = TRUE /\ announcements' = 1
      BY <2>2, <3>1 DEF BeginEscalation, Saturated
    <3>3. QED
      BY <3>2 DEF AnnouncedWhenMarked
  <2>3. QED
    BY <2>1, <2>2
<1>4. QED
  BY <1>2, <1>3 DEF Counted, CallTypes

LEMMA CountedTask == ASSUME Inv, NEW t \in Tasks, TaskStep(t) PROVE Counted'
<1>1. Counted
  BY TypeGroups DEF Inv, Counted
<1>2. CASE UNCHANGED callVars
  BY <1>1, <1>2, CountedSame
<1>3. CASE BlockedTool(t) \/ ToolReturns(t) \/ ToolFails(t) \/ TransferFails(t)
  <2>1. /\ failures' \in {failures, Saturated(failures, FailureLimit)}
        /\ frustration' = frustration /\ referred' \in {referred, TRUE}
    BY <1>3 DEF BlockedTool, ToolReturns, ToolFails, TransferFails, Reply, Escalate
  <2>2. UNCHANGED <<escalated, announcements>> \/ (ShouldEscalate /\ BeginEscalation)
    BY <1>3 DEF BlockedTool, ToolReturns, ToolFails, TransferFails, Reply, Escalate
  <2>3. QED
    BY <1>1, <2>1, <2>2, CountedRise
<1>4. CASE TransferReturns(t) \/ ReferAccepted(t)
  BY <1>1, <1>4, CountedRefer DEF TransferReturns, ReferAccepted
<1>5. QED
  BY <1>2, <1>3, <1>4
     DEF TaskStep, WaitForResponse, CompletePhase, CompleteWrapUp, AfterWrapUp, WaitForUser,
         ReportNewIssue, RejectDuplicate, Dispatch, ReferFails, AfterTransfer

LEMMA CountedStep == ASSUME Inv, [Next]_vars PROVE Counted'
<1>1. Counted
  BY TypeGroups DEF Inv, Counted
<1>2. CASE UNCHANGED callVars
  BY <1>1, <1>2, CountedSame
<1>3. ASSUME NEW t \in Tasks, TaskStep(t) \/ WaitTimesOut(t) PROVE Counted'
  BY <1>2, <1>3, CountedTask DEF WaitTimesOut
<1>4. CASE OnFrustration
  BY <1>1, <1>4, CountedRise DEF OnFrustration
<1>5. CASE LoopReferAccepted
  BY <1>1, <1>5, CountedRefer DEF LoopReferAccepted
<1>6. CASE LoopStep \/ LoopWaitTimesOut
  BY <1>2, <1>4, <1>5, <1>6
     DEF LoopStep, LoopWaitTimesOut, OnSessionUpdated, OnResponseCreated, OnResponseDone,
         AutoAdvance, AutoEnd, OnFunctionCall, OnMalformedCall, LoopReferFails, LoopAfterClose,
         LoopEnds, LoopSeesDrop, Reconnect, GiveUp
<1>7. CASE ServerStep \/ CloseHandshake \/ CallOver \/ UNCHANGED vars
  BY <1>2, <1>7
     DEF ServerStep, CallerSpeaks, ServerCallsTool, ServerEndsResponse, ServerNotice,
         SocketDrops, ServerCloses, CloseHandshake, CallOver, vars
<1>8. QED
  BY <1>3, <1>6, <1>7 DEF Next

----------------------------------------------------------------------------
(* The socket.                                                             *)

LEMMA SocketStep == ASSUME Inv, [Next]_vars PROVE SocketTypes'
<1>1. SocketTypes
  BY TypeGroups DEF Inv
<1>2. CASE UNCHANGED sockVars
  BY <1>1, <1>2 DEF SocketTypes, sockVars
<1>3. CASE CloseSocket /\ UNCHANGED greeted
  BY <1>1, <1>3 DEF SocketTypes, CloseSocket
<1>4. ASSUME NEW t \in Tasks, TaskStep(t) \/ WaitTimesOut(t) PROVE SocketTypes'
  BY <1>2, <1>3, <1>4
     DEF TaskStep, WaitTimesOut, WaitForResponse, CompletePhase, CompleteWrapUp, AfterWrapUp,
         WaitForUser, ReportNewIssue, RejectDuplicate, Dispatch, BlockedTool, ToolReturns,
         ToolFails, Reply, Escalate, TransferReturns, TransferFails, ReferAccepted, ReferFails,
         AfterTransfer
<1>5. CASE LoopStep \/ LoopWaitTimesOut
  BY <1>1, <1>2, <1>3, <1>5
     DEF SocketTypes, LoopStep, LoopWaitTimesOut, OnSessionUpdated, OnResponseCreated,
         OnResponseDone, AutoAdvance, AutoEnd, OnFunctionCall, OnMalformedCall, OnFrustration,
         LoopReferAccepted, LoopReferFails, LoopAfterClose, LoopEnds, LoopSeesDrop, Reconnect,
         GiveUp
<1>6. CASE ServerStep \/ CloseHandshake \/ CallOver \/ UNCHANGED vars
  BY <1>1, <1>2, <1>6
     DEF SocketTypes, ServerStep, CallerSpeaks, ServerCallsTool, ServerEndsResponse,
         ServerNotice, SocketDrops, ServerCloses, CloseHandshake, CallOver, vars
<1>7. QED
  BY <1>4, <1>5, <1>6 DEF Next

----------------------------------------------------------------------------
(* The handlers, the event loop and the events.                            *)

Ordered == TaskTypes /\ ServerTypes /\ HandlersSerialised

\* Every handler of jobs is where it is now, or at the head of the queue.
InPlace(jobs) ==
  \A u \in Tasks : /\ jobs[u].pc = "idle" <=> job[u].pc = "idle"
                   /\ Waiting(jobs[u]) \/ ~Waiting(job[u]) \/ u = Head(lockQueue)

LEMMA OrderedStays ==
  ASSUME Inv, NEW jobs \in Jobs, job' = jobs, InPlace(jobs), lockQueue' = lockQueue,
         ready' \in BOOLEAN, loop' \in LoopPC, ServerTypes'
  PROVE  Ordered'
<1>1. HandlersSerialised'
  BY HandlersStay DEF InPlace
<1>2. TaskTypes'
  BY DEF TaskTypes, Inv, TypeOK
<1>3. QED
  BY <1>1, <1>2 DEF Ordered

LEMMA OrderedRequest ==
  ASSUME Inv, phase' \in Phases, NEW jobs \in Jobs, InPlace(jobs), NEW l \in LoopPC,
         NEW q \in Seq(Event), RequestResponse(jobs, l, q), lockQueue' = lockQueue
  PROVE  Ordered'
<1>1. /\ ready' \in BOOLEAN /\ job' \in Jobs /\ loop' \in LoopPC /\ ServerTypes'
      /\ Alike(job', jobs)
  BY RequestKeeps DEF Inv
<1>2. \A u \in Tasks : /\ job'[u].pc = "idle" <=> job[u].pc = "idle"
                       /\ Waiting(job'[u]) \/ ~Waiting(job[u]) \/ u = Head(lockQueue)
  BY <1>1 DEF Alike, InPlace
<1>3. HandlersSerialised'
  BY <1>1, <1>2, HandlersStay
<1>4. TaskTypes'
  BY <1>1 DEF TaskTypes, Inv, TypeOK
<1>5. QED
  BY <1>1, <1>3, <1>4 DEF Ordered

LEMMA OrderedLeaves ==
  ASSUME Inv, phase' \in Phases, NEW t \in Tasks, HoldsLock(t) \/ ~Waiting(job[t]),
         lockQueue' = Tail(lockQueue),
         \/ RequestResponse(Release(job, t), loop, inbox)
         \/ job' = Release(job, t) /\ UNCHANGED <<serverVars, ready, loop>>
  PROVE  Ordered'
<1>1. job \in Jobs /\ loop \in LoopPC /\ inbox \in Seq(Event) /\ lockQueue \in Seq(Tasks)
      /\ ready \in BOOLEAN /\ ServerTypes
  BY DEF Inv, TypeOK, Jobs, ServerTypes
<1>2. lockQueue # <<>> /\ t = Head(lockQueue)
  BY Holder
<1>3. Release(job, t) \in Jobs /\ Alike(Release(job, t), Release(job, t))
  BY <1>1, ReleaseType DEF Alike
<1>4. /\ ready' \in BOOLEAN /\ job' \in Jobs /\ loop' \in LoopPC /\ ServerTypes'
      /\ Alike(job', Release(job, t))
  <2>1. CASE RequestResponse(Release(job, t), loop, inbox)
    BY <1>1, <1>3, <2>1, RequestKeeps DEF Inv
  <2>2. CASE job' = Release(job, t) /\ UNCHANGED <<serverVars, ready, loop>>
    BY <1>1, <1>3, <2>2 DEF ServerTypes, serverVars
  <2>3. QED
    BY <2>1, <2>2
<1>5. HandlersSerialised'
  BY <1>2, <1>4, HandlerLeaves
<1>6. lockQueue' \in Seq(Tasks)
  BY <1>1, <1>2
<1>7. QED
  BY <1>4, <1>5, <1>6 DEF Ordered, TaskTypes

LEMMA OrderedMoves ==
  ASSUME Inv, NEW t \in Tasks, HoldsLock(t) \/ ~Waiting(job[t]), NEW p \in JobPC \ {"queued"},
         job' = [job EXCEPT ![t].pc = p], UNCHANGED <<lockQueue, ready, loop, inbox, respPhase>>,
         resp' \in {resp, "idle"}
  PROVE  Ordered'
<1>1. [job EXCEPT ![t].pc = p] \in Jobs /\ InPlace([job EXCEPT ![t].pc = p])
  BY HolderMoves DEF InPlace
<1>2. ready' \in BOOLEAN /\ loop' \in LoopPC /\ ServerTypes'
  BY DEF Inv, TypeOK, ServerTypes
<1>3. QED
  BY <1>1, <1>2, OrderedStays

LEMMA OrderedEscalate ==
  ASSUME Inv, phase' \in Phases, NEW t \in Tasks, HoldsLock(t) \/ ~Waiting(job[t]), Escalate(t)
  PROVE  Ordered'
<1>1. CASE job' = [job EXCEPT ![t].pc = "announced"] /\ UNCHANGED <<ready, loop, serverVars>>
  BY <1>1, OrderedMoves DEF Escalate, JobPC, serverVars
<1>2. CASE RequestResponse([job EXCEPT ![t].pc = "announce"], loop, inbox)
  <2>1. /\ [job EXCEPT ![t].pc = "announce"] \in Jobs
        /\ InPlace([job EXCEPT ![t].pc = "announce"])
    BY HolderMoves DEF InPlace, JobPC
  <2>2. loop \in LoopPC /\ inbox \in Seq(Event)
    BY DEF Inv, TypeOK
  <2>3. QED
    BY <1>2, <2>1, <2>2, OrderedRequest DEF Escalate
<1>3. QED
  BY <1>1, <1>2 DEF Escalate

\* A task waits for the response to be done, having looked for a duplicate.
LEMMA OrderedWait == ASSUME Inv, NEW t \in Tasks, WaitForResponse(t) PROVE Ordered'
<1> DEFINE j == [job[t] EXCEPT !.pc = "gate", !.dup = IsDuplicate(t)]
           jobs == [job EXCEPT ![t] = j]
<1>1. job \in Jobs /\ job[t] \in Job /\ job[t].pc # "idle" /\ t = Head(lockQueue)
  BY Holder DEF WaitForResponse, Inv, TypeOK, Jobs
<1>2. IsDuplicate(t) \in BOOLEAN
  BY DEF WaitForResponse, IsDuplicate
<1>3. j \in Job /\ j.pc = "gate"
  BY <1>1, <1>2 DEF Job, JobPC
<1>4. jobs \in Jobs /\ jobs[t] = j /\ \A u \in Tasks : u # t => jobs[u] = job[u]
  BY <1>1, <1>3 DEF Jobs
<1>5. job' = jobs
  BY DEF WaitForResponse
<1>6. InPlace(jobs)
  BY <1>1, <1>3, <1>4 DEF InPlace
<1>7. ready' \in BOOLEAN /\ loop' \in LoopPC /\ ServerTypes' /\ lockQueue' = lockQueue
  BY DEF WaitForResponse, Inv, TypeOK, ServerTypes, serverVars
<1>8. QED
  BY <1>4, <1>5, <1>6, <1>7, OrderedStays

LEMMA OrderedTask == ASSUME Inv, phase' \in Phases, NEW t \in Tasks, TaskStep(t) PROVE Ordered'
<1>1. ASSUME HoldsLock(t) \/ ~Waiting(job[t]), lockQueue' = Tail(lockQueue),
             \/ RequestResponse(Release(job, t), loop, inbox)
             \/ job' = Release(job, t) /\ UNCHANGED <<serverVars, ready, loop>>
      PROVE  Ordered'
  BY <1>1, OrderedLeaves
<1>2. ASSUME HoldsLock(t) \/ ~Waiting(job[t]), NEW p \in {"dispatch", "closing"},
             job' = [job EXCEPT ![t].pc = p],
             UNCHANGED <<lockQueue, ready, loop, inbox, respPhase>>, resp' \in {resp, "idle"}
      PROVE  Ordered'
  BY <1>2, OrderedMoves DEF JobPC
<1>3. CASE WaitForResponse(t)
  BY <1>3, OrderedWait
<1>4. CASE CompletePhase(t) \/ AfterWrapUp(t) \/ WaitForUser(t) \/ ReportNewIssue(t)
             \/ RejectDuplicate(t) \/ TransferFails(t) \/ ReferFails(t) \/ AfterTransfer(t)
  BY <1>1, <1>4
     DEF CompletePhase, AfterWrapUp, WaitForUser, ReportNewIssue, RejectDuplicate, TransferFails,
         ReferFails, AfterTransfer, Unblocked, Waiting
<1>5. CASE CompleteWrapUp(t) \/ Dispatch(t) \/ TransferReturns(t) \/ ReferAccepted(t)
  BY <1>2, <1>5
     DEF CompleteWrapUp, Dispatch, Dispatchable, TransferReturns, ReferAccepted, CloseSocket,
         Unblocked, Waiting, serverVars
<1>6. CASE BlockedTool(t) \/ ToolReturns(t) \/ ToolFails(t)
  <2>1. HoldsLock(t) \/ ~Waiting(job[t])
    BY <1>6 DEF BlockedTool, Dispatchable, Unblocked, ToolReturns, ToolFails, Waiting
  <2>2. Reply(t) \/ Escalate(t)
    BY <1>6 DEF BlockedTool, ToolReturns, ToolFails
  <2>3. QED
    BY <1>1, <2>1, <2>2, OrderedEscalate DEF Reply
<1>7. QED
  BY <1>3, <1>4, <1>5, <1>6 DEF TaskStep

\* The event loop and the timeouts leave each handler in its place or wake it.
LEMMA OrderedWakes ==
  ASSUME Inv, lockQueue' = lockQueue, job' \in {job, Woken(job)}, ready' \in BOOLEAN,
         loop' \in LoopPC, ServerTypes'
  PROVE  Ordered'
<1>1. job \in Jobs
  BY DEF Inv, TypeOK, Jobs
<1>2. job' \in Jobs /\ InPlace(job')
  BY <1>1, WokenAlike DEF InPlace, Alike
<1>3. PICK jobs \in Jobs : job' = jobs /\ InPlace(jobs)
  BY <1>2
<1>4. QED
  BY <1>3, OrderedStays

\* The event at the head has been read.
LEMMA RestOfInbox ==
  ASSUME Inv, inbox # <<>>
  PROVE  /\ Tail(inbox) \in Seq(Event)
         /\ Head(inbox) \in Event
         /\ Head(inbox).kind = "call" => Head(inbox) \in Call
<1>1. Tail(inbox) \in Seq(Event) /\ Head(inbox) \in Event
  BY DEF Inv, TypeOK
<1>2. QED
  BY <1>1 DEF Event, Notice

\* A function call makes a task, which joins the queue.
LEMMA OrderedCall == ASSUME Inv, OnFunctionCall PROVE Ordered'
<1>1. inbox # <<>> /\ Head(inbox).kind = "call" /\ inbox' = Tail(inbox)
      /\ UNCHANGED <<resp, respPhase, ready, loop>>
  BY DEF OnFunctionCall, Receive
<1>2. PICK t \in Tasks :
        /\ job[t] = Idle
        /\ job' = [job EXCEPT ![t] = [pc |-> "queued", tool |-> Head(inbox).tool,
                                      cat |-> Head(inbox).cat, asked |-> Head(inbox).asked,
                                      dup |-> FALSE]]
        /\ lockQueue' = Append(lockQueue, t)
  BY DEF OnFunctionCall
<1>3. Head(inbox) \in Call /\ Tail(inbox) \in Seq(Event)
  BY <1>1, RestOfInbox
<1>4. PICK j \in Job : j.pc = "queued" /\ job' = [job EXCEPT ![t] = j]
  <2>1. [pc |-> "queued", tool |-> Head(inbox).tool, cat |-> Head(inbox).cat,
         asked |-> Head(inbox).asked, dup |-> FALSE] \in Job
    BY <1>3 DEF Call, Job, JobPC
  <2>2. QED
    BY <1>2, <2>1
<1>5. job \in Jobs /\ lockQueue \in Seq(Tasks)
  BY DEF Inv, TypeOK, Jobs
<1>6. job' \in Jobs /\ job'[t] = j /\ \A u \in Tasks : u # t => job'[u] = job[u]
  BY <1>4, <1>5 DEF Jobs
<1>7. TaskTypes' /\ ServerTypes'
  BY <1>1, <1>2, <1>3, <1>5, <1>6 DEF TaskTypes, ServerTypes, Inv, TypeOK
<1>8. ~InQueue(t)
  BY <1>2 DEF Inv, HandlersSerialised
<1>9. /\ \A i, k \in DOMAIN lockQueue' : lockQueue'[i] = lockQueue'[k] => i = k
      /\ \A u \in Tasks : InQueue(u)' <=> u = t \/ InQueue(u)
      /\ lockQueue # <<>> => Head(lockQueue') = Head(lockQueue)
  BY <1>2, <1>5, <1>8, Push DEF Inv, HandlersSerialised, InQueue
<1>10. job'[t] # Idle
  BY <1>4, <1>6, JobFacts
<1>11. \A u \in Tasks : job'[u] # Idle <=> InQueue(u)'
  BY <1>6, <1>9, <1>10 DEF Inv, HandlersSerialised
<1>12. ASSUME NEW u \in Tasks, ~Waiting(job'[u]) PROVE u = Head(lockQueue')
  <2>1. u # t /\ ~Waiting(job[u])
    BY <1>4, <1>6, <1>12 DEF Waiting
  <2>2. QED
    BY <1>9, <2>1, Holder
<1>13. HandlersSerialised'
  BY <1>9, <1>11, <1>12 DEF HandlersSerialised, Waiting
<1>14. QED
  BY <1>7, <1>13 DEF Ordered

LEMMA OrderedLoop == ASSUME Inv, phase' \in Phases, LoopStep PROVE Ordered'
<1>1. /\ ready \in BOOLEAN /\ loop \in LoopPC /\ ServerTypes /\ job \in Jobs /\ InPlace(job)
  BY DEF Inv, TypeOK, ServerTypes, Jobs, InPlace
<1>2. <<>> \in Seq(Event) /\ <<Notify("updated")>> \in Seq(Event)
      /\ {"recv", "announce", "closing", "backoff", "ended"} \subseteq LoopPC
  BY DEF Notify, Event, Notice, LoopPC
<1>3. CASE OnSessionUpdated \/ OnFrustration
  <2>1. Tail(inbox) \in Seq(Event)
    BY <1>3, RestOfInbox DEF OnSessionUpdated, OnFrustration, Receive
  <2>2. CASE inbox' = Tail(inbox) /\ UNCHANGED <<ready, job, loop, resp, respPhase>>
    BY <1>1, <1>3, <2>1, <2>2, OrderedWakes DEF OnSessionUpdated, OnFrustration, ServerTypes
  <2>3. CASE \/ RequestResponse(job, loop, Tail(inbox))
             \/ RequestResponse(job, "announce", Tail(inbox))
    BY <1>1, <1>2, <1>3, <2>1, <2>3, OrderedRequest DEF OnSessionUpdated, OnFrustration
  <2>4. QED
    BY <1>3, <2>2, <2>3 DEF OnSessionUpdated, OnFrustration
<1>4. CASE OnFunctionCall
  BY <1>4, OrderedCall
<1>5. CASE OnResponseCreated \/ OnResponseDone \/ AutoAdvance \/ AutoEnd
  <2>1. Tail(inbox) \in Seq(Event)
    BY <1>5, RestOfInbox DEF OnResponseCreated, OnResponseDone, AutoAdvance, AutoEnd, Receive
  <2>2. QED
    BY <1>1, <1>2, <1>5, <2>1, OrderedWakes
       DEF OnResponseCreated, OnResponseDone, AutoAdvance, AutoEnd, CloseSocket, ServerTypes
<1>6. CASE OnMalformedCall \/ LoopReferAccepted \/ LoopReferFails \/ LoopAfterClose
             \/ LoopEnds \/ LoopSeesDrop \/ Reconnect \/ GiveUp
  BY <1>1, <1>2, <1>6, OrderedWakes
     DEF OnMalformedCall, LoopReferAccepted, LoopReferFails, LoopAfterClose, LoopEnds,
         LoopSeesDrop, Reconnect, GiveUp, CloseSocket, ServerTypes, serverVars
<1>7. QED
  BY <1>3, <1>4, <1>5, <1>6 DEF LoopStep

LEMMA OrderedServer == ASSUME Inv, ServerStep \/ CloseHandshake PROVE Ordered'
<1>1. ready \in BOOLEAN /\ loop \in LoopPC /\ ServerTypes /\ phase \in Phases
  BY DEF Inv, TypeOK, ServerTypes
<1>2. CASE CallerSpeaks \/ ServerEndsResponse \/ ServerNotice("frustrated", "frustration")
             \/ ServerNotice("malformed", "malformed")
  <2>1. PICK kind \in {"created", "done", "frustrated", "malformed"} :
          inbox' = Append(inbox, Notify(kind))
    BY <1>2 DEF CallerSpeaks, ServerEndsResponse, ServerNotice
  <2>2. Notify(kind) \in Event
    BY DEF Notify, Event, Notice
  <2>3. inbox' \in Seq(Event)
    BY <1>1, <2>1, <2>2 DEF ServerTypes
  <2>4. QED
    BY <1>1, <1>2, <2>3, OrderedWakes
       DEF CallerSpeaks, ServerEndsResponse, ServerNotice, ServerTypes
<1>3. CASE ServerCallsTool
  <2>1. PICK tool \in Offered(respPhase), cat \in Categories \cup {NoCategory} :
          inbox' = Append(inbox, [kind |-> "call", tool |-> tool, cat |-> cat, asked |-> respPhase])
    BY <1>3 DEF ServerCallsTool
  <2>2. tool \in Tools
    BY DEF Offered
  <2>3. [kind |-> "call", tool |-> tool, cat |-> cat, asked |-> respPhase] \in Event
    BY <1>1, <2>2 DEF ServerTypes, Event, Call
  <2>4. inbox' \in Seq(Event)
    BY <1>1, <2>1, <2>3 DEF ServerTypes
  <2>5. QED
    BY <1>1, <1>3, <2>4, OrderedWakes DEF ServerCallsTool, ServerTypes
<1>4. CASE SocketDrops \/ ServerCloses \/ CloseHandshake
  <2>1. inbox' \in {inbox, <<>>} /\ <<>> \in Seq(Event)
    BY <1>4 DEF SocketDrops, ServerCloses, CloseHandshake, serverVars
  <2>2. QED
    BY <1>1, <1>4, <2>1, OrderedWakes
       DEF SocketDrops, ServerCloses, CloseHandshake, ServerTypes, serverVars
<1>5. QED
  BY <1>2, <1>3, <1>4 DEF ServerStep

LEMMA OrderedStep == ASSUME Inv, [Next]_vars PROVE Ordered'
<1>1. phase' \in Phases
  BY FsmStep DEF FsmTypes
<1>2. ready \in BOOLEAN /\ loop \in LoopPC /\ ServerTypes
  BY DEF Inv, TypeOK, ServerTypes
<1>3. ASSUME NEW t \in Tasks, TaskStep(t) \/ WaitTimesOut(t) PROVE Ordered'
  <2>1. CASE WaitTimesOut(t)
    BY <1>2, <2>1, LoopWokenType, OrderedWakes DEF WaitTimesOut, ServerTypes, serverVars
  <2>2. QED
    BY <1>1, <1>3, <2>1, OrderedTask
<1>4. CASE LoopWaitTimesOut
  BY <1>2, <1>4, OrderedWakes DEF LoopWaitTimesOut, LoopPC, ServerTypes, serverVars
<1>5. CASE UNCHANGED vars
  BY <1>2, <1>5, OrderedWakes DEF vars, ServerTypes, serverVars
<1>6. QED
  BY <1>1, <1>3, <1>4, <1>5, OrderedLoop, OrderedServer DEF Next, CallOver

----------------------------------------------------------------------------
(* The invariant, and what follows from it.                                *)

LEMMA InitInv == Init => Inv
<1> SUFFICES ASSUME Init PROVE Inv
  OBVIOUS
<1>1. FsmTypes
  BY Limits DEF Init, FsmTypes, Phases
<1>2. Counted
  <2>1. failures \in 0..FailureLimit /\ frustration \in 0..FrustrationLimit
    BY Limits DEF Init
  <2>2. escalated \in BOOLEAN /\ referred \in BOOLEAN
    BY Zenon DEF Init
  <2>3. ~escalated /\ announcements = 0
    BY DEF Init
  <2>4. QED
    BY <2>1, <2>2, <2>3 DEF Counted, CallTypes, AnnouncedWhenMarked
<1>3. SocketTypes
  BY DEF Init, SocketTypes
<1>4. ServerTypes
  <2>1. <<Notify("updated")>> \in Seq(Event)
    BY DEF Notify, Event, Notice
  <2>2. QED
    BY <2>1 DEF Init, ServerTypes, Phases
<1>5. TaskTypes
  BY JobFacts DEF Init, TaskTypes, Jobs, LoopPC
<1>6. HandlersSerialised
  BY JobFacts DEF Init, HandlersSerialised, InQueue
<1>7. QED
  BY <1>1, <1>2, <1>3, <1>4, <1>5, <1>6, TypeGroups DEF Inv, Counted

LEMMA StepInv == Inv /\ [Next]_vars => Inv'
<1> SUFFICES ASSUME Inv, [Next]_vars PROVE Inv'
  OBVIOUS
<1>1. FsmTypes' /\ Counted' /\ SocketTypes' /\ Ordered'
  BY FsmStep, CountedStep, SocketStep, OrderedStep
<1>2. TypeOK'
  BY <1>1
     DEF TypeOK, FsmTypes, Counted, CallTypes, SocketTypes, Ordered, ServerTypes, TaskTypes, Jobs
<1>3. QED
  BY <1>1, <1>2 DEF Inv, Counted, Ordered

THEOREM InvHolds == Spec => []Inv
BY InitInv, StepInv, PTL DEF Spec

\* Every variable of a conversation keeps its type, and no phase but WRAP_UP
\* lasts as many responses as its limit. (record_turn, enter.)
THEOREM TypesHold == Spec => []TypeOK
BY InvHolds, PTL DEF Inv

\* However many handlers the model's tool calls create, they run one at a time
\* and in their order. (handle, under session_manager.tool_lock.)
THEOREM HandlersAreSerialised == Spec => []HandlersSerialised
BY InvHolds, PTL DEF Inv

\* For any thresholds, the event loop and the handlers together start at most
\* one transfer. (check_escalation.)
THEOREM OneThresholdTransfer == Spec => []EscalatesOnce
<1>1. Inv => EscalatesOnce
  BY DEF Inv, AnnouncedWhenMarked, EscalatesOnce
<1>2. QED
  BY <1>1, InvHolds, PTL

----------------------------------------------------------------------------
(* Which phases a call goes through.                                       *)

\* The category changes on the way from TRIAGE to DIAGNOSE only, whatever a
\* phase_complete waited for. (the phase_complete branch of handle.)
THEOREM CategoryFromTriage == Spec => ClassifiedInTriage
<1>1. ASSUME TypeOK, [Next]_vars, category' # category
      PROVE  phase = "TRIAGE" /\ phase' = "DIAGNOSE"
  <2>1. PICK t \in Tasks : CompletePhase(t)
    <3>1. CASE \E t \in Tasks : (TaskStep(t) \/ WaitTimesOut(t))
      BY <1>1, <3>1
         DEF TaskStep, WaitTimesOut, WaitForResponse, CompleteWrapUp, AfterWrapUp, WaitForUser,
             ReportNewIssue, RejectDuplicate, Dispatch, BlockedTool, ToolReturns, ToolFails,
             Reply, Escalate, TransferReturns, TransferFails, ReferAccepted, ReferFails,
             AfterTransfer, fsmVars
    <3>2. CASE LoopStep \/ LoopWaitTimesOut
      BY <1>1, <3>2
         DEF LoopStep, LoopWaitTimesOut, OnSessionUpdated, OnResponseCreated, OnResponseDone,
             AutoAdvance, AutoEnd, OnFunctionCall, OnMalformedCall, OnFrustration,
             LoopReferAccepted, LoopReferFails, LoopAfterClose, LoopEnds, LoopSeesDrop,
             Reconnect, GiveUp, fsmVars
    <3>3. CASE ServerStep \/ CloseHandshake \/ CallOver \/ UNCHANGED vars
      BY <1>1, <3>3
         DEF ServerStep, CallerSpeaks, ServerCallsTool, ServerEndsResponse, ServerNotice,
             SocketDrops, ServerCloses, CloseHandshake, CallOver, vars, fsmVars
    <3>4. QED
      BY <1>1, <3>1, <3>2, <3>3 DEF Next
  <2>2. phase = "TRIAGE"
    BY <1>1, <2>1 DEF CompletePhase, CategoryAfter
  <2>3. QED
    BY <2>1, <2>2, Successors DEF CompletePhase, Enter, Phases
<1>2. QED
  BY <1>1, TypesHold, PTL DEF Spec, ClassifiedInTriage

----------------------------------------------------------------------------
(* In GREETING nothing has been asked in VERIFY.                           *)

\* No call of a response made in VERIFY among the events of q.
Quiet(q) == \A i \in DOMAIN q : q[i].kind = "call" => q[i].asked # "VERIFY"

\* In GREETING nothing has been asked in VERIFY yet: the server's response belongs
\* to GREETING, and no handler and no event holds such a call.
NotAskedYet ==
  phase = "GREETING" =>
    /\ respPhase = "GREETING"
    /\ \A t \in Tasks : job[t].pc # "idle" => job[t].asked # "VERIFY"
    /\ Quiet(inbox)

\* The phase stays, goes on, or goes back to TRIAGE.
LEMMA PhaseMoves ==
  ASSUME [Next]_vars
  PROVE  phase' = phase \/ phase' = Successor(phase) \/ phase' = "TRIAGE"
<1>1. ASSUME NEW t \in Tasks, TaskStep(t) \/ WaitTimesOut(t)
      PROVE  phase' = phase \/ phase' = Successor(phase) \/ phase' = "TRIAGE"
  BY <1>1
     DEF TaskStep, WaitTimesOut, WaitForResponse, CompletePhase, Enter, CompleteWrapUp,
         AfterWrapUp, StayInPhase, WaitForUser, ReportNewIssue, RejectDuplicate, Dispatch,
         BlockedTool, ToolReturns, ToolFails, RecordToolCalled, TransferReturns, TransferFails,
         ReferAccepted, ReferFails, AfterTransfer, fsmVars
<1>2. CASE LoopStep \/ LoopWaitTimesOut
  BY <1>2
     DEF LoopStep, LoopWaitTimesOut, OnSessionUpdated, OnResponseCreated, OnResponseDone,
         AutoAdvance, AutoEnd, Enter, StayInPhase, OnFunctionCall, OnMalformedCall,
         OnFrustration, LoopReferAccepted, LoopReferFails, LoopAfterClose, LoopEnds,
         LoopSeesDrop, Reconnect, GiveUp, fsmVars
<1>3. CASE ServerStep \/ CloseHandshake \/ CallOver \/ UNCHANGED vars
  BY <1>3
     DEF ServerStep, CallerSpeaks, ServerCallsTool, ServerEndsResponse, ServerNotice,
         SocketDrops, ServerCloses, CloseHandshake, CallOver, vars, fsmVars
<1>4. QED
  BY <1>1, <1>2, <1>3 DEF Next

LEMMA QuietTail == ASSUME NEW q \in Seq(Event), q # <<>>, Quiet(q) PROVE Quiet(Tail(q))
<1>1. /\ DOMAIN Tail(q) = 1..(Len(q) - 1) /\ DOMAIN q = 1..Len(q) /\ Len(q) \in Nat
      /\ \A i \in 1..(Len(q) - 1) : Tail(q)[i] = q[i + 1]
  OBVIOUS
<1>2. \A i \in 1..(Len(q) - 1) : i + 1 \in 1..Len(q)
  BY <1>1
<1>3. QED
  BY <1>1, <1>2 DEF Quiet

LEMMA QuietAppend ==
  ASSUME NEW q \in Seq(Event), NEW e, Quiet(q), e.kind = "call" => e.asked # "VERIFY"
  PROVE  Quiet(Append(q, e))
<1>1. /\ DOMAIN Append(q, e) = 1..(Len(q) + 1) /\ DOMAIN q = 1..Len(q) /\ Len(q) \in Nat
      /\ \A i \in 1..Len(q) : Append(q, e)[i] = q[i]
      /\ Append(q, e)[Len(q) + 1] = e
  OBVIOUS
<1>2. \A i \in 1..(Len(q) + 1) : i # Len(q) + 1 => i \in 1..Len(q)
  BY <1>1
<1>3. QED
  BY <1>1, <1>2 DEF Quiet

LEMMA QuietNotice ==
  ASSUME NEW q \in Seq(Event), Quiet(q), NEW kind, kind # "call"
  PROVE  Quiet(Append(q, Notify(kind)))
BY QuietAppend DEF Notify

LEMMA QuietFew == Quiet(<<>>) /\ Quiet(<<Notify("updated")>>)
BY DEF Quiet, Notify

\* jobs holds no call that is not held now.
Fewer(jobs) ==
  \A t \in Tasks : jobs[t].pc # "idle"
    => job[t].pc # "idle" /\ jobs[t].tool = job[t].tool /\ jobs[t].asked = job[t].asked

LEMMA FewerRelease == ASSUME Inv, NEW t \in Tasks PROVE Fewer(Release(job, t))
<1>1. job \in Jobs
  BY DEF Inv, TypeOK, Jobs
<1>2. QED
  BY <1>1, ReleaseType DEF Fewer

LEMMA FewerMoves ==
  ASSUME Inv, NEW t \in Tasks, HoldsLock(t) \/ ~Waiting(job[t]), NEW p \in JobPC \ {"queued"}
  PROVE  Fewer([job EXCEPT ![t].pc = p])
<1>1. job \in Jobs /\ job[t] \in Job /\ job[t].pc # "idle"
  BY Holder DEF Inv, TypeOK, Jobs
<1>2. /\ [job[t] EXCEPT !.pc = p].tool = job[t].tool
      /\ [job[t] EXCEPT !.pc = p].asked = job[t].asked
  BY <1>1, NextPC
<1>3. /\ [job EXCEPT ![t].pc = p][t] = [job[t] EXCEPT !.pc = p]
      /\ \A u \in Tasks : u # t => [job EXCEPT ![t].pc = p][u] = job[u]
  BY <1>1 DEF Jobs
<1>4. QED
  BY <1>1, <1>2, <1>3 DEF Fewer

LEMMA FewerWoken == ASSUME Inv PROVE Fewer(job) /\ Fewer(Woken(job))
<1>1. job \in Jobs
  BY DEF Inv, TypeOK, Jobs
<1>2. QED
  BY <1>1, WokenAlike DEF Fewer, Alike

\* What is left of NotAskedYet to show when the phase stays GREETING.
Hush(p, jobs, q) == p = "GREETING" /\ Fewer(jobs) /\ Quiet(q)

LEMMA HushRequest ==
  ASSUME Inv, phase' = "GREETING", respPhase = "GREETING", NEW jobs \in Jobs, Fewer(jobs),
         NEW l \in LoopPC, NEW q \in Seq(Event), Quiet(q), RequestResponse(jobs, l, q)
  PROVE  Hush(respPhase', job', inbox')
<1>1. /\ Alike(job', jobs) /\ respPhase' \in {respPhase, phase'}
      /\ inbox' \in {q, Append(q, Notify("created"))}
  BY RequestKeeps DEF Inv, Phases
<1>2. Quiet(inbox')
  BY <1>1, QuietNotice
<1>3. Fewer(job')
  BY <1>1 DEF Alike, Fewer
<1>4. QED
  BY <1>1, <1>2, <1>3 DEF Hush

LEMMA HushTask ==
  ASSUME Inv, phase' = "GREETING", respPhase = "GREETING", Quiet(inbox),
         NEW t \in Tasks, TaskStep(t)
  PROVE  Hush(respPhase', job', inbox')
<1>1. job \in Jobs /\ Release(job, t) \in Jobs /\ loop \in LoopPC /\ inbox \in Seq(Event)
  BY ReleaseType DEF Inv, TypeOK, Jobs
<1>2. CASE RequestResponse(Release(job, t), loop, inbox)
  BY <1>1, <1>2, FewerRelease, HushRequest
<1>3. CASE job' = Release(job, t) /\ UNCHANGED <<inbox, respPhase>>
  BY <1>3, FewerRelease DEF Hush
<1>4. ASSUME HoldsLock(t) \/ ~Waiting(job[t]), NEW p \in {"dispatch", "announced", "closing"},
             job' = [job EXCEPT ![t].pc = p], UNCHANGED <<inbox, respPhase>>
      PROVE  Hush(respPhase', job', inbox')
  BY <1>4, FewerMoves DEF Hush, JobPC
<1>5. CASE WaitForResponse(t)
  <2>1. job[t] \in Job /\ job[t].pc # "idle"
    BY <1>5, Holder DEF WaitForResponse
  <2>2. PICK j : j.tool = job[t].tool /\ j.asked = job[t].asked /\ job' = [job EXCEPT ![t] = j]
    <3> DEFINE k == [job[t] EXCEPT !.pc = "gate", !.dup = IsDuplicate(t)]
    <3>1. k.tool = job[t].tool /\ k.asked = job[t].asked
      BY <2>1 DEF Job
    <3>2. job' = [job EXCEPT ![t] = k]
      BY <1>1, <1>5 DEF WaitForResponse, Jobs
    <3>3. QED
      BY <3>1, <3>2
  <2>3. Fewer(job')
    BY <1>1, <2>1, <2>2 DEF Fewer, Jobs
  <2>4. QED
    BY <1>5, <2>3 DEF WaitForResponse, serverVars, Hush
<1>6. CASE CompleteWrapUp(t) \/ Dispatch(t) \/ TransferReturns(t) \/ ReferAccepted(t)
  BY <1>4, <1>6
     DEF CompleteWrapUp, Dispatch, Dispatchable, TransferReturns, ReferAccepted, Unblocked,
         Waiting, serverVars
<1>7. CASE BlockedTool(t) \/ ToolReturns(t) \/ ToolFails(t)
  <2>1. HoldsLock(t) \/ ~Waiting(job[t])
    BY <1>7 DEF BlockedTool, Dispatchable, Unblocked, ToolReturns, ToolFails, Waiting
  <2>2. Reply(t) \/ Escalate(t)
    BY <1>7 DEF BlockedTool, ToolReturns, ToolFails
  <2>3. CASE RequestResponse([job EXCEPT ![t].pc = "announce"], loop, inbox)
    <3>1. /\ [job EXCEPT ![t].pc = "announce"] \in Jobs
          /\ Fewer([job EXCEPT ![t].pc = "announce"])
      BY <2>1, HolderMoves, FewerMoves DEF JobPC
    <3>2. QED
      BY <1>1, <2>3, <3>1, HushRequest
  <2>4. QED
    BY <1>2, <1>4, <2>1, <2>2, <2>3 DEF Reply, Escalate, serverVars
<1>8. QED
  BY <1>2, <1>3, <1>5, <1>6, <1>7
     DEF TaskStep, CompletePhase, AfterWrapUp, WaitForUser, ReportNewIssue, RejectDuplicate,
         TransferFails, ReferFails, AfterTransfer, serverVars

LEMMA HushLoop ==
  ASSUME Inv, phase' = "GREETING", respPhase = "GREETING", Quiet(inbox), LoopStep, ~OnFunctionCall
  PROVE  Hush(respPhase', job', inbox')
<1>1. job \in Jobs /\ loop \in LoopPC /\ "announce" \in LoopPC /\ inbox \in Seq(Event)
  BY DEF Inv, TypeOK, Jobs, LoopPC
<1>2. inbox # <<>> => Tail(inbox) \in Seq(Event) /\ Quiet(Tail(inbox))
  BY <1>1, RestOfInbox, QuietTail
<1>3. CASE /\ inbox # <<>>
           /\ \/ RequestResponse(job, loop, Tail(inbox))
              \/ RequestResponse(job, "announce", Tail(inbox))
  BY <1>1, <1>2, <1>3, FewerWoken, HushRequest
<1>4. CASE /\ job' \in {job, Woken(job)} /\ respPhase' = respPhase
           /\ \/ inbox' \in {inbox, <<>>, <<Notify("updated")>>}
              \/ inbox # <<>> /\ inbox' = Tail(inbox)
  BY <1>2, <1>4, FewerWoken, QuietFew DEF Hush
<1>5. QED
  BY <1>3, <1>4
     DEF LoopStep, OnSessionUpdated, OnResponseCreated, OnResponseDone, AutoAdvance, AutoEnd,
         OnMalformedCall, OnFrustration, Receive, LoopReferAccepted, LoopReferFails,
         LoopAfterClose, LoopEnds, LoopSeesDrop, Reconnect, GiveUp, serverVars

LEMMA HushServer ==
  ASSUME Inv, phase' = "GREETING", phase = "GREETING", respPhase = "GREETING", Quiet(inbox),
         ServerStep
  PROVE  Hush(respPhase', job', inbox')
<1>1. inbox \in Seq(Event) /\ Fewer(job)
  BY FewerWoken DEF Inv, TypeOK
<1>2. CASE ServerCallsTool
  <2>1. PICK tool \in Offered("GREETING"), cat \in Categories \cup {NoCategory} :
          inbox' = Append(inbox, [kind |-> "call", tool |-> tool, cat |-> cat, asked |-> respPhase])
    BY <1>2 DEF ServerCallsTool
  <2>3. Quiet(inbox')
    BY <1>1, <2>1, QuietAppend
  <2>4. QED
    BY <1>1, <1>2, <2>3 DEF ServerCallsTool, Hush
<1>3. CASE \E kind \in {"created", "done", "frustrated", "malformed"} :
             inbox' = Append(inbox, Notify(kind)) /\ job' = job /\ respPhase' \in {respPhase, phase}
  BY <1>1, <1>3, QuietNotice DEF Hush
<1>4. CASE SocketDrops \/ ServerCloses
  BY <1>1, <1>4, QuietFew DEF SocketDrops, ServerCloses, Hush
<1>5. QED
  BY <1>2, <1>3, <1>4 DEF ServerStep, CallerSpeaks, ServerEndsResponse, ServerNotice

LEMMA NotAskedStep == Inv /\ NotAskedYet /\ [Next]_vars => NotAskedYet'
<1> SUFFICES ASSUME Inv, NotAskedYet, [Next]_vars, phase' = "GREETING"
             PROVE  /\ respPhase' = "GREETING"
                    /\ \A t \in Tasks : job'[t].pc # "idle" => job'[t].asked # "VERIFY"
                    /\ Quiet(inbox')
  BY DEF NotAskedYet, Quiet
<1>1. phase = "GREETING"
  <2>1. phase \in Phases
    BY DEF Inv, TypeOK
  <2>2. QED
    BY <2>1, PhaseMoves, Successors
<1>2. /\ respPhase = "GREETING" /\ Quiet(inbox)
      /\ \A t \in Tasks : job[t].pc # "idle" => job[t].asked # "VERIFY"
  BY <1>1 DEF NotAskedYet
<1>3. ASSUME Hush(respPhase', job', inbox')
      PROVE  /\ respPhase' = "GREETING"
             /\ \A t \in Tasks : job'[t].pc # "idle" => job'[t].asked # "VERIFY"
             /\ Quiet(inbox')
  BY <1>2, <1>3 DEF Hush, Fewer
<1>4. CASE OnFunctionCall
  <2>1. inbox # <<>> /\ Head(inbox).kind = "call" /\ inbox' = Tail(inbox) /\ respPhase' = respPhase
    BY <1>4 DEF OnFunctionCall, Receive
  <2>2. inbox \in Seq(Event) /\ job \in Jobs
    BY DEF Inv, TypeOK, Jobs
  <2>3. Quiet(inbox')
    BY <1>2, <2>1, <2>2, QuietTail
  <2>4. Head(inbox).asked # "VERIFY"
    <3>1. 1 \in DOMAIN inbox /\ Head(inbox) = inbox[1]
      BY <2>1, <2>2
    <3>2. QED
      BY <1>2, <2>1, <3>1 DEF Quiet
  <2>5. PICK t \in Tasks : \E j : j.asked = Head(inbox).asked /\ job' = [job EXCEPT ![t] = j]
    BY <1>4 DEF OnFunctionCall
  <2>6. PICK j : j.asked = Head(inbox).asked /\ job' = [job EXCEPT ![t] = j]
    BY <2>5
  <2>7. QED
    BY <1>2, <2>1, <2>2, <2>3, <2>4, <2>6 DEF Jobs
<1>5. ASSUME NEW t \in Tasks, TaskStep(t) \/ WaitTimesOut(t) PROVE Hush(respPhase', job', inbox')
  BY <1>2, <1>5, HushTask, FewerWoken DEF WaitTimesOut, serverVars, Hush
<1>6. CASE LoopStep /\ ~OnFunctionCall
  BY <1>2, <1>3, <1>6, HushLoop
<1>7. CASE ServerStep
  BY <1>1, <1>2, <1>3, <1>7, HushServer
<1>8. CASE LoopWaitTimesOut \/ CloseHandshake \/ CallOver \/ UNCHANGED vars
  BY <1>2, <1>3, <1>8, FewerWoken
     DEF LoopWaitTimesOut, CloseHandshake, CallOver, vars, serverVars, Hush
<1>9. QED
  BY <1>3, <1>4, <1>5, <1>6, <1>7, <1>8 DEF Next

----------------------------------------------------------------------------
(* A guarded tool runs once per phase.                                     *)

\* With the tasks jobs, of which those in begun have begun in this phase, t has
\* been let through by the one-call guard and has not run yet.
Cleared(jobs, begun, t) == \/ jobs[t].pc \in {"gate", "open"} /\ ~jobs[t].dup
                           \/ jobs[t].pc = "dispatch" /\ t \in begun

\* What has run since the phase was entered is recorded, and nobody who was let
\* through is about to run it again.
RunsRecorded ==
  /\ \A tool \in OneCallTools : runs[tool] <= 1 /\ (runs[tool] # 0 => tool \in called)
  /\ \A t \in Tasks : Cleared(job, fresh, t) => job[t].tool \notin called

\* Nobody else has been let through.
NoneCleared(jobs, begun) ==
  \A t \in Tasks : Cleared(jobs, begun, t) => Cleared(job, fresh, t) /\ jobs[t].tool = job[t].tool

LEMMA RecordedSame ==
  ASSUME RunsRecorded, UNCHANGED <<called, runs>>, NoneCleared(job', fresh') PROVE RunsRecorded'
BY DEF RunsRecorded, NoneCleared

LEMMA RecordedEnter == ASSUME NEW p, Enter(p) PROVE RunsRecorded'
BY DEF RunsRecorded, Enter

LEMMA WokenCleared ==
  ASSUME NEW jobs \in Jobs, NEW begun, NEW t \in Tasks, Cleared(Woken(jobs), begun, t)
  PROVE  Cleared(jobs, begun, t)
<1>1. jobs[t] \in Job \cup {Idle}
  BY DEF Jobs
<1>2. CASE jobs[t].pc = "gate"
  <2>1. Woken(jobs)[t] = [jobs[t] EXCEPT !.pc = "open"] /\ jobs[t] \in Job
    BY <1>1, <1>2, JobFacts DEF Woken
  <2>2. [jobs[t] EXCEPT !.pc = "open"].dup = jobs[t].dup
        /\ [jobs[t] EXCEPT !.pc = "open"].pc = "open"
    BY <2>1 DEF Job
  <2>3. QED
    BY <1>2, <2>1, <2>2 DEF Cleared
<1>3. CASE jobs[t].pc = "announce"
  <2>1. Woken(jobs)[t] = [jobs[t] EXCEPT !.pc = "announced"] /\ jobs[t] \in Job
    BY <1>1, <1>3, JobFacts DEF Woken
  <2>2. [jobs[t] EXCEPT !.pc = "announced"].pc = "announced"
    BY <2>1 DEF Job
  <2>3. QED
    BY <2>1, <2>2 DEF Cleared
<1>4. CASE jobs[t].pc \notin {"gate", "announce"}
  BY <1>4 DEF Woken, Cleared
<1>5. QED
  BY <1>2, <1>3, <1>4

\* A response.create lets nobody through.
LEMMA RequestCleared ==
  ASSUME NEW jobs \in Jobs, NEW l, NEW q, RequestResponse(jobs, l, q),
         NEW begun, NEW t \in Tasks, Cleared(job', begun, t)
  PROVE  Cleared(jobs, begun, t) /\ job'[t].tool = jobs[t].tool
<1>1. job' \in {jobs, Woken(jobs)}
  BY DEF RequestResponse
<1>2. QED
  BY <1>1, WokenCleared, WokenAlike DEF Alike

LEMMA ReleaseCleared ==
  ASSUME Inv, NEW t \in Tasks, NEW begun, NEW u \in Tasks, Cleared(Release(job, t), begun, u)
  PROVE  u # t /\ Cleared(job, begun, u) /\ Release(job, t)[u].tool = job[u].tool
<1>1. job \in Jobs
  BY DEF Inv, TypeOK, Jobs
<1>2. QED
  BY <1>1, ReleaseType DEF Cleared

LEMMA MoveCleared ==
  ASSUME Inv, NEW t \in Tasks, HoldsLock(t) \/ ~Waiting(job[t]),
         NEW p \in {"dispatch", "announce", "announced", "closing"},
         NEW begun, NEW u \in Tasks, Cleared([job EXCEPT ![t].pc = p], begun, u)
  PROVE  \/ u # t /\ Cleared(job, begun, u)
         \/ u = t /\ p = "dispatch"
<1>1. job \in Jobs /\ job[t] \in Job
  BY Holder DEF Inv, TypeOK, Jobs
<1>2. [job[t] EXCEPT !.pc = p].pc = p
  BY <1>1, NextPC DEF JobPC
<1>3. /\ [job EXCEPT ![t].pc = p][t] = [job[t] EXCEPT !.pc = p]
      /\ \A v \in Tasks : v # t => [job EXCEPT ![t].pc = p][v] = job[v]
  BY <1>1 DEF Jobs
<1>4. QED
  BY <1>2, <1>3 DEF Cleared

\* The tool of t is recorded, and counted at most if it was not recorded before.
Recorded(t) ==
  /\ called' = called \cup ({job[t].tool} \cap OneCallTools)
  /\ fresh' = fresh \ {t}
  /\ \A tool \in OneCallTools :
       \/ runs'[tool] = runs[tool]
       \/ tool = job[t].tool /\ tool \notin called /\ runs'[tool] = Saturated(runs[tool], 2)

LEMMA RecordCounts ==
  ASSUME NEW t \in Tasks, NEW b, RecordToolCalled(t, b), b => job[t].tool \notin called,
         job[t].tool \in Tools, "get_tickets" \notin Tools
  PROVE  Recorded(t)
<1>1. Canonical(job[t].tool) = job[t].tool
  BY DEF Canonical
<1>2. QED
  BY <1>1 DEF RecordToolCalled, Recorded

\* The holder's tool has run, and nobody is let through afterwards.
LEMMA RecordedRun ==
  ASSUME Inv, RunsRecorded, NEW t \in Tasks, Recorded(t), \A u \in Tasks : ~Cleared(job', fresh', u)
  PROVE  RunsRecorded'
<1>1. ASSUME NEW tool \in OneCallTools
      PROVE  runs'[tool] <= 1 /\ (runs'[tool] # 0 => tool \in called')
  <2>1. runs[tool] \in 0..2 /\ runs[tool] <= 1 /\ (runs[tool] # 0 => tool \in called)
    BY DEF Inv, TypeOK, RunsRecorded
  <2>2. CASE runs'[tool] = runs[tool]
    BY <2>1, <2>2 DEF Recorded
  <2>3. CASE tool = job[t].tool /\ tool \notin called /\ runs'[tool] = Saturated(runs[tool], 2)
    BY <2>1, <2>3 DEF Recorded, Saturated
  <2>4. QED
    BY <2>2, <2>3 DEF Recorded
<1>2. QED
  BY <1>1 DEF RunsRecorded

\* The guard lets a task through only if its tool is not recorded.
LEMMA Unrecorded ==
  ASSUME Inv, RunsRecorded, NEW t \in Tasks, Dispatchable(t)
  PROVE  job[t].tool \notin called
<1>1. CASE job[t].pc = "queued"
  BY <1>1 DEF Dispatchable, IsDuplicate, Inv, TypeOK
<1>2. CASE job[t].pc = "open"
  BY <1>2 DEF Dispatchable, IsDuplicate, RunsRecorded, Cleared
<1>3. QED
  BY <1>1, <1>2 DEF Dispatchable, Unblocked

LEMMA RecordedTask ==
  ASSUME Inv, RunsRecorded, "get_tickets" \notin Tools, NEW t \in Tasks, TaskStep(t)
  PROVE  RunsRecorded'
<1>1. /\ job \in Jobs /\ Release(job, t) \in Jobs /\ called \subseteq OneCallTools
      /\ \A u \in Tasks : ~Waiting(job[u]) => u = Head(lockQueue)
  BY ReleaseType DEF Inv, TypeOK, Jobs, HandlersSerialised, Waiting
<1>2. ASSUME UNCHANGED <<called, runs>>, fresh' \subseteq fresh,
             \/ RequestResponse(Release(job, t), loop, inbox)
             \/ job' = Release(job, t)
      PROVE  RunsRecorded'
  <2>1. ASSUME NEW u \in Tasks, Cleared(job', fresh', u)
        PROVE  Cleared(job, fresh, u) /\ job'[u].tool = job[u].tool
    <3>1. Cleared(Release(job, t), fresh', u) /\ job'[u].tool = Release(job, t)[u].tool
      BY <1>1, <1>2, <2>1, RequestCleared
    <3>2. Cleared(job, fresh', u) /\ Release(job, t)[u].tool = job[u].tool
      BY <3>1, ReleaseCleared
    <3>3. QED
      BY <1>2, <3>1, <3>2 DEF Cleared
  <2>2. QED
    BY <1>2, <2>1, RecordedSame DEF NoneCleared
<1>3. ASSUME UNCHANGED <<called, runs>>, fresh' \subseteq fresh, HoldsLock(t) \/ ~Waiting(job[t]),
             NEW p \in {"announce", "announced", "closing"},
             \/ RequestResponse([job EXCEPT ![t].pc = p], loop, inbox)
             \/ job' = [job EXCEPT ![t].pc = p]
      PROVE  RunsRecorded'
  <2>1. PICK jobs \in Jobs : jobs = [job EXCEPT ![t].pc = p]
    BY <1>3, HolderMoves DEF JobPC
  <2>2. ASSUME NEW u \in Tasks, Cleared(job', fresh', u)
        PROVE  Cleared(job, fresh, u) /\ job'[u].tool = job[u].tool
    <3>1. Cleared(jobs, fresh', u) /\ job'[u].tool = jobs[u].tool
      BY <1>3, <2>1, <2>2, RequestCleared
    <3>2. Cleared(job, fresh', u)
      <4>1. Cleared([job EXCEPT ![t].pc = p], fresh', u)
        BY <2>1, <3>1
      <4>2. QED
        BY <1>3, <4>1, MoveCleared
    <3>3. Fewer(jobs)
      BY <1>3, <2>1, FewerMoves DEF JobPC
    <3>4. jobs[u].tool = job[u].tool
      BY <3>1, <3>3 DEF Cleared, Fewer
    <3>5. QED
      BY <1>3, <3>1, <3>2, <3>4 DEF Cleared
  <2>3. QED
    BY <1>3, <2>2, RecordedSame DEF NoneCleared
<1>4. CASE WaitForResponse(t)
  <2>1. job[t] \in Job /\ job[t].pc = "queued"
    BY <1>4, Holder DEF WaitForResponse
  <2>2. PICK j : /\ job' = [job EXCEPT ![t] = j]
                 /\ j.tool = job[t].tool /\ j.pc = "gate" /\ j.dup = IsDuplicate(t)
    <3>1. job' = [job EXCEPT ![t] = [job[t] EXCEPT !.pc = "gate", !.dup = IsDuplicate(t)]]
      BY <1>1, <1>4 DEF WaitForResponse, Jobs
    <3>2. /\ [job[t] EXCEPT !.pc = "gate", !.dup = IsDuplicate(t)].tool = job[t].tool
          /\ [job[t] EXCEPT !.pc = "gate", !.dup = IsDuplicate(t)].pc = "gate"
          /\ [job[t] EXCEPT !.pc = "gate", !.dup = IsDuplicate(t)].dup = IsDuplicate(t)
      BY <2>1 DEF Job
    <3>3. QED
      BY <3>1, <3>2
  <2>3. job'[t] = j /\ \A u \in Tasks : u # t => job'[u] = job[u]
    BY <1>1, <2>2 DEF Jobs
  <2>4. ~j.dup => job[t].tool \notin called
    BY <1>1, <2>1, <2>2 DEF IsDuplicate
  <2>5. UNCHANGED <<called, runs, fresh>>
    BY <1>4 DEF WaitForResponse, fsmVars
  <2>6. QED
    BY <2>2, <2>3, <2>4, <2>5 DEF RunsRecorded, Cleared
<1>5. CASE Dispatch(t)
  <2>1. job[t].tool \notin called /\ HoldsLock(t)
    BY <1>5, Unrecorded DEF Dispatch, Dispatchable, Unblocked
  <2>2. UNCHANGED <<called, runs>> /\ job' = [job EXCEPT ![t].pc = "dispatch"]
        /\ fresh' = fresh \cup {t}
    BY <1>5 DEF Dispatch
  <2>3. ASSUME NEW u \in Tasks, Cleared(job', fresh', u) PROVE job'[u].tool \notin called
    <3>1. u = t \/ (u # t /\ Cleared(job, fresh', u))
      <4>1. Cleared([job EXCEPT ![t].pc = "dispatch"], fresh', u)
        BY <2>2, <2>3
      <4>2. QED
        BY <2>1, <4>1, MoveCleared
    <3>2. u = t \/ Cleared(job, fresh, u)
      BY <2>2, <3>1 DEF Cleared
    <3>3. job'[u].tool = job[u].tool
      <4>1. Fewer(job')
        BY <2>1, <2>2, FewerMoves DEF JobPC
      <4>2. QED
        BY <2>3, <4>1 DEF Cleared, Fewer
    <3>4. QED
      BY <2>1, <3>2, <3>3 DEF RunsRecorded
  <2>4. QED
    BY <2>2, <2>3 DEF RunsRecorded
<1>6. CASE BlockedTool(t) \/ ToolReturns(t) \/ TransferReturns(t)
  <2>1. HoldsLock(t) \/ ~Waiting(job[t])
    BY <1>6 DEF BlockedTool, ToolReturns, TransferReturns, Dispatchable, Unblocked, Waiting
  <2>2. job[t].tool \in Tools /\ t = Head(lockQueue)
    BY <2>1, Holder DEF Job
  <2>3. Recorded(t) /\ fresh' = fresh \ {t}
    <3>1. t \in fresh /\ job[t].pc = "dispatch" => job[t].tool \notin called
      BY DEF RunsRecorded, Cleared
    <3>2. CASE BlockedTool(t)
      BY <2>2, <3>2, Unrecorded, RecordCounts DEF BlockedTool, Recorded
    <3>3. CASE ToolReturns(t)
      BY <2>2, <3>1, <3>3, RecordCounts DEF ToolReturns, Recorded
    <3>4. CASE TransferReturns(t)
      BY <2>2, <3>4, RecordCounts DEF TransferReturns, Recorded
    <3>5. QED
      BY <1>6, <3>2, <3>3, <3>4
  <2>4. \A u \in Tasks : u # t => ~Cleared(job, fresh', u)
    BY <1>1, <2>2 DEF Waiting, Cleared
  <2>5. \A u \in Tasks : ~Cleared(job', fresh', u)
    <3>1. \/ RequestResponse(Release(job, t), loop, inbox)
          \/ \E p \in {"announce", "announced", "closing"} :
               \/ RequestResponse([job EXCEPT ![t].pc = p], loop, inbox)
               \/ job' = [job EXCEPT ![t].pc = p]
      BY <1>6 DEF BlockedTool, ToolReturns, TransferReturns, Reply, Escalate
    <3>2. CASE RequestResponse(Release(job, t), loop, inbox)
      BY <1>1, <2>4, <3>2, RequestCleared, ReleaseCleared
    <3>3. ASSUME NEW p \in {"announce", "announced", "closing"},
                 \/ RequestResponse([job EXCEPT ![t].pc = p], loop, inbox)
                 \/ job' = [job EXCEPT ![t].pc = p]
          PROVE  \A u \in Tasks : ~Cleared(job', fresh', u)
      <4>1. PICK jobs \in Jobs : jobs = [job EXCEPT ![t].pc = p]
        BY <2>1, HolderMoves DEF JobPC
      <4>2. \A u \in Tasks : ~Cleared([job EXCEPT ![t].pc = p], fresh', u)
        BY <2>1, <2>4, MoveCleared
      <4>3. QED
        BY <3>3, <4>1, <4>2, RequestCleared
    <3>4. QED
      BY <3>1, <3>2, <3>3
  <2>6. QED
    BY <2>3, <2>5, RecordedRun
<1>7. CASE ToolFails(t)
  <2>1. /\ UNCHANGED <<called, runs>> /\ fresh' \subseteq fresh /\ ~Waiting(job[t])
        /\ Reply(t) \/ Escalate(t)
    BY <1>7 DEF ToolFails, Waiting
  <2>2. QED
    BY <1>2, <1>3, <2>1 DEF Reply, Escalate
<1>8. CASE CompleteWrapUp(t) \/ ReferAccepted(t)
  BY <1>3, <1>8 DEF CompleteWrapUp, ReferAccepted, Unblocked, Waiting, fsmVars
<1>9. CASE CompletePhase(t)
  BY <1>9, RecordedEnter DEF CompletePhase
<1>10. CASE ReportNewIssue(t)
  BY <1>2, <1>10, RecordedEnter DEF ReportNewIssue, StayInPhase
<1>11. CASE AfterWrapUp(t) \/ WaitForUser(t) \/ RejectDuplicate(t) \/ TransferFails(t)
              \/ ReferFails(t) \/ AfterTransfer(t)
  BY <1>2, <1>11
     DEF AfterWrapUp, WaitForUser, RejectDuplicate, StayInPhase, TransferFails, ReferFails,
         AfterTransfer, fsmVars
<1>12. QED
  BY <1>4, <1>5, <1>6, <1>7, <1>8, <1>9, <1>10, <1>11 DEF TaskStep

LEMMA RecordedStep ==
  ASSUME Inv, RunsRecorded, "get_tickets" \notin Tools, [Next]_vars PROVE RunsRecorded'
<1>1. job \in Jobs
  BY DEF Inv, TypeOK, Jobs
<1>2. ASSUME UNCHANGED <<called, runs, fresh>>,
             \/ job' \in {job, Woken(job)}
             \/ \E l \in LoopPC : RequestResponse(job, l, Tail(inbox))
      PROVE  RunsRecorded'
  <2>1. job' \in {job, Woken(job)}
    BY <1>2 DEF RequestResponse
  <2>2. NoneCleared(job', fresh')
    BY <1>1, <1>2, <2>1, WokenCleared, WokenAlike DEF NoneCleared, Alike
  <2>3. QED
    BY <1>2, <2>2, RecordedSame
<1>3. ASSUME NEW t \in Tasks, TaskStep(t) \/ WaitTimesOut(t) PROVE RunsRecorded'
  BY <1>2, <1>3, RecordedTask DEF WaitTimesOut, fsmVars
<1>4. CASE OnFunctionCall
  <2>1. PICK t \in Tasks : \E j : j.pc = "queued" /\ job' = [job EXCEPT ![t] = j]
    BY <1>4 DEF OnFunctionCall
  <2>2. job'[t].pc = "queued" /\ \A u \in Tasks : u # t => job'[u] = job[u]
    BY <1>1, <2>1 DEF Jobs
  <2>3. UNCHANGED <<called, runs, fresh>>
    BY <1>4 DEF OnFunctionCall, fsmVars
  <2>4. QED
    BY <2>2, <2>3, RecordedSame DEF NoneCleared, Cleared
<1>5. CASE AutoAdvance \/ Reconnect
  BY <1>5, RecordedEnter DEF AutoAdvance, Reconnect
<1>6. CASE OnSessionUpdated \/ OnFrustration
  BY <1>2, <1>6 DEF OnSessionUpdated, OnFrustration, StayInPhase, RequestResponse
<1>7. CASE LoopStep \/ LoopWaitTimesOut
  BY <1>2, <1>4, <1>5, <1>6, <1>7
     DEF LoopStep, LoopWaitTimesOut, OnResponseCreated, OnResponseDone, AutoEnd, OnMalformedCall,
         LoopReferAccepted, LoopReferFails, LoopAfterClose, LoopEnds, LoopSeesDrop, GiveUp, fsmVars
<1>8. CASE ServerStep \/ CloseHandshake \/ CallOver \/ UNCHANGED vars
  BY <1>2, <1>8
     DEF ServerStep, CallerSpeaks, ServerCallsTool, ServerEndsResponse, ServerNotice,
         SocketDrops, ServerCloses, CloseHandshake, CallOver, vars, fsmVars
<1>9. QED
  BY <1>3, <1>7, <1>8 DEF Next

\* If the model never uses the other name of a guarded tool, the tool runs at most
\* once between two enter()s, although the check, the dispatch and the record are
\* separate steps and the phase moves in between. (handle, record_tool_called.)
THEOREM GuardedToolsRunOnce ==
  ASSUME "get_tickets" \notin Tools
  PROVE  Spec => []OncePerPhase
<1>1. Init => RunsRecorded
  <2>1. \A t \in Tasks : Init => ~Cleared(job, fresh, t)
    BY JobFacts DEF Init, Cleared
  <2>2. QED
    BY <2>1 DEF Init, RunsRecorded
<1>2. RunsRecorded => OncePerPhase
  BY DEF RunsRecorded, OncePerPhase
<1>3. Inv /\ RunsRecorded /\ [Next]_vars => RunsRecorded'
  BY RecordedStep
<1>4. QED
  BY <1>1, <1>2, <1>3, InvHolds, PTL DEF Spec

----------------------------------------------------------------------------
(* The response gate follows the server.                                   *)

\* In the unread events q, a response.created is followed by the end of that
\* response, and a response.done by the start of the next, or the server (r) is
\* there now.
Orderly(q, r) ==
  /\ \A i \in DOMAIN q : q[i].kind = "done" =>
       r = "idle" \/ \E j \in DOMAIN q : i < j /\ q[j].kind = "created"
  /\ \A i \in DOMAIN q : q[i].kind = "created" =>
       r = "active" \/ \E j \in DOMAIN q : i < j /\ q[j].kind = "done"

Unread(q, kind) == \E i \in DOMAIN q : q[i].kind = kind

\* GateFollowsServer of a gate g.
Follows(g, q, r) == /\ g /\ r = "active" => Unread(q, "created")
                    /\ ~g => r = "active" \/ Unread(q, "done")

\* With the socket s, the loop l and the inbox q: no broken socket, and no
\* announcement that the event loop itself waits for.
Steady(s, l, q) == /\ s # "down" /\ l \notin {"announce", "announced", "backoff"}
                   /\ ~Unread(q, "frustrated")

GateSound == /\ Steady(ws, loop, inbox)
             /\ ws = "up" => Orderly(inbox, resp) /\ Follows(ready, inbox, resp)

LEMMA TailFacts ==
  ASSUME NEW q \in Seq(Event), q # <<>>
  PROVE  /\ Len(q) \in Nat \ {0} /\ DOMAIN q = 1..Len(q) /\ Head(q) = q[1]
         /\ DOMAIN Tail(q) = 1..(Len(q) - 1)
         /\ \A i \in DOMAIN Tail(q) : i + 1 \in DOMAIN q /\ Tail(q)[i] = q[i + 1]
         /\ \A i \in DOMAIN q : i # 1 => i - 1 \in DOMAIN Tail(q) /\ Tail(q)[i - 1] = q[i]
<1>1. /\ Len(q) \in Nat \ {0} /\ DOMAIN q = 1..Len(q) /\ Head(q) = q[1]
      /\ DOMAIN Tail(q) = 1..(Len(q) - 1)
      /\ \A i \in 1..(Len(q) - 1) : Tail(q)[i] = q[i + 1]
  OBVIOUS
<1>2. \A i \in 1..(Len(q) - 1) : i + 1 \in 1..Len(q)
  BY <1>1
<1>3. \A i \in 1..Len(q) : i # 1 => i - 1 \in 1..(Len(q) - 1) /\ (i - 1) + 1 = i
  BY <1>1
<1>4. QED
  BY <1>1, <1>2, <1>3

LEMMA AppendFacts ==
  ASSUME NEW q \in Seq(Event), NEW e
  PROVE  /\ Len(q) \in Nat /\ DOMAIN q = 1..Len(q)
         /\ DOMAIN Append(q, e) = DOMAIN q \cup {Len(q) + 1}
         /\ Append(q, e)[Len(q) + 1] = e
         /\ \A i \in DOMAIN q : i < Len(q) + 1 /\ Append(q, e)[i] = q[i]
OBVIOUS

\* What lies beyond an event of the tail lies beyond it in the queue.
LEMMA BeyondTail ==
  ASSUME NEW q \in Seq(Event), q # <<>>, NEW i \in DOMAIN Tail(q), NEW kind,
         \E j \in DOMAIN q : i + 1 < j /\ q[j].kind = kind
  PROVE  \E j \in DOMAIN Tail(q) : i < j /\ Tail(q)[j].kind = kind
<1>1. PICK j \in DOMAIN q : i + 1 < j /\ q[j].kind = kind
  OBVIOUS
<1>2. i \in Nat /\ j \in Nat /\ j # 1 /\ i < j - 1
  BY <1>1, TailFacts
<1>3. j - 1 \in DOMAIN Tail(q) /\ Tail(q)[j - 1] = q[j]
  BY <1>2, TailFacts
<1>4. QED
  BY <1>1, <1>2, <1>3

LEMMA OrderlyTail ==
  ASSUME NEW q \in Seq(Event), q # <<>>, NEW r, Orderly(q, r)
  PROVE  Orderly(Tail(q), r)
<1>1. ASSUME NEW i \in DOMAIN Tail(q), Tail(q)[i].kind = "done", r # "idle"
      PROVE  \E j \in DOMAIN Tail(q) : i < j /\ Tail(q)[j].kind = "created"
  <2>1. i + 1 \in DOMAIN q /\ q[i + 1].kind = "done"
    BY <1>1, TailFacts
  <2>2. \E j \in DOMAIN q : i + 1 < j /\ q[j].kind = "created"
    BY <1>1, <2>1 DEF Orderly
  <2>3. QED
    BY <2>2, BeyondTail
<1>2. ASSUME NEW i \in DOMAIN Tail(q), Tail(q)[i].kind = "created", r # "active"
      PROVE  \E j \in DOMAIN Tail(q) : i < j /\ Tail(q)[j].kind = "done"
  <2>1. i + 1 \in DOMAIN q /\ q[i + 1].kind = "created"
    BY <1>2, TailFacts
  <2>2. \E j \in DOMAIN q : i + 1 < j /\ q[j].kind = "done"
    BY <1>2, <2>1 DEF Orderly
  <2>3. QED
    BY <2>2, BeyondTail
<1>3. QED
  BY <1>1, <1>2 DEF Orderly

\* Reading an event takes it away, and no other.
LEMMA UnreadTail ==
  ASSUME NEW q \in Seq(Event), q # <<>>, NEW kind
  PROVE  /\ Unread(Tail(q), kind) => Unread(q, kind)
         /\ Unread(q, kind) /\ Head(q).kind # kind => Unread(Tail(q), kind)
         /\ (\E j \in DOMAIN q : 1 < j /\ q[j].kind = kind) => Unread(Tail(q), kind)
<1>1. ASSUME Unread(Tail(q), kind) PROVE Unread(q, kind)
  BY <1>1, TailFacts DEF Unread
<1>2. ASSUME NEW j \in DOMAIN q, q[j].kind = kind, j # 1 PROVE Unread(Tail(q), kind)
  BY <1>2, TailFacts DEF Unread
<1>3. \A j \in DOMAIN q : 1 < j => j # 1
  OBVIOUS
<1>4. Head(q).kind # kind => \A j \in DOMAIN q : q[j].kind = kind => j # 1
  BY TailFacts
<1>5. Unread(q, kind) /\ Head(q).kind # kind => Unread(Tail(q), kind)
  BY <1>2, <1>4 DEF Unread
<1>6. QED
  BY <1>1, <1>2, <1>3, <1>5

LEMMA FollowsTail ==
  ASSUME NEW q \in Seq(Event), q # <<>>, NEW r, NEW g, Follows(g, q, r),
         Head(q).kind \notin {"created", "done"}
  PROVE  Follows(g, Tail(q), r)
BY UnreadTail DEF Follows

\* response.created is read: the gate shuts, and the response is there or its end is.
LEMMA FollowsCreated ==
  ASSUME NEW q \in Seq(Event), q # <<>>, NEW r, Orderly(q, r), Head(q).kind = "created"
  PROVE  Follows(FALSE, Tail(q), r)
<1>1. 1 \in DOMAIN q /\ q[1].kind = "created"
  BY TailFacts
<1>2. r = "active" \/ \E j \in DOMAIN q : 1 < j /\ q[j].kind = "done"
  BY <1>1 DEF Orderly
<1>3. QED
  BY <1>2, UnreadTail DEF Follows

\* response.done is read: the gate opens, and no response is there but one whose
\* start is unread.
LEMMA FollowsDone ==
  ASSUME NEW q \in Seq(Event), q # <<>>, NEW r, Orderly(q, r), Head(q).kind = "done"
  PROVE  Follows(TRUE, Tail(q), r)
<1>1. 1 \in DOMAIN q /\ q[1].kind = "done"
  BY TailFacts
<1>2. r = "idle" \/ \E j \in DOMAIN q : 1 < j /\ q[j].kind = "created"
  BY <1>1 DEF Orderly
<1>3. QED
  BY <1>2, UnreadTail DEF Follows

LEMMA UnreadAppend ==
  ASSUME NEW q \in Seq(Event), NEW e, NEW kind
  PROVE  Unread(Append(q, e), kind) <=> Unread(q, kind) \/ e.kind = kind
BY AppendFacts DEF Unread

\* A response starts, ends, or something else happens.
LEMMA OrderlyAppend ==
  ASSUME NEW q \in Seq(Event), NEW e, NEW r \in {"idle", "active"}, NEW s, Orderly(q, r),
         \/ e.kind = "created" /\ s = "active"
         \/ e.kind = "done" /\ s = "idle"
         \/ e.kind \notin {"created", "done"} /\ s = r
  PROVE  Orderly(Append(q, e), s)
<1> DEFINE a == Append(q, e)
           n == Len(q) + 1
<1>1. /\ DOMAIN a = DOMAIN q \cup {n} /\ a[n] = e
      /\ \A i \in DOMAIN q : i < n /\ a[i] = q[i]
  BY AppendFacts
<1> HIDE DEF a, n
<1>2. ASSUME NEW i \in DOMAIN a, a[i].kind = "done", s # "idle"
      PROVE  \E j \in DOMAIN a : i < j /\ a[j].kind = "created"
  <2>1. i \in DOMAIN q /\ q[i].kind = "done"
    BY <1>1, <1>2
  <2>2. CASE e.kind = "created"
    BY <1>1, <2>1, <2>2
  <2>3. CASE e.kind # "created"
    <3>1. \E j \in DOMAIN q : i < j /\ q[j].kind = "created"
      BY <1>2, <2>1, <2>3 DEF Orderly
    <3>2. QED
      BY <1>1, <3>1
  <2>4. QED
    BY <2>2, <2>3
<1>3. ASSUME NEW i \in DOMAIN a, a[i].kind = "created", s # "active"
      PROVE  \E j \in DOMAIN a : i < j /\ a[j].kind = "done"
  <2>1. i \in DOMAIN q /\ q[i].kind = "created"
    BY <1>1, <1>3
  <2>2. CASE e.kind = "done"
    BY <1>1, <2>1, <2>2
  <2>3. CASE e.kind # "done"
    <3>1. \E j \in DOMAIN q : i < j /\ q[j].kind = "done"
      BY <1>3, <2>1, <2>3 DEF Orderly
    <3>2. QED
      BY <1>1, <3>1
  <2>4. QED
    BY <2>2, <2>3
<1>4. Orderly(a, s)
  BY <1>2, <1>3 DEF Orderly
<1>5. QED
  BY <1>4 DEF a

\* send_event("response.create") shuts the gate and starts a response.
LEMMA GateRequest ==
  ASSUME Inv, NEW l, NEW q \in Seq(Event), Steady(ws, l, q), ws = "up" => Orderly(q, resp),
         NEW jobs, RequestResponse(jobs, l, q), ws' = ws
  PROVE  GateSound'
<1>1. loop' = l /\ resp \in {"idle", "active"}
  BY DEF RequestResponse, LoopWoken, Steady, Inv, TypeOK
<1>2. CASE ws = "up" /\ resp = "idle"
  <2>1. /\ ready' = FALSE /\ resp' = "active"
        /\ inbox' = Append(q, Notify("created")) /\ Notify("created").kind = "created"
    BY <1>2 DEF RequestResponse, Notify
  <2>2. Orderly(inbox', resp') /\ ~Unread(inbox', "frustrated")
    BY <1>1, <1>2, <2>1, OrderlyAppend, UnreadAppend DEF Steady
  <2>3. Follows(ready', inbox', resp')
    BY <2>1 DEF Follows
  <2>4. QED
    BY <1>1, <2>2, <2>3 DEF GateSound, Steady, Unread, Orderly, Follows
<1>3. CASE ~(ws = "up" /\ resp = "idle")
  <2>1. /\ resp' = resp /\ inbox' = q
        /\ ws = "up" => ready' = FALSE /\ resp = "active"
    BY <1>1, <1>3 DEF RequestResponse
  <2>2. ws = "up" => Follows(ready', inbox', resp')
    BY <2>1 DEF Follows
  <2>3. QED
    BY <1>1, <2>1, <2>2 DEF GateSound, Steady, Unread, Orderly, Follows
<1>4. QED
  BY <1>2, <1>3

\* A step after which the socket is not up, or which leaves the gate alone.
LEMMA GateStays ==
  ASSUME GateSound,
         ws' # "down" /\ loop' \notin {"announce", "announced", "backoff"},
         inbox' = inbox \/ inbox' = <<>>,
         ws' = "up" => ws = "up" /\ UNCHANGED <<inbox, resp, ready>>
  PROVE  GateSound'
<1>1. ~Unread(inbox', "frustrated")
  BY DEF GateSound, Steady, Unread
<1>2. CASE ws' = "up"
  BY <1>1, <1>2 DEF GateSound, Steady, Unread, Orderly, Follows
<1>3. CASE ws' # "up"
  BY <1>1, <1>3 DEF GateSound, Steady, Unread
<1>4. QED
  BY <1>2, <1>3

LEMMA GateTask ==
  ASSUME Inv, GateSound, NEW t \in Tasks, TaskStep(t)
  PROVE  GateSound'
<1>1. /\ inbox \in Seq(Event) /\ Steady(ws, loop, inbox)
      /\ ws = "up" => Orderly(inbox, resp)
  BY DEF Inv, TypeOK, GateSound, Steady
<1>2. ASSUME NEW jobs, RequestResponse(jobs, loop, inbox), ws' = ws
      PROVE  GateSound'
  BY <1>1, <1>2, GateRequest
<1>3. CASE UNCHANGED <<ws, loop, inbox, resp, ready>>
  BY <1>1, <1>3, GateStays DEF Steady
<1>4. CASE CloseSocket /\ UNCHANGED <<loop, inbox, ready>>
  BY <1>1, <1>4, GateStays DEF Steady, CloseSocket
<1>5. QED
  BY <1>2, <1>3, <1>4
     DEF TaskStep, WaitForResponse, CompletePhase, CompleteWrapUp, AfterWrapUp, WaitForUser,
         ReportNewIssue, RejectDuplicate, Dispatch, BlockedTool, ToolReturns, ToolFails, Reply,
         Escalate, TransferReturns, TransferFails, ReferAccepted, ReferFails, AfterTransfer,
         sockVars, serverVars

\* The event loop reads one event, and the gate follows.
LEMMA GateRead ==
  ASSUME Inv, GateSound, inbox # <<>>, UNCHANGED <<ws, loop>>, UNCHANGED resp,
         inbox' = Tail(inbox),
         \/ Head(inbox).kind \notin {"created", "done"} /\ ready' = ready
         \/ Head(inbox).kind = "created" /\ ready' = FALSE
         \/ Head(inbox).kind = "done" /\ ready' = TRUE
  PROVE  GateSound'
<1>1. inbox \in Seq(Event)
  BY DEF Inv, TypeOK
<1>2. ~Unread(Tail(inbox), "frustrated")
  BY <1>1, UnreadTail DEF GateSound, Steady
<1>3. ASSUME ws = "up"
      PROVE  Orderly(Tail(inbox), resp) /\ Follows(ready', Tail(inbox), resp)
  BY <1>1, <1>3, OrderlyTail, FollowsTail, FollowsCreated, FollowsDone DEF GateSound
<1>4. QED
  BY <1>2, <1>3 DEF GateSound, Steady, Unread, Orderly, Follows

LEMMA GateLoop ==
  ASSUME Inv, GateSound, LoopStep
  PROVE  GateSound'
<1>1. /\ inbox \in Seq(Event) /\ Steady(ws, loop, inbox)
      /\ ws = "up" => Orderly(inbox, resp)
  BY DEF Inv, TypeOK, GateSound, Steady
<1>2. CASE OnSessionUpdated
  <2>1. /\ inbox # <<>> /\ Head(inbox).kind = "updated" /\ ws' = ws
        /\ \/ inbox' = Tail(inbox) /\ UNCHANGED <<ready, loop, resp>>
           \/ RequestResponse(job, loop, Tail(inbox))
    BY <1>2 DEF OnSessionUpdated, Receive
  <2>2. Steady(ws, loop, Tail(inbox)) /\ (ws = "up" => Orderly(Tail(inbox), resp))
    BY <1>1, <2>1, UnreadTail, OrderlyTail DEF Steady
  <2>3. Tail(inbox) \in Seq(Event)
    BY <1>1, <2>1
  <2>4. QED
    BY <2>1, <2>2, <2>3, GateRequest, GateRead
<1>3. CASE OnResponseCreated \/ OnResponseDone \/ AutoAdvance \/ OnFunctionCall
  BY <1>3, GateRead
     DEF OnResponseCreated, OnResponseDone, AutoAdvance, OnFunctionCall, Receive, sockVars
<1>4. CASE AutoEnd
  <2>1. inbox # <<>> /\ inbox' = Tail(inbox) /\ ws' \notin {"up", "down"} /\ loop' = "closing"
    BY <1>1, <1>4 DEF AutoEnd, Receive, CloseSocket, Steady
  <2>2. ~Unread(inbox', "frustrated")
    BY <1>1, <2>1, UnreadTail DEF Steady
  <2>3. QED
    BY <2>1, <2>2 DEF GateSound, Steady, Unread
<1>5. CASE OnMalformedCall \/ LoopEnds \/ LoopAfterClose
  BY <1>1, <1>5, GateStays
     DEF OnMalformedCall, LoopEnds, LoopAfterClose, Receive, Steady, sockVars, serverVars
<1>6. ~OnFrustration
  <2>1. inbox # <<>> => 1 \in DOMAIN inbox /\ Head(inbox) = inbox[1]
    BY <1>1
  <2>2. QED
    BY <1>1, <2>1 DEF OnFrustration, Receive, Steady, Unread
<1>7. ~(LoopReferAccepted \/ LoopReferFails \/ LoopSeesDrop \/ Reconnect \/ GiveUp)
  BY <1>1 DEF LoopReferAccepted, LoopReferFails, LoopSeesDrop, Reconnect, GiveUp, Steady
<1>8. QED
  BY <1>2, <1>3, <1>4, <1>5, <1>6, <1>7 DEF LoopStep

LEMMA GateServer ==
  ASSUME Inv, GateSound, Env \cap {"drop", "frustration"} = {}, ServerStep
  PROVE  GateSound'
<1>1. /\ inbox \in Seq(Event) /\ resp \in {"idle", "active"} /\ Steady(ws, loop, inbox)
      /\ ws = "up" => Orderly(inbox, resp) /\ Follows(ready, inbox, resp)
  BY DEF Inv, TypeOK, GateSound, Steady
<1>2. ASSUME ws = "up", UNCHANGED <<ws, loop, ready>>, NEW e, inbox' = Append(inbox, e),
             \/ e.kind = "created" /\ resp' = "active"
             \/ e.kind = "done" /\ resp' = "idle"
             \/ e.kind \in {"call", "malformed"} /\ resp' = resp
      PROVE  GateSound'
  <2>1. Orderly(inbox', resp') /\ ~Unread(inbox', "frustrated")
    BY <1>1, <1>2, OrderlyAppend, UnreadAppend DEF Steady
  <2>2. \A kind \in {"created", "done"} :
          Unread(inbox', kind) <=> Unread(inbox, kind) \/ e.kind = kind
    BY <1>1, <1>2, UnreadAppend
  <2>3. Follows(ready', inbox', resp')
    BY <1>1, <1>2, <2>2 DEF Follows
  <2>4. QED
    BY <1>1, <1>2, <2>1, <2>3 DEF GateSound, Steady, Unread, Orderly, Follows
<1>3. CASE CallerSpeaks \/ ServerEndsResponse \/ ServerNotice("malformed", "malformed")
  <2>1. PICK kind \in {"created", "done", "malformed"} :
          /\ inbox' = Append(inbox, Notify(kind))
          /\ \/ kind = "created" /\ resp' = "active"
             \/ kind = "done" /\ resp' = "idle"
             \/ kind = "malformed" /\ resp' = resp
    BY <1>3 DEF CallerSpeaks, ServerEndsResponse, ServerNotice
  <2>2. Notify(kind).kind = kind /\ ws = "up" /\ UNCHANGED <<ws, loop, ready>>
    BY <1>3 DEF CallerSpeaks, ServerEndsResponse, ServerNotice, Room, sockVars, Notify
  <2>3. QED
    BY <1>2, <2>1, <2>2
<1>4. CASE ServerCallsTool
  <2>1. PICK tool, cat :
          inbox' = Append(inbox, [kind |-> "call", tool |-> tool, cat |-> cat,
                                  asked |-> respPhase])
    BY <1>4 DEF ServerCallsTool
  <2>2. PICK e : e.kind = "call" /\ inbox' = Append(inbox, e)
    BY <2>1
  <2>3. ws = "up" /\ UNCHANGED <<ws, loop, ready, resp>>
    BY <1>4 DEF ServerCallsTool, Room, sockVars
  <2>4. QED
    BY <1>2, <2>2, <2>3
<1>5. CASE ServerCloses
  BY <1>1, <1>5, GateStays DEF ServerCloses, Steady
<1>6. ~SocketDrops /\ ~ServerNotice("frustrated", "frustration")
  BY DEF SocketDrops, ServerNotice
<1>7. QED
  BY <1>3, <1>4, <1>5, <1>6 DEF ServerStep

LEMMA GateInv ==
  ASSUME Env \cap {"slow", "drop", "frustration"} = {}
  PROVE  Spec => []GateSound
<1>1. Init => GateSound
  <2>1. Init => ~Unread(<<Notify("updated")>>, "frustrated")
                /\ Orderly(<<Notify("updated")>>, "idle")
    BY DEF Unread, Orderly, Notify
  <2>2. Follows(TRUE, <<Notify("updated")>>, "idle")
    BY DEF Follows
  <2>3. QED
    BY <2>1, <2>2 DEF Init, GateSound, Steady
<1>2. Inv /\ GateSound /\ [Next]_vars => GateSound'
  <2> SUFFICES ASSUME Inv, GateSound, [Next]_vars PROVE GateSound'
    OBVIOUS
  <2>1. ASSUME NEW t \in Tasks, WaitTimesOut(t) PROVE GateSound'
    <3>1. ws # "up" /\ LoopWoken(loop) = loop
      BY <2>1 DEF WaitTimesOut, LoopWoken, GateSound, Steady
    <3>2. QED
      BY <2>1, <3>1, GateStays
         DEF WaitTimesOut, GateSound, Steady, sockVars, serverVars
  <2>2. ~LoopWaitTimesOut
    BY DEF LoopWaitTimesOut, GateSound, Steady
  <2>3. CASE CloseHandshake \/ CallOver \/ UNCHANGED vars
    BY <2>3, GateStays
       DEF CloseHandshake, CallOver, vars, GateSound, Steady, sockVars, serverVars
  <2>4. QED
    BY <2>1, <2>2, <2>3, GateTask, GateLoop, GateServer DEF Next
<1>3. QED
  BY <1>1, <1>2, InvHolds, PTL DEF Spec

\* Where the caller shows no frustration, no wait for a response runs out and no
\* socket breaks, the gate is open during a response only while its start is
\* unread, and shut only while a response, or its unread end, will open it:
\* whatever tools fail, whoever speaks, and however the session is closed.
\* (send_event, _dispatch_event and wait_for_response_done.)
THEOREM GateFollows ==
  ASSUME Env \cap {"slow", "drop", "frustration"} = {}
  PROVE  Spec => []GateFollowsServer
<1>1. GateSound => GateFollowsServer
  BY DEF GateSound, GateFollowsServer, Follows, Unread
<1>2. QED
  BY <1>1, GateInv, PTL


----------------------------------------------------------------------------
(* VERIFY takes a turn.                                                    *)

\* With the gate g, a call made in VERIFY is handled by nobody yet; and the events q
\* shut the gate, or count a turn, before such a call is read.
Held(g, jobs) ==
  \A t \in Tasks : jobs[t].pc # "idle" /\ jobs[t].asked = "VERIFY"
    => ~g /\ jobs[t].pc \in {"queued", "gate"}
Heralded(g, q) ==
  g => \A i \in DOMAIN q : q[i].kind = "call" /\ q[i].asked = "VERIFY"
         => \E j \in DOMAIN q : j < i /\ q[j].kind \in {"created", "done"}

Untaken == phase = "VERIFY" /\ turns = 0 /\ ws = "up"

VerifyHeld == Untaken => Held(ready, job) /\ Heralded(ready, inbox)

LEMMA HeraldedTail ==
  ASSUME NEW g, NEW q \in Seq(Event), q # <<>>, Heralded(g, q),
         Head(q).kind \notin {"created", "done"}
  PROVE  Heralded(g, Tail(q))
<1> SUFFICES ASSUME g, NEW i \in DOMAIN Tail(q), Tail(q)[i].kind = "call",
                    Tail(q)[i].asked = "VERIFY"
             PROVE  \E j \in DOMAIN Tail(q) : j < i /\ Tail(q)[j].kind \in {"created", "done"}
  BY DEF Heralded
<1>1. i + 1 \in DOMAIN q /\ q[i + 1] = Tail(q)[i]
  BY TailFacts
<1>2. PICK j \in DOMAIN q : j < i + 1 /\ q[j].kind \in {"created", "done"}
  BY <1>1 DEF Heralded
<1>3. j # 1
  BY <1>2, TailFacts
<1>4. j - 1 \in DOMAIN Tail(q) /\ Tail(q)[j - 1] = q[j]
  BY <1>3, TailFacts
<1>5. j - 1 < i
  <2>1. i \in Nat /\ j \in Nat
    BY <1>2, TailFacts
  <2>2. QED
    BY <1>2, <2>1
<1>6. QED
  BY <1>2, <1>4, <1>5

LEMMA HeraldedAppend ==
  ASSUME NEW g, NEW q \in Seq(Event), NEW e, Heralded(g, q),
         e.kind # "call" \/ (g => Unread(q, "created")) \/ e.asked # "VERIFY"
  PROVE  Heralded(g, Append(q, e))
<1> DEFINE a == Append(q, e)
           n == Len(q) + 1
<1>1. /\ DOMAIN a = DOMAIN q \cup {n} /\ a[n] = e
      /\ \A i \in DOMAIN q : i < n /\ a[i] = q[i]
  BY AppendFacts
<1> HIDE DEF a, n
<1>2. ASSUME g, NEW i \in DOMAIN a, a[i].kind = "call", a[i].asked = "VERIFY"
      PROVE  \E j \in DOMAIN a : j < i /\ a[j].kind \in {"created", "done"}
  <2>1. CASE i \in DOMAIN q
    <3>1. PICK j \in DOMAIN q : j < i /\ q[j].kind \in {"created", "done"}
      BY <1>1, <1>2, <2>1 DEF Heralded
    <3>2. QED
      BY <1>1, <3>1
  <2>2. CASE i = n
    <3>1. Unread(q, "created")
      BY <1>1, <1>2, <2>2
    <3>2. PICK j \in DOMAIN q : q[j].kind = "created"
      BY <3>1 DEF Unread
    <3>3. QED
      BY <1>1, <2>2, <3>2
  <2>3. QED
    BY <1>1, <2>1, <2>2
<1>3. Heralded(g, a)
  BY <1>2 DEF Heralded
<1>4. QED
  BY <1>3 DEF a

LEMMA HeraldedQuiet == ASSUME NEW q, NEW g, Quiet(q) PROVE Heralded(g, q)
BY DEF Quiet, Heralded

\* send_event("response.create") shuts the gate.
LEMMA HeldRequest ==
  ASSUME NEW jobs, NEW l, NEW q, Held(FALSE, jobs), RequestResponse(jobs, l, q), ws = "up"
  PROVE  Held(ready', job') /\ Heralded(ready', inbox')
<1>1. ready' = FALSE /\ job' = jobs
  BY DEF RequestResponse
<1>2. QED
  BY <1>1 DEF Held, Heralded

LEMMA VerifyTask ==
  ASSUME Inv, Untaken, VerifyHeld, NEW t \in Tasks, TaskStep(t)
  PROVE  Held(ready', job') /\ Heralded(ready', inbox')
<1>1. /\ job \in Jobs /\ ws = "up" /\ Held(ready, job) /\ Heralded(ready, inbox)
      /\ job[t] \in Job \cup {Idle}
  BY DEF Inv, TypeOK, Jobs, Untaken, VerifyHeld
<1>2. CASE WaitForResponse(t)
  <2>1. job[t] \in Job
    BY <1>2, Holder DEF WaitForResponse
  <2>2. PICK j : j.pc = "gate" /\ j.asked = job[t].asked /\ job' = [job EXCEPT ![t] = j]
    <3> DEFINE k == [job[t] EXCEPT !.pc = "gate", !.dup = IsDuplicate(t)]
    <3>1. k.pc = "gate" /\ k.asked = job[t].asked
      BY <2>1 DEF Job
    <3>2. job' = [job EXCEPT ![t] = k]
      BY <1>1, <1>2 DEF WaitForResponse, Jobs
    <3>3. QED
      BY <3>1, <3>2
  <2>3. ~ready /\ ready' = ready /\ inbox' = inbox
    BY <1>2 DEF WaitForResponse, serverVars
  <2>4. job'[t] = j /\ \A u \in Tasks : u # t => job'[u] = job[u]
    BY <1>1, <2>2 DEF Jobs
  <2>5. Held(ready', job')
    BY <1>1, <2>2, <2>3, <2>4 DEF Held
  <2>6. QED
    BY <1>1, <2>3, <2>5
<1>3. ASSUME ~WaitForResponse(t)
      PROVE  Unblocked(t) \/ job[t].pc \in {"dispatch", "announced", "closing"}
  BY <1>3
     DEF TaskStep, CompletePhase, CompleteWrapUp, AfterWrapUp, WaitForUser, ReportNewIssue,
         RejectDuplicate, Dispatch, BlockedTool, Dispatchable, ToolReturns, ToolFails,
         TransferReturns, TransferFails, ReferAccepted, ReferFails, AfterTransfer
<1>4. ASSUME ~WaitForResponse(t)
      PROVE  /\ HoldsLock(t) \/ ~Waiting(job[t])
             /\ job[t].asked # "VERIFY"
  <2>1. HoldsLock(t) \/ ~Waiting(job[t])
    BY <1>3, <1>4 DEF Unblocked, Waiting
  <2>2. job[t].asked # "VERIFY"
    BY <1>1, <1>3, <1>4 DEF Unblocked, Held
  <2>3. QED
    BY <2>1, <2>2
<1>5. ASSUME ~WaitForResponse(t), NEW p \in {"dispatch", "announce", "announced", "closing"}
      PROVE  \A g \in {ready, FALSE} : Held(g, [job EXCEPT ![t].pc = p])
  <2>1. \A u \in Tasks : u # t => [job EXCEPT ![t].pc = p][u] = job[u]
    BY <1>1 DEF Jobs
  <2>2. Fewer([job EXCEPT ![t].pc = p])
    BY <1>4, <1>5, FewerMoves DEF JobPC
  <2>3. QED
    BY <1>1, <1>4, <1>5, <2>1, <2>2 DEF Held, Fewer
<1>6. \A g \in {ready, FALSE} : Held(g, Release(job, t))
  <2>1. \A u \in Tasks : Release(job, t)[u].pc # "idle" => Release(job, t)[u] = job[u]
    BY <1>1, ReleaseType
  <2>2. QED
    BY <1>1, <2>1 DEF Held
<1>7. CASE RequestResponse(Release(job, t), loop, inbox)
  BY <1>1, <1>6, <1>7, HeldRequest
<1>8. CASE RequestResponse([job EXCEPT ![t].pc = "announce"], loop, inbox) /\ ~WaitForResponse(t)
  BY <1>1, <1>5, <1>8, HeldRequest
<1>9. CASE job' = Release(job, t) /\ UNCHANGED <<ready, inbox>>
  BY <1>1, <1>6, <1>9
<1>10. ASSUME ~WaitForResponse(t), NEW p \in {"dispatch", "announced", "closing"},
              job' = [job EXCEPT ![t].pc = p], UNCHANGED <<ready, inbox>>
       PROVE  Held(ready', job') /\ Heralded(ready', inbox')
  BY <1>1, <1>5, <1>10
<1>11. CASE Reply(t)
  BY <1>7, <1>11 DEF Reply
<1>12. CASE Escalate(t) /\ ~WaitForResponse(t)
  BY <1>8, <1>10, <1>12 DEF Escalate, serverVars
<1>13. CASE ~WaitForResponse(t)
  BY <1>7, <1>9, <1>10, <1>11, <1>12, <1>13
     DEF TaskStep, CompletePhase, CompleteWrapUp, AfterWrapUp, WaitForUser, ReportNewIssue,
         RejectDuplicate, Dispatch, BlockedTool, ToolReturns, ToolFails,
         TransferReturns, TransferFails, ReferAccepted, ReferFails, AfterTransfer, serverVars
<1>14. QED
  BY <1>2, <1>13

LEMMA VerifyLoop ==
  ASSUME Inv, GateSound, Untaken, VerifyHeld, LoopStep, Untaken'
  PROVE  Held(ready', job') /\ Heralded(ready', inbox')
<1>1. /\ inbox \in Seq(Event) /\ job \in Jobs /\ ws = "up" /\ turns = 0 /\ phase = "VERIFY"
      /\ Steady(ws, loop, inbox) /\ Held(ready, job) /\ Heralded(ready, inbox)
  BY DEF Inv, TypeOK, Jobs, GateSound, Untaken, VerifyHeld
<1>2. inbox # <<>> => 1 \in DOMAIN inbox /\ Head(inbox) = inbox[1]
  BY <1>1
<1>3. CASE OnSessionUpdated
  <2>1. /\ inbox # <<>> /\ Head(inbox).kind = "updated"
        /\ \/ inbox' = Tail(inbox) /\ UNCHANGED <<ready, job>>
           \/ RequestResponse(job, loop, Tail(inbox))
    BY <1>3 DEF OnSessionUpdated, Receive
  <2>2. Held(FALSE, job) /\ Heralded(ready, Tail(inbox))
    BY <1>1, <2>1, HeraldedTail DEF Held
  <2>3. QED
    BY <1>1, <2>1, <2>2, HeldRequest
<1>4. CASE OnResponseCreated
  BY <1>1, <1>4 DEF OnResponseCreated, Held, Heralded
<1>5. ~(OnResponseDone \/ AutoAdvance \/ AutoEnd)
  BY <1>1 DEF OnResponseDone, AutoAdvance, Enter, Successor, AutoEnd, Untaken
<1>6. CASE OnFunctionCall
  <2>1. /\ inbox # <<>> /\ Head(inbox).kind = "call" /\ inbox' = Tail(inbox) /\ ready' = ready
    BY <1>6 DEF OnFunctionCall, Receive
  <2>2. PICK t \in Tasks :
          job' = [job EXCEPT ![t] = [pc |-> "queued", tool |-> Head(inbox).tool,
                                     cat |-> Head(inbox).cat, asked |-> Head(inbox).asked,
                                     dup |-> FALSE]]
    BY <1>6 DEF OnFunctionCall
  <2>3. Head(inbox).asked = "VERIFY" => ~ready
    <3>1. ~ \E j0 \in DOMAIN inbox : j0 < 1
      BY <1>1
    <3>2. QED
      BY <1>1, <1>2, <2>1, <3>1 DEF Heralded
  <2>4. Held(ready, job')
    BY <1>1, <2>2, <2>3 DEF Held, Jobs
  <2>5. QED
    BY <1>1, <2>1, <2>4, HeraldedTail
<1>7. ~(OnMalformedCall \/ LoopEnds)
  BY DEF OnMalformedCall, LoopEnds, Untaken
<1>8. CASE LoopAfterClose
  BY <1>1, <1>8 DEF LoopAfterClose, serverVars
<1>9. ~OnFrustration
  BY <1>1, <1>2 DEF OnFrustration, Receive, Steady, Unread
<1>10. ~(LoopReferAccepted \/ LoopReferFails \/ LoopSeesDrop \/ Reconnect \/ GiveUp)
  BY <1>1 DEF LoopReferAccepted, LoopReferFails, LoopSeesDrop, Reconnect, GiveUp, Steady
<1>11. QED
  BY <1>3, <1>4, <1>5, <1>6, <1>7, <1>8, <1>9, <1>10 DEF LoopStep

LEMMA VerifyServer ==
  ASSUME Inv, GateSound, Untaken, VerifyHeld, ServerStep, Untaken'
  PROVE  Held(ready', job') /\ Heralded(ready', inbox')
<1>1. /\ inbox \in Seq(Event) /\ ws = "up" /\ Follows(ready, inbox, resp)
      /\ Held(ready, job) /\ Heralded(ready, inbox)
  BY DEF Inv, TypeOK, GateSound, Untaken, VerifyHeld
<1>2. UNCHANGED <<ready, job>>
  BY DEF ServerStep, CallerSpeaks, ServerCallsTool, ServerEndsResponse, ServerNotice,
     SocketDrops, ServerCloses
<1>3. CASE ServerCallsTool
  <2>1. PICK e : e.kind = "call" /\ inbox' = Append(inbox, e)
    BY <1>3 DEF ServerCallsTool
  <2>2. ready => Unread(inbox, "created")
    BY <1>1, <1>3 DEF ServerCallsTool, Follows
  <2>3. QED
    BY <1>1, <1>2, <2>1, <2>2, HeraldedAppend
<1>4. CASE \E kind \in {"created", "done", "frustrated", "malformed"} :
             inbox' = Append(inbox, Notify(kind))
  <2>1. PICK kind \in {"created", "done", "frustrated", "malformed"} :
          inbox' = Append(inbox, Notify(kind))
    BY <1>4
  <2>2. Notify(kind).kind # "call"
    BY DEF Notify
  <2>3. QED
    BY <1>1, <1>2, <2>1, <2>2, HeraldedAppend
<1>5. ~(SocketDrops \/ ServerCloses)
  BY DEF SocketDrops, ServerCloses, Untaken
<1>6. QED
  BY <1>3, <1>4, <1>5 DEF ServerStep, CallerSpeaks, ServerEndsResponse, ServerNotice

\* VERIFY is entered from GREETING, where nothing has been asked in VERIFY yet.
LEMMA VerifyEntered ==
  ASSUME Inv, NotAskedYet, [Next]_vars, phase = "GREETING", phase' = "VERIFY"
  PROVE  Held(ready', job') /\ Heralded(ready', inbox')
<1>1. /\ job \in Jobs /\ loop \in LoopPC /\ inbox \in Seq(Event) /\ Quiet(inbox)
      /\ \A t \in Tasks : job[t].pc # "idle" => job[t].asked # "VERIFY"
  BY DEF Inv, TypeOK, Jobs, NotAskedYet
<1>2. ASSUME Fewer(job'), Quiet(inbox')
      PROVE  Held(ready', job') /\ Heralded(ready', inbox')
  BY <1>1, <1>2, HeraldedQuiet DEF Held, Fewer
<1>3. ASSUME NEW t \in Tasks, CompletePhase(t)
      PROVE  Held(ready', job') /\ Heralded(ready', inbox')
  <2>1. RequestResponse(Release(job, t), loop, inbox)
    BY <1>3 DEF CompletePhase
  <2>2. Release(job, t) \in Jobs /\ phase' \in Phases /\ TypeOK
    BY <1>1, ReleaseType DEF Phases, Inv
  <2>3. Alike(job', Release(job, t)) /\ inbox' \in {inbox, Append(inbox, Notify("created"))}
    BY <1>1, <2>1, <2>2, RequestKeeps
  <2>4. Quiet(inbox')
    BY <1>1, <2>3, QuietNotice
  <2>5. Fewer(job')
    BY <2>3, FewerRelease DEF Alike, Fewer
  <2>6. QED
    BY <1>2, <2>4, <2>5
<1>4. CASE AutoAdvance
  <2>1. job' = Woken(job) /\ inbox # <<>> /\ inbox' = Tail(inbox)
    BY <1>4 DEF AutoAdvance, Receive
  <2>2. QED
    BY <1>1, <1>2, <2>1, FewerWoken, QuietTail
<1>5. (\E t \in Tasks : CompletePhase(t)) \/ AutoAdvance
  <2>1. ASSUME NEW t \in Tasks, TaskStep(t) \/ WaitTimesOut(t), ~CompletePhase(t)
        PROVE  phase' \in {phase, "TRIAGE"}
    BY <2>1
       DEF TaskStep, WaitTimesOut, WaitForResponse, Enter, CompleteWrapUp, AfterWrapUp,
           StayInPhase, WaitForUser, ReportNewIssue, RejectDuplicate, Dispatch, BlockedTool,
           ToolReturns, ToolFails, RecordToolCalled, TransferReturns, TransferFails,
           ReferAccepted, ReferFails, AfterTransfer, fsmVars
  <2>2. ASSUME LoopStep \/ LoopWaitTimesOut, ~AutoAdvance
        PROVE  phase' = phase
    BY <2>2
       DEF LoopStep, LoopWaitTimesOut, OnSessionUpdated, OnResponseCreated, OnResponseDone,
           AutoEnd, Enter, StayInPhase, OnFunctionCall, OnMalformedCall, OnFrustration,
           LoopReferAccepted, LoopReferFails, LoopAfterClose, LoopEnds, LoopSeesDrop,
           Reconnect, GiveUp, fsmVars
  <2>3. CASE ServerStep \/ CloseHandshake \/ CallOver \/ UNCHANGED vars
    BY <2>3
       DEF ServerStep, CallerSpeaks, ServerCallsTool, ServerEndsResponse, ServerNotice,
           SocketDrops, ServerCloses, CloseHandshake, CallOver, vars, fsmVars
  <2>4. QED
    BY <2>1, <2>2, <2>3 DEF Next
<1>6. QED
  BY <1>3, <1>4, <1>5

LEMMA VerifyStep ==
  ASSUME Env \cap {"slow", "drop", "frustration"} = {},
         Inv, GateSound, NotAskedYet, VerifyHeld, [Next]_vars
  PROVE  VerifyHeld'
<1> SUFFICES ASSUME Untaken' PROVE Held(ready', job') /\ Heralded(ready', inbox')
  BY DEF VerifyHeld, Held, Heralded
<1>1. phase' = "VERIFY" /\ turns' = 0 /\ ws' = "up"
  BY DEF Untaken
<1>2. phase \in {"GREETING", "VERIFY"}
  BY <1>1, PhaseMoves, Successors DEF Inv, TypeOK, Phases, Successor
<1>3. CASE phase = "GREETING"
  BY <1>1, <1>3, VerifyEntered
<1>4. CASE phase = "VERIFY"
  <2>1. turns \in Nat /\ loop # "backoff" /\ loop # "announce" /\ LoopWoken(loop) = loop
    BY DEF Inv, TypeOK, GateSound, Steady, LoopWoken
  <2>2. turns = 0 /\ ws = "up"
    <3>1. ASSUME NEW t \in Tasks, TaskStep(t)
          PROVE  ws = "up" /\ turns = 0
      BY <1>1, <1>4, <3>1
         DEF TaskStep, WaitForResponse, CompletePhase, Enter, Successor, CompleteWrapUp,
             AfterWrapUp, StayInPhase, WaitForUser, ReportNewIssue, RejectDuplicate, Dispatch,
             BlockedTool, ToolReturns, ToolFails, Reply, Escalate, RecordToolCalled,
             TransferReturns, TransferFails, ReferAccepted, ReferFails, AfterTransfer,
             CloseSocket, fsmVars, sockVars
    <3>2. CASE LoopStep
      BY <1>1, <1>4, <2>1, <3>2
         DEF LoopStep, OnSessionUpdated, OnResponseCreated, OnResponseDone, AutoAdvance,
             AutoEnd, Enter, Successor, StayInPhase, OnFunctionCall, OnMalformedCall,
             OnFrustration, LoopReferAccepted, LoopReferFails, LoopAfterClose, LoopEnds,
             LoopSeesDrop, Reconnect, GiveUp, CloseSocket, fsmVars, sockVars
    <3>3. CASE \/ \E t \in Tasks : WaitTimesOut(t)
               \/ LoopWaitTimesOut \/ ServerStep \/ CloseHandshake \/ CallOver \/ UNCHANGED vars
      BY <1>1, <1>4, <3>3
         DEF WaitTimesOut, LoopWaitTimesOut, ServerStep, CallerSpeaks, ServerCallsTool,
             ServerEndsResponse, ServerNotice, SocketDrops, ServerCloses, CloseHandshake,
             CallOver, vars, fsmVars, sockVars
    <3>4. QED
      BY <3>1, <3>2, <3>3 DEF Next
  <2>3. Untaken /\ Held(ready, job) /\ Heralded(ready, inbox)
    BY <1>4, <2>2 DEF Untaken, VerifyHeld
  <2>4. ASSUME NEW t \in Tasks, WaitTimesOut(t) PROVE FALSE
    BY <2>2, <2>4 DEF WaitTimesOut
  <2>5. ~LoopWaitTimesOut /\ ~CloseHandshake
    BY <2>1, <2>2 DEF LoopWaitTimesOut, CloseHandshake
  <2>6. CASE CallOver \/ UNCHANGED vars
    BY <2>3, <2>6 DEF CallOver, vars, serverVars
  <2>7. QED
    BY <2>3, <2>4, <2>5, <2>6, VerifyTask, VerifyLoop, VerifyServer DEF Next
<1>5. QED
  BY <1>2, <1>3, <1>4

\* VERIFY is left in a turn or after one, or by a phase_complete called before VERIFY was
\* entered: under the conditions of GateFollows the call of a response made in VERIFY
\* waits until that response is counted. (handle, wait_for_response_done, record_turn.)
THEOREM VerificationTakesATurn ==
  ASSUME Env \cap {"slow", "drop", "frustration"} = {}
  PROVE  Spec => VerifyTakesATurn
<1>1. Init => NotAskedYet /\ VerifyHeld
  BY JobFacts, QuietFew DEF Init, NotAskedYet, VerifyHeld, Untaken
<1>2. ASSUME Inv, GateSound, VerifyHeld, [Next]_vars,
             phase = "VERIFY", phase' # "VERIFY", ws = "up", ~(turns > 0), ~AutoAdvance
      PROVE  job[Head(lockQueue)].asked # "VERIFY"
  <2>1. Untaken /\ Held(ready, job)
    BY <1>2 DEF Untaken, VerifyHeld, Inv, TypeOK
  <2>2. PICK t \in Tasks : CompletePhase(t) \/ ReportNewIssue(t)
    <3>1. ASSUME NEW t \in Tasks, TaskStep(t) \/ WaitTimesOut(t),
                 ~(CompletePhase(t) \/ ReportNewIssue(t))
          PROVE  phase' = phase
      BY <3>1
         DEF TaskStep, WaitTimesOut, WaitForResponse, CompleteWrapUp, AfterWrapUp,
             StayInPhase, WaitForUser, RejectDuplicate, Dispatch, BlockedTool,
             ToolReturns, ToolFails, RecordToolCalled, TransferReturns, TransferFails,
             ReferAccepted, ReferFails, AfterTransfer, fsmVars
    <3>2. CASE LoopStep \/ LoopWaitTimesOut
      BY <1>2, <3>2
         DEF LoopStep, LoopWaitTimesOut, OnSessionUpdated, OnResponseCreated, OnResponseDone,
             AutoEnd, Enter, StayInPhase, OnFunctionCall, OnMalformedCall, OnFrustration,
             LoopReferAccepted, LoopReferFails, LoopAfterClose, LoopEnds, LoopSeesDrop,
             Reconnect, GiveUp, fsmVars
    <3>3. CASE ServerStep \/ CloseHandshake \/ CallOver \/ UNCHANGED vars
      BY <1>2, <3>3
         DEF ServerStep, CallerSpeaks, ServerCallsTool, ServerEndsResponse, ServerNotice,
             SocketDrops, ServerCloses, CloseHandshake, CallOver, vars, fsmVars
    <3>4. QED
      BY <1>2, <3>1, <3>2, <3>3 DEF Next
  <2>3. Unblocked(t) /\ HoldsLock(t)
    BY <2>2 DEF CompletePhase, ReportNewIssue, Unblocked
  <2>4. t = Head(lockQueue)
    BY <2>3 DEF HoldsLock
  <2>5. QED
    BY <2>1, <2>3, <2>4 DEF Held, Unblocked
<1>3. Inv /\ GateSound /\ NotAskedYet /\ VerifyHeld /\ [Next]_vars => VerifyHeld'
  BY VerifyStep
<1>4. QED
  BY <1>1, <1>2, <1>3, GateInv, NotAskedStep, InvHolds, PTL DEF Spec, VerifyTakesATurn
================================================================================
