----------------------------- MODULE BreakerProofs -----------------------------
(***************************************************************************)
(* Proofs about the circuit breaker of Admission, for every threshold,     *)
(* window and cooldown and every deque that is long enough: what the       *)
(* breaker reads from its deque is what the whole history says.            *)
(*                                                                         *)
(* A count of the deque and a count of the history are compared without    *)
(* counting step by step. The invariant says of every age which runs of    *)
(* equal ages the deque holds, and from it each failure counted on one     *)
(* side gets a failure of its own on the other (EnoughCounted, EnoughKept).*)
(***************************************************************************)
EXTENDS AdmissionProofs

\* Every set of natural numbers has a least element.
LEMMA Least ==
  ASSUME NEW T \in SUBSET Nat, T # {}
  PROVE  \E x \in T : \A y \in T : x <= y
<1> DEFINE R == OpToRel(<, Nat)
<1>1. PICK x \in T : \A y \in T : ~(<<y, x>> \in R)
  BY NatLessThanWellFounded, WFMin
<1>2. \A y \in T : y < x => <<y, x>> \in R
  BY DEF OpToRel
<1> HIDE DEF R
<1>3. \A y \in T : ~(y < x)
  BY <1>1, <1>2
<1>4. QED
  BY <1>3

----------------------------------------------------------------------------
(* The invariant.                                                          *)

\* From place i of s on, k failures have the age a.
RunAt(s, a, k, i) == i + k - 1 \in DOMAIN s /\ s[i] = a /\ s[i + k - 1] = a
Run(s, a, k) == \E i \in DOMAIN s : RunAt(s, a, k, i)

\* The deque s holds the oldest failure first.
OldestFirst(s) == \A i, j \in DOMAIN s : i < j => s[j] <= s[i]

\* What the history h counts is in the deque, or the deque is full of failures
\* that are no older ...
Remembered(s, h) ==
  \A a \in 0..Window, k \in 1..Threshold :
    k <= h[a] => Run(s, a, k) \/ (Len(s) = Remember /\ s[1] <= a)

\* ... and what is in the deque is counted.
Counted(s, h) == \A a \in 0..Window, k \in 1..Threshold : Run(s, a, k) => k <= h[a]

Reflects(s, h) == OldestFirst(s) /\ Remembered(s, h) /\ Counted(s, h)

Deques  == {s \in Seq(0..Window + 1) : Len(s) <= Remember}
Tallies == [0..Window -> 0..Threshold]

LEMMA Bounds == /\ Window \in Nat /\ Threshold \in Nat \ {0} /\ Remember \in Nat \ {0}
                /\ Threshold <= Remember
BY AdmissionAssumption

LEMMA DequeFacts ==
  ASSUME NEW s \in Deques
  PROVE  /\ Len(s) \in Nat /\ DOMAIN s = 1..Len(s) /\ Len(s) <= Remember
         /\ \A i \in 1..Len(s) : s[i] \in 0..Window + 1
<1>1. s \in Seq(0..Window + 1) /\ Len(s) <= Remember
  BY DEF Deques
<1>2. \A S : s \in Seq(S) => /\ Len(s) \in Nat /\ DOMAIN s = 1..Len(s)
                             /\ \A i \in 1..Len(s) : s[i] \in S
  OBVIOUS
<1>3. QED
  BY <1>1, <1>2

LEMMA ReflectsNothing == Reflects(<<>>, [a \in 0..Window |-> 0])
BY Bounds DEF Reflects, OldestFirst, Remembered, Counted, Run

----------------------------------------------------------------------------
(* Time passes.                                                            *)

LEMMA ReflectsTick ==
  ASSUME NEW s \in Deques, NEW h \in Tallies, Reflects(s, h)
  PROVE  Reflects([i \in DOMAIN s |-> AtMost(s[i] + 1, Window + 1)],
                  [a \in 0..Window |-> IF a = 0 THEN 0 ELSE h[a - 1]])
<1> DEFINE r == [i \in DOMAIN s |-> AtMost(s[i] + 1, Window + 1)]
           g == [a \in 0..Window |-> IF a = 0 THEN 0 ELSE h[a - 1]]
<1>1. /\ DOMAIN r = DOMAIN s /\ Len(r) = Len(s)
      /\ \A i \in DOMAIN s : r[i] = AtMost(s[i] + 1, Window + 1)
  BY DequeFacts
<1>2. \A a \in 0..Window : g[a] = IF a = 0 THEN 0 ELSE h[a - 1]
  OBVIOUS
<1> HIDE DEF r, g
<1>3. \A i \in DOMAIN s : /\ s[i] \in 0..Window + 1
                          /\ r[i] = IF s[i] <= Window THEN s[i] + 1 ELSE Window + 1
  BY <1>1, Bounds, DequeFacts DEF AtMost
<1>4. OldestFirst(r)
  BY <1>1, <1>3, Bounds DEF Reflects, OldestFirst
<1>5. \A a \in 1..Window, i \in DOMAIN s : r[i] = a <=> s[i] = a - 1
  BY <1>3, Bounds
<1>6. \A a \in 1..Window, k \in 1..Threshold : Run(r, a, k) <=> Run(s, a - 1, k)
  BY <1>1, <1>5 DEF Run, RunAt
<1>7. \A k \in 1..Threshold : ~Run(r, 0, k)
  BY <1>1, <1>3, Bounds DEF Run, RunAt
<1>8. ASSUME NEW a \in 0..Window, NEW k \in 1..Threshold, k <= g[a]
      PROVE  Run(r, a, k) \/ (Len(r) = Remember /\ r[1] <= a)
  <2>1. a \in 1..Window /\ a - 1 \in 0..Window /\ k <= h[a - 1]
    BY <1>2, <1>8, Bounds
  <2>2. Run(s, a - 1, k) \/ (Len(s) = Remember /\ s[1] <= a - 1)
    BY <2>1 DEF Reflects, Remembered
  <2>3. ASSUME Len(s) = Remember, s[1] <= a - 1
        PROVE  r[1] <= a
    <3>1. 1 \in DOMAIN s
      BY <2>3, Bounds, DequeFacts
    <3>2. QED
      BY <1>3, <2>1, <2>3, <3>1, Bounds
  <2>4. QED
    BY <1>1, <1>6, <2>1, <2>2, <2>3
<1>9. ASSUME NEW a \in 0..Window, NEW k \in 1..Threshold, Run(r, a, k)
      PROVE  k <= g[a]
  <2>1. a \in 1..Window /\ a - 1 \in 0..Window
    BY <1>7, <1>9, Bounds
  <2>2. k <= h[a - 1]
    BY <1>6, <1>9, <2>1 DEF Reflects, Counted
  <2>3. QED
    BY <1>2, <2>1, <2>2
<1>10. Reflects(r, g)
  BY <1>4, <1>8, <1>9 DEF Reflects, Remembered, Counted
<1>11. QED
  BY <1>10 DEF r, g

----------------------------------------------------------------------------
(* A session fails.                                                        *)

\* The new failure comes last, and the oldest makes room for it (d = 1) when the
\* deque is full.
LEMMA AppendedFacts ==
  ASSUME NEW s \in Deques
  PROVE  \E d \in {0, 1} :
           /\ Appended(s) \in Deques /\ Len(Appended(s)) = Len(s) + 1 - d
           /\ d = 1 <=> Len(s) = Remember
           /\ Appended(s)[Len(s) + 1 - d] = 0
           /\ \A i \in 1..(Len(s) - d) : Appended(s)[i] = s[i + d]
<1>1. s \in Seq(0..Window + 1) /\ Len(s) \in 0..Remember
  BY DequeFacts, Bounds DEF Deques
<1>2. 0 \in 0..Window + 1
  BY Bounds
<1>3. CASE Len(s) < Remember
  <2>1. Appended(s) = Append(s, 0)
    BY <1>3 DEF Appended
  <2>2. /\ Append(s, 0) \in Seq(0..Window + 1) /\ Len(Append(s, 0)) = Len(s) + 1
        /\ Append(s, 0)[Len(s) + 1] = 0
        /\ \A i \in 1..Len(s) : Append(s, 0)[i] = s[i]
    BY <1>1, <1>2
  <2>3. QED
    BY <1>1, <1>3, <2>1, <2>2, Bounds DEF Deques
<1>4. CASE ~(Len(s) < Remember)
  <2>1. Len(s) = Remember /\ Appended(s) = Append(Tail(s), 0)
    BY <1>1, <1>4, Bounds DEF Appended
  <2>2. /\ Tail(s) \in Seq(0..Window + 1) /\ Len(Tail(s)) = Len(s) - 1
        /\ \A i \in 1..(Len(s) - 1) : Tail(s)[i] = s[i + 1]
    BY <1>1, <2>1, Bounds
  <2>3. /\ Append(Tail(s), 0) \in Seq(0..Window + 1) /\ Len(Append(Tail(s), 0)) = Len(s)
        /\ Append(Tail(s), 0)[Len(s)] = 0
        /\ \A i \in 1..(Len(s) - 1) : Append(Tail(s), 0)[i] = Tail(s)[i]
    BY <1>1, <1>2, <2>1, <2>2, Bounds
  <2>4. QED
    BY <1>1, <2>1, <2>2, <2>3, Bounds DEF Deques
<1>5. QED
  BY <1>3, <1>4

LEMMA ReflectsFailure ==
  ASSUME NEW s \in Deques, NEW h \in Tallies, Reflects(s, h)
  PROVE  Reflects(Appended(s), [h EXCEPT ![0] = AtMost(h[0] + 1, Threshold)])
<1> DEFINE r == Appended(s)
           g == [h EXCEPT ![0] = AtMost(h[0] + 1, Threshold)]
           n == Len(s)
           m == Len(r)
<1>1. PICK d \in {0, 1} : /\ r \in Deques /\ m = n + 1 - d
                          /\ d = 1 <=> n = Remember
                          /\ r[m] = 0
                          /\ \A i \in 1..(n - d) : r[i] = s[i + d]
  BY AppendedFacts
<1>2. /\ 0 \in 0..Window /\ h[0] \in 0..Threshold
      /\ g[0] = IF h[0] < Threshold THEN h[0] + 1 ELSE Threshold
      /\ \A a \in 0..Window : a # 0 => g[a] = h[a]
  BY Bounds DEF Tallies, AtMost
<1>3. /\ n \in Nat /\ DOMAIN s = 1..n /\ n <= Remember
      /\ \A i \in 1..n : s[i] \in 0..Window + 1
  BY DequeFacts
<1> HIDE DEF r, g, n, m
<1>4. /\ m \in Nat \ {0} /\ DOMAIN r = 1..m
      /\ \A i \in 1..m : r[i] \in 0..Window + 1
  <2>1. m \in Nat /\ DOMAIN r = 1..m /\ \A i \in 1..m : r[i] \in 0..Window + 1
    BY <1>1, DequeFacts DEF m
  <2>2. m # 0
    BY <1>1, <1>3, Bounds
  <2>3. QED
    BY <2>1, <2>2
<1>5. \A i, j \in 1..n : i <= j => s[j] <= s[i]
  BY <1>3, Bounds DEF Reflects, OldestFirst
<1>6. \A i \in 1..m : i # m => i + d \in 1..n /\ r[i] = s[i + d]
  BY <1>1, <1>3, <1>4
<1>7. OldestFirst(r)
  BY <1>1, <1>4, <1>5, <1>6, Bounds DEF OldestFirst
<1>8. \A i \in 1..n : i > d => i - d \in 1..m /\ i - d # m /\ r[i - d] = s[i]
  BY <1>1, <1>3, <1>4
<1>9. d = 1 => m = Remember /\ r[1] <= s[1]
  <2>1. ASSUME d = 1, m # 1 PROVE r[1] = s[2] /\ 2 \in 1..n /\ s[2] <= s[1]
    BY <1>1, <1>3, <1>4, <1>5, <2>1
  <2>2. d = 1 => m = Remember /\ 1 \in 1..n
    BY <1>1, <1>3, Bounds
  <2>3. QED
    BY <1>1, <1>3, <1>4, <2>1, <2>2
<1>10. ASSUME NEW a \in 0..Window, NEW k \in 1..Threshold, k <= g[a]
       PROVE  Run(r, a, k) \/ (m = Remember /\ r[1] <= a)
  <2>1. CASE d = 1 /\ s[1] <= a
    <3>1. s[1] \in 0..Window + 1 /\ r[1] \in 0..Window + 1
      BY <1>1, <1>3, <1>4, <2>1, Bounds
    <3>2. QED
      BY <1>9, <2>1, <3>1, Bounds
  <2>2. ASSUME NEW i \in DOMAIN s, s[i] = a, i <= d
        PROVE  d = 1 /\ s[1] <= a
    BY <1>3, <2>2
  <2>3. CASE k <= h[a] /\ Run(s, a, k)
    <3>1. PICK i \in DOMAIN s : RunAt(s, a, k, i)
      BY <2>3 DEF Run
    <3>2. CASE i > d
      <4>1. i + k - 1 \in 1..n /\ i + k - 1 > d /\ (i + k - 1) - d = (i - d) + k - 1
        BY <1>3, <3>1, <3>2 DEF RunAt
      <4>2. RunAt(r, a, k, i - d)
        BY <1>3, <1>4, <1>8, <3>1, <3>2, <4>1 DEF RunAt
      <4>3. QED
        BY <1>3, <1>4, <1>8, <3>2, <4>2 DEF Run
    <3>3. QED
      BY <1>3, <2>1, <2>2, <3>1, <3>2 DEF RunAt
  <2>4. CASE k <= h[a] /\ ~Run(s, a, k)
    <3>1. n = Remember /\ s[1] <= a
      BY <2>4 DEF Reflects, Remembered, n
    <3>2. QED
      BY <1>1, <2>1, <3>1
  <2>5. CASE ~(k <= h[a])
    <3>1. a = 0 /\ k = h[0] + 1
      <4>1. a = 0
        BY <1>2, <1>10, <2>5
      <4>2. k <= (IF h[0] < Threshold THEN h[0] + 1 ELSE Threshold) /\ ~(k <= h[0])
        BY <1>2, <1>10, <2>5, <4>1
      <4>3. QED
        BY <1>2, <4>1, <4>2, Bounds
    <3>2. CASE k = 1
      <4>1. RunAt(r, 0, 1, m) /\ m \in DOMAIN r
        BY <1>1, <1>4 DEF RunAt
      <4>2. QED
        BY <3>1, <3>2, <4>1 DEF Run
    <3>3. CASE k # 1
      <4>1. k - 1 \in 1..Threshold /\ k - 1 <= h[0]
        BY <1>2, <3>1, <3>3, Bounds
      <4>2. Run(s, 0, k - 1) \/ (n = Remember /\ s[1] <= 0)
        BY <1>2, <4>1 DEF Reflects, Remembered, n
      <4>3. CASE n = Remember /\ s[1] <= 0
        BY <1>1, <2>1, <3>1, <4>3
      <4>4. CASE Run(s, 0, k - 1)
        <5>1. PICK i \in DOMAIN s : RunAt(s, 0, k - 1, i)
          BY <4>4 DEF Run
        <5>2. i \in 1..n /\ s[i] = 0 /\ i + k - 2 \in 1..n
          BY <1>3, <4>1, <5>1 DEF RunAt
        <5>3. CASE i > d
          <6>1. i - d \in 1..m /\ r[i - d] = 0 /\ (i - d) + k - 1 \in 1..m
            <7>1. i - d \in 1..m /\ r[i - d] = 0
              BY <1>8, <5>2, <5>3
            <7>2. d \in Nat /\ i \in Nat /\ k \in Nat /\ 1 <= k /\ 1 <= i - d /\ i + k - 2 <= n
              BY <1>3, <5>2, <5>3, Bounds
            <7>3. m = n + 1 - d /\ n \in Nat
              BY <1>1, <1>3
            <7>4. (i - d) + k - 1 \in Int /\ 1 <= (i - d) + k - 1 /\ (i - d) + k - 1 <= m
              BY <7>2, <7>3
            <7>5. QED
              BY <1>4, <7>1, <7>4
          <6>2. r[(i - d) + k - 1] = 0
            <7>1. r[(i - d) + k - 1] <= r[i - d]
              BY <1>4, <1>7, <3>3, <6>1 DEF OldestFirst
            <7>2. QED
              BY <1>4, <6>1, <7>1, Bounds
          <6>3. QED
            BY <1>4, <3>1, <6>1, <6>2 DEF Run, RunAt
        <5>4. QED
          BY <1>3, <2>1, <2>2, <3>1, <5>2, <5>3
      <4>5. QED
        BY <4>2, <4>3, <4>4
    <3>4. QED
      BY <3>2, <3>3
  <2>6. QED
    BY <2>3, <2>4, <2>5
<1>11. ASSUME NEW a \in 0..Window, NEW k \in 1..Threshold, Run(r, a, k)
       PROVE  k <= g[a]
  <2>1. PICK i \in 1..m : i + k - 1 \in 1..m /\ r[i] = a /\ r[i + k - 1] = a
    BY <1>4, <1>11 DEF Run, RunAt
  <2>2. \A e \in 0..Window : h[e] \in 0..Threshold /\ h[e] <= g[e]
    BY <1>2, Bounds DEF Tallies
  <2>3. CASE i + k - 1 # m
    <3>1. i # m /\ (i + k - 1) + d = (i + d) + k - 1
      BY <1>4, <2>1, <2>3
    <3>2. /\ i + d \in 1..n /\ s[i + d] = a
          /\ (i + d) + k - 1 \in 1..n /\ s[(i + d) + k - 1] = a
      BY <1>6, <2>1, <2>3, <3>1
    <3>3. Run(s, a, k)
      BY <1>3, <3>2 DEF Run, RunAt
    <3>4. k <= h[a]
      BY <3>3 DEF Reflects, Counted
    <3>5. QED
      BY <1>2, <2>2, <3>4, Bounds DEF Tallies
  <2>4. CASE i + k - 1 = m
    <3>1. a = 0
      BY <1>1, <2>1, <2>4
    <3>2. CASE k = 1
      BY <1>2, <3>1, <3>2, Bounds
    <3>3. CASE k # 1
      <4>1. i # m /\ k - 1 \in 1..Threshold /\ i + d \in 1..n /\ s[i + d] = 0
        BY <1>4, <1>6, <2>1, <2>4, <3>1, <3>3, Bounds
      <4>2. (i + d) + (k - 1) - 1 = n /\ n \in 1..n
        BY <1>1, <1>3, <1>4, <2>1, <2>4, <4>1
      <4>3. s[n] = 0
        BY <1>3, <1>5, <4>1, <4>2, Bounds
      <4>4. Run(s, 0, k - 1)
        BY <1>3, <4>1, <4>2, <4>3 DEF Run, RunAt
      <4>5. k - 1 <= h[0]
        BY <1>2, <4>1, <4>4 DEF Reflects, Counted
      <4>6. QED
        BY <1>2, <3>1, <4>5, Bounds
    <3>4. QED
      BY <3>2, <3>3
  <2>5. QED
    BY <2>3, <2>4
<1>12. Reflects(r, g)
  BY <1>7, <1>10, <1>11 DEF Reflects, Remembered, Counted, m
<1>13. QED
  BY <1>12 DEF r, g

----------------------------------------------------------------------------
(* Counting.                                                               *)

\* The place of the oldest failure of age a.
First(s, a) ==
  CHOOSE i \in DOMAIN s : s[i] = a /\ \A j \in DOMAIN s : s[j] = a => i <= j

LEMMA FirstFacts ==
  ASSUME NEW s \in Deques, NEW a, NEW l \in DOMAIN s, s[l] = a
  PROVE  /\ First(s, a) \in DOMAIN s /\ s[First(s, a)] = a
         /\ \A j \in DOMAIN s : s[j] = a => First(s, a) <= j
<1>1. DOMAIN s \subseteq Nat
  BY DequeFacts
<1>2. \E i \in DOMAIN s : s[i] = a /\ \A j \in DOMAIN s : s[j] = a => i <= j
  <2> DEFINE T == {i \in DOMAIN s : s[i] = a}
  <2>1. T \in SUBSET Nat /\ T # {}
    BY <1>1
  <2>2. \E x \in T : \A y \in T : x <= y
    BY <2>1, Least
  <2>3. QED
    BY <2>2
<1>3. QED
  BY <1>2 DEF First

\* The failures of one age stand together.
LEMMA Together ==
  ASSUME NEW s \in Deques, OldestFirst(s), NEW i \in DOMAIN s, NEW j \in DOMAIN s,
         NEW l \in DOMAIN s, i <= l, l <= j, s[i] = s[j]
  PROVE  s[l] = s[i]
<1>1. i \in Nat /\ j \in Nat /\ l \in Nat
  BY DequeFacts
<1>2. s[i] \in Int /\ s[j] \in Int /\ s[l] \in Int
  BY DequeFacts, Bounds
<1>3. s[l] <= s[i] /\ s[j] <= s[l]
  BY <1>1, <1>2 DEF OldestFirst
<1>4. QED
  BY <1>2, <1>3

LEMMA FailuresFinite ==
  IsFiniteSet(Failures) /\ Cardinality(Failures) \in Nat
<1>1. IsFiniteSet((0..Window) \X (1..Threshold))
  <2>1. IsFiniteSet(0..Window) /\ IsFiniteSet(1..Threshold)
    BY FS_Interval, Bounds
  <2>2. QED
    BY <2>1, FS_Product
<1>2. Failures \in SUBSET ((0..Window) \X (1..Threshold))
  BY DEF Failures
<1>3. QED
  BY <1>1, <1>2, FS_Subset, FS_CardinalityType

LEMMA RecentFinite ==
  ASSUME ages \in Deques
  PROVE  IsFiniteSet(Recent) /\ Cardinality(Recent) \in Nat
<1>1. DOMAIN ages = 1..Len(ages) /\ Len(ages) \in Nat
  BY DequeFacts
<1>2. IsFiniteSet(DOMAIN ages)
  BY <1>1, FS_Interval
<1>3. Recent \in SUBSET DOMAIN ages
  BY DEF Recent
<1>4. QED
  BY <1>2, <1>3, FS_Subset, FS_CardinalityType

\* Enough failures in the deque are enough in the history: each recent one has an
\* age and a number of its own.
LEMMA EnoughCounted ==
  ASSUME ages \in Deques, tally \in Tallies, Reflects(ages, tally),
         Cardinality(Recent) >= Threshold
  PROVE  Cardinality(Failures) >= Threshold
<1> DEFINE rank(i) == i - First(ages, ages[i]) + 1
<1>1. DOMAIN ages \subseteq Nat
  BY DequeFacts
<1>2. ASSUME NEW i \in Recent
      PROVE  /\ i \in DOMAIN ages /\ ages[i] \in 0..Window
             /\ First(ages, ages[i]) \in DOMAIN ages
             /\ ages[First(ages, ages[i])] = ages[i] /\ First(ages, ages[i]) <= i
  <2>1. i \in DOMAIN ages /\ ages[i] \in 0..Window
    BY DequeFacts, Bounds DEF Recent
  <2>2. QED
    BY <2>1, FirstFacts
<1>3. ASSUME NEW i \in Recent PROVE rank(i) \in Nat \ {0}
  BY <1>1, <1>2
<1>4. CASE \E i \in Recent : rank(i) > Threshold
  <2>1. PICK i \in Recent : rank(i) > Threshold
    BY <1>4
  <2> DEFINE f == First(ages, ages[i])
             l == f + Threshold - 1
  <2>2. /\ i \in DOMAIN ages /\ ages[i] \in 0..Window /\ f \in DOMAIN ages
        /\ ages[f] = ages[i] /\ f <= i /\ f \in Nat /\ i \in Nat
    BY <1>1, <1>2
  <2> HIDE DEF f
  <2>3. f <= l /\ l <= i /\ l \in DOMAIN ages
    <3>1. f <= l /\ l <= i /\ l \in Nat
      BY <2>1, <2>2, Bounds DEF f
    <3>2. QED
      BY <2>2, <3>1, DequeFacts
  <2>4. ages[l] = ages[i]
    BY <2>2, <2>3, Together DEF Reflects
  <2>5. Run(ages, ages[i], Threshold)
    BY <2>2, <2>3, <2>4 DEF Run, RunAt
  <2>6. Threshold <= tally[ages[i]] /\ Threshold \in 1..Threshold
    BY <2>2, <2>5, Bounds DEF Reflects, Counted
  <2> DEFINE g == [k \in 1..Threshold |-> <<ages[i], k>>]
  <2>7. \A k \in 1..Threshold : <<ages[i], k>> \in Failures
    BY <2>2, <2>6, Bounds DEF Failures, Tallies
  <2>8. g \in Injection(1..Threshold, Failures)
    BY <2>7 DEF Injection, IsInjective
  <2>9. Cardinality(1..Threshold) = Threshold
    BY FS_Interval, Bounds
  <2>10. Cardinality(1..Threshold) <= Cardinality(Failures)
    BY <2>8, FailuresFinite, FS_Injection
  <2>11. QED
    BY <2>9, <2>10, FailuresFinite, Bounds
<1>5. CASE ~ \E i \in Recent : rank(i) > Threshold
  <2> DEFINE g == [i \in Recent |-> <<ages[i], rank(i)>>]
  <2>1. ASSUME NEW i \in Recent PROVE <<ages[i], rank(i)>> \in Failures
    <3> DEFINE f == First(ages, ages[i])
    <3>1. /\ i \in DOMAIN ages /\ ages[i] \in 0..Window /\ f \in DOMAIN ages
          /\ ages[f] = ages[i] /\ f \in Nat /\ i \in Nat
      BY <1>1, <1>2
    <3>2. rank(i) \in 1..Threshold /\ f + rank(i) - 1 = i
      BY <1>3, <1>5, <3>1, Bounds
    <3> HIDE DEF f, rank
    <3>3. Run(ages, ages[i], rank(i))
      BY <3>1, <3>2 DEF Run, RunAt
    <3>4. rank(i) <= tally[ages[i]]
      BY <3>1, <3>2, <3>3 DEF Reflects, Counted
    <3>5. QED
      BY <3>1, <3>2, <3>4 DEF Failures
  <2>2. ASSUME NEW i \in Recent, NEW j \in Recent, ages[i] = ages[j], rank(i) = rank(j)
        PROVE  i = j
    <3>1. i \in Nat /\ j \in Nat /\ First(ages, ages[i]) \in Nat
      BY <1>1, <1>2
    <3>2. QED
      BY <2>2, <3>1
  <2>3. g \in Injection(Recent, Failures)
    <3> HIDE DEF rank
    <3>1. QED
      BY <2>1, <2>2 DEF Injection, IsInjective
  <2>4. Cardinality(Recent) <= Cardinality(Failures)
    BY <2>3, FailuresFinite, FS_Injection
  <2>5. QED
    BY <2>4, FailuresFinite, RecentFinite, Bounds
<1>6. QED
  BY <1>4, <1>5

\* Enough failures in the history are enough in the deque, which has a place for
\* each, or is full of younger ones.
LEMMA EnoughKept ==
  ASSUME ages \in Deques, tally \in Tallies, Reflects(ages, tally),
         Cardinality(Failures) >= Threshold
  PROVE  Cardinality(Recent) >= Threshold
<1>1. DOMAIN ages = 1..Len(ages) /\ Len(ages) \in Nat
  BY DequeFacts
<1>2. CASE Len(ages) = Remember /\ ages[1] <= Window
  <2>1. \A i \in DOMAIN ages : ages[i] <= Window
    <3>1. 1 \in DOMAIN ages /\ ages[1] \in 0..Window + 1
      BY <1>1, <1>2, Bounds, DequeFacts
    <3>2. \A i \in DOMAIN ages : i # 1 => ages[i] <= ages[1] /\ ages[i] \in 0..Window + 1
      BY <1>1, <3>1, DequeFacts DEF Reflects, OldestFirst
    <3>3. QED
      BY <1>2, <3>1, <3>2, Bounds
  <2>2. Recent = 1..Remember
    BY <1>1, <1>2, <2>1 DEF Recent
  <2>3. Cardinality(1..Remember) = Remember
    BY FS_Interval, Bounds
  <2>4. QED
    BY <2>2, <2>3, Bounds
<1>3. CASE ~(Len(ages) = Remember /\ ages[1] <= Window)
  <2> DEFINE place(f) == First(ages, f[1]) + f[2] - 1
             g == [f \in Failures |-> place(f)]
  <2>1. ASSUME NEW f \in Failures
        PROVE  /\ f[1] \in 0..Window /\ f[2] \in 1..Threshold /\ f = <<f[1], f[2]>>
               /\ First(ages, f[1]) \in Nat
               /\ place(f) \in DOMAIN ages /\ ages[place(f)] = f[1]
    <3>1. /\ f[1] \in 0..Window /\ f[2] \in 1..Threshold /\ f = <<f[1], f[2]>>
          /\ f[2] <= tally[f[1]]
      BY DEF Failures
    <3>2. ~(Len(ages) = Remember /\ ages[1] <= f[1])
      <4>1. Len(ages) = Remember => ages[1] \in 0..Window + 1
        BY <1>1, Bounds, DequeFacts
      <4>2. QED
        BY <1>3, <3>1, <4>1, Bounds
    <3>3. PICK i \in DOMAIN ages : RunAt(ages, f[1], f[2], i)
      BY <3>1, <3>2 DEF Reflects, Remembered, Run
    <3> DEFINE e == First(ages, f[1])
               j == i + f[2] - 1
    <3>4. ages[i] = f[1] /\ j \in DOMAIN ages /\ ages[j] = f[1]
      BY <3>3 DEF RunAt
    <3>5. e \in DOMAIN ages /\ ages[e] = f[1] /\ e <= i
      BY <3>4, FirstFacts
    <3> HIDE DEF e
    <3>6. e <= e + f[2] - 1 /\ e + f[2] - 1 <= j /\ e + f[2] - 1 \in DOMAIN ages /\ e \in Nat
      BY <1>1, <3>1, <3>4, <3>5
    <3>7. ages[e + f[2] - 1] = f[1]
      BY <3>4, <3>5, <3>6, Together DEF Reflects
    <3>8. QED
      BY <3>1, <3>6, <3>7 DEF e
  <2>2. ASSUME NEW f \in Failures, NEW h \in Failures, place(f) = place(h)
        PROVE  f = h
    <3>1. f[1] = h[1]
      BY <2>1, <2>2
    <3>2. f[2] \in Nat /\ h[2] \in Nat /\ First(ages, f[1]) \in Nat
      BY <2>1
    <3>3. f[2] = h[2]
      BY <2>2, <3>1, <3>2
    <3>4. QED
      BY <2>1, <3>1, <3>3
  <2>3. g \in Injection(Failures, Recent)
    <3>1. \A f \in Failures : place(f) \in Recent
      <4>1. \A f \in Failures : place(f) \in DOMAIN ages /\ ages[place(f)] <= Window
        BY <2>1, Bounds
      <4>2. QED
        BY <4>1 DEF Recent
    <3> HIDE DEF place
    <3>2. QED
      BY <2>2, <3>1 DEF Injection, IsInjective
  <2>4. Cardinality(Failures) <= Cardinality(Recent)
    BY <2>3, RecentFinite, FS_Injection
  <2>5. QED
    BY <2>4, FailuresFinite, RecentFinite, Bounds
<1>4. QED
  BY <1>2, <1>3

\* The last failure of the cooldown is in the deque exactly when it is in the history.
LEMMA CooldownSeen ==
  ASSUME ages \in Deques, tally \in Tallies, Reflects(ages, tally)
  PROVE  (\E i \in Recent : ages[i] < Cooldown) <=> (\E f \in Failures : f[1] < Cooldown)
<1>1. /\ Cooldown \in Nat /\ 1 \in 1..Threshold
      /\ DOMAIN ages = 1..Len(ages) /\ Len(ages) \in Nat
      /\ \A i \in DOMAIN ages : ages[i] \in 0..Window + 1
  BY AdmissionAssumption, Bounds, DequeFacts
<1>2. ASSUME NEW i \in Recent, ages[i] < Cooldown
      PROVE  \E f \in Failures : f[1] < Cooldown
  <2>1. i \in DOMAIN ages /\ ages[i] \in 0..Window
    BY <1>1, Bounds DEF Recent
  <2>2. i + 1 - 1 = i
    BY <1>1, <2>1
  <2>3. Run(ages, ages[i], 1)
    BY <2>1, <2>2 DEF Run, RunAt
  <2>4. 1 <= tally[ages[i]]
    BY <1>1, <2>1, <2>3 DEF Reflects, Counted
  <2>5. <<ages[i], 1>> \in Failures
    BY <1>1, <2>1, <2>4 DEF Failures
  <2>6. QED
    BY <1>2, <2>5
<1>3. ASSUME NEW f \in Failures, f[1] < Cooldown
      PROVE  \E i \in Recent : ages[i] < Cooldown
  <2>1. /\ f[1] \in 0..Window /\ tally[f[1]] \in 0..Threshold
        /\ f[2] \in 1..Threshold /\ f[2] <= tally[f[1]]
    BY DEF Failures, Tallies
  <2>2. 1 <= tally[f[1]]
    BY <2>1, Bounds
  <2>3. Run(ages, f[1], 1) \/ (Len(ages) = Remember /\ ages[1] <= f[1])
    BY <1>1, <2>1, <2>2 DEF Reflects, Remembered
  <2>4. PICK i \in DOMAIN ages : ages[i] <= f[1]
    <3>1. CASE Run(ages, f[1], 1)
      BY <2>1, <3>1, Bounds DEF Run, RunAt
    <3>2. CASE Len(ages) = Remember /\ ages[1] <= f[1]
      BY <1>1, <3>2, Bounds
    <3>3. QED
      BY <2>3, <3>1, <3>2
  <2>5. ages[i] <= Window /\ ages[i] < Cooldown
    BY <1>1, <1>3, <2>1, <2>4, Bounds
  <2>6. QED
    BY <2>5 DEF Recent
<1>4. QED
  BY <1>2, <1>3

----------------------------------------------------------------------------
(* The breaker.                                                            *)

BreakerSound == Reflects(ages, tally)

LEMMA BreakerTypes == ASSUME TypeOK PROVE ages \in Deques /\ tally \in Tallies
BY DEF TypeOK, Deques, Tallies

\* Only three actions touch what the breaker remembers.
LEMMA BreakerActions ==
  ASSUME [Next]_vars
  PROVE  RecordFailure \/ Tick \/ Restart \/ UNCHANGED breakerVars
<1>1. ASSUME gateVars' = gateVars
      PROVE  UNCHANGED breakerVars
  BY <1>1 DEF gateVars
<1>2. ASSUME NEW w \in Webhooks,
             Deliver(w) \/ CallerFound(w) \/ CallerUnknown(w) \/ Decides(w) \/ SessionStep(w)
      PROVE  UNCHANGED breakerVars
  <2>1. gateVars' = gateVars
    BY <1>2 DEF Deliver, CallerFound, CallerUnknown, Decides, StartAccept, Accepted, AcceptFails,
                Rejected, RejectFails, SessionStep, SessionEnds, FailureHangupAnswered,
                FarewellAnswered, SaveCdr
  <2> QED BY <1>1, <2>1
<1>3. ASSUME NEW c \in Calls, Outside(c)
      PROVE  UNCHANGED breakerVars
  <2>1. gateVars' = gateVars
    BY <1>3 DEF Outside, Escalates, AsksRefer, AsksHangup, HangupAnswered, WrapsUp, CallerHangsUp,
                ReferAnswered
  <2> QED BY <1>1, <2>1
<1>4. ASSUME NEW w \in Webhooks, SessionFails(w)
      PROVE  RecordFailure
  BY <1>4 DEF SessionFails
<1>5. CASE UNCHANGED vars
  BY <1>5 DEF vars, gateVars
<1>6. ASSUME SessionSpends \/ OtherSessionFails \/ SetMaintenance \/ Midnight
      PROVE  RecordFailure \/ UNCHANGED breakerVars
  BY <1>6 DEF SessionSpends, OtherSessionFails, SetMaintenance, Midnight
<1>7. QED
  BY <1>2, <1>3, <1>4, <1>5, <1>6 DEF Next

LEMMA BreakerStep == TypeOK /\ BreakerSound /\ [Next]_vars => BreakerSound'
<1> SUFFICES ASSUME TypeOK, BreakerSound, [Next]_vars PROVE BreakerSound'
  OBVIOUS
<1>1. ages \in Deques /\ tally \in Tallies /\ Reflects(ages, tally)
  BY BreakerTypes DEF BreakerSound
<1>2. CASE RecordFailure
  BY <1>1, <1>2, ReflectsFailure DEF RecordFailure, BreakerSound
<1>3. CASE Tick
  BY <1>1, <1>3, ReflectsTick DEF Tick, BreakerSound
<1>4. CASE Restart
  BY <1>4, ReflectsNothing DEF Restart, BreakerSound
<1>5. CASE UNCHANGED breakerVars
  BY <1>1, <1>5 DEF breakerVars, BreakerSound
<1>6. QED
  BY <1>2, <1>3, <1>4, <1>5, BreakerActions

\* For every threshold, window, cooldown and length of the deque not below the
\* threshold: the breaker is open exactly when all failures since the start, also
\* those the deque has dropped, are enough in the window and one is in the
\* cooldown. (is_circuit_open, record_reconnect_failure.)
THEOREM BreakerIsTrue == Spec => []BreakerMatchesHistory
<1>1. Init => BreakerSound
  BY ReflectsNothing DEF Init, BreakerSound
<1>2. TypeOK /\ BreakerSound => BreakerMatchesHistory
  <2> SUFFICES ASSUME TypeOK, BreakerSound PROVE BreakerMatchesHistory
    OBVIOUS
  <2>1. ages \in Deques /\ tally \in Tallies /\ Reflects(ages, tally)
    BY BreakerTypes DEF BreakerSound
  <2>2. Cardinality(Recent) >= Threshold <=> Cardinality(Failures) >= Threshold
    BY <2>1, EnoughCounted, EnoughKept
  <2>3. QED
    BY <2>1, <2>2, CooldownSeen DEF BreakerMatchesHistory, CircuitOpen
<1>3. QED
  BY <1>1, <1>2, BreakerStep, TypeCorrect, PTL DEF Spec

================================================================================
