-------------------------- MODULE FairQueueProofs --------------------------
(***************************************************************************)
(* The admission queue is correct for every number of requests and users,  *)
(* every capacity and window, fair or not: no slot is leaked or given out  *)
(* twice, no slot idles while somebody waits, no live waiter loses its     *)
(* sender, and the queue implements the abstract gate of Admission.tla.    *)
(***************************************************************************)
EXTENDS FairQueue, FiniteSetTheorems, SequenceTheorems, TLAPS

-----------------------------------------------------------------------------
(* Sequences *)

\* What removing one element of the waiters deque leaves.
LEMMA RemoveAtFacts ==
  ASSUME NEW S, NEW s \in Seq(S), NEW i \in 1..Len(s)
  PROVE  /\ RemoveAt(s, i) \in Seq(S)
         /\ Len(RemoveAt(s, i)) = Len(s) - 1
         /\ \A j \in 1..(Len(s) - 1) :
              RemoveAt(s, i)[j] = IF j < i THEN s[j] ELSE s[j + 1]
<1> DEFINE a == SubSeq(s, 1, i - 1)
           b == SubSeq(s, i + 1, Len(s))
<1>1. /\ a \in Seq(S) /\ Len(a) = i - 1
      /\ \A j \in 1..(i - 1) : a[j] = s[j]
  <2>1. Len(s) \in Nat /\ i \in Int /\ \A j \in 1..(i - 1) : s[j] \in S
    OBVIOUS
  <2>2. QED
    BY <2>1, SubSeqProperties
<1>2. /\ b \in Seq(S) /\ Len(b) = Len(s) - i
      /\ \A j \in 1..(Len(s) - i) : b[j] = s[i + j]
  <2>1. Len(s) \in Nat /\ i \in Int /\ \A j \in (i + 1)..Len(s) : s[j] \in S
    OBVIOUS
  <2>2. QED
    BY <2>1, SubSeqProperties
<1>3. /\ a \o b \in Seq(S)
      /\ Len(a \o b) = Len(a) + Len(b)
      /\ \A j \in 1..(Len(a) + Len(b)) :
           (a \o b)[j] = IF j <= Len(a) THEN a[j] ELSE b[j - Len(a)]
  <2> HIDE DEF a, b
  <2> QED BY <1>1, <1>2, ConcatProperties
<1>4. RemoveAt(s, i) = a \o b
  BY DEF RemoveAt
<1> HIDE DEF a, b
<1>5. Len(s) \in Nat /\ i \in Nat /\ 1 <= i /\ i <= Len(s)
  OBVIOUS
<1>6. Len(a \o b) = Len(s) - 1
  BY <1>1, <1>2, <1>3, <1>5
<1>7. ASSUME NEW j \in 1..(Len(s) - 1)
      PROVE  (a \o b)[j] = IF j < i THEN s[j] ELSE s[j + 1]
  <2>1. (a \o b)[j] = IF j <= i - 1 THEN a[j] ELSE b[j - (i - 1)]
    BY <1>1, <1>2, <1>3, <1>5
  <2>2. CASE j < i
    BY <2>1, <2>2, <1>1, <1>5
  <2>3. CASE ~(j < i)
    <3>1. j - (i - 1) \in 1..(Len(s) - i) /\ i + (j - (i - 1)) = j + 1
      BY <2>3, <1>5
    <3>2. b[j - (i - 1)] = s[j + 1]
      BY <3>1, <1>2
    <3>3. QED
      BY <2>1, <2>3, <3>2, <1>5
  <2>4. QED
    BY <2>2, <2>3
<1> QED BY <1>3, <1>4, <1>6, <1>7

\* Every non-empty set of naturals has a least element.
LEMMA LeastNatural ==
  ASSUME NEW T \in SUBSET Nat, T # {}
  PROVE  \E x \in T : \A y \in T : x <= y
<1> DEFINE R == OpToRel(<, Nat)
<1>1. IsWellFoundedOn(R, Nat)
  BY NatLessThanWellFounded
<1>2. PICK x \in T : \A y \in T : ~(<<y, x>> \in R)
  <2> HIDE DEF R
  <2> QED BY <1>1, WFMin
<1>3. \A y \in T : ~(y < x)
  BY <1>2 DEF OpToRel
<1> QED BY <1>3

\* A user's deque of ages, as a function.
LEMMA AgesFacts ==
  ASSUME NEW ages \in Seq(0..Window)
  PROVE  /\ Len(ages) \in Nat
         /\ DOMAIN ages = 1..Len(ages)
         /\ \A i \in 1..Len(ages) : ages[i] \in 0..Window
<1> DEFINE S == 0..Window
<1>1. ages \in Seq(S)
  OBVIOUS
<1> HIDE DEF S
<1>2. Len(ages) \in Nat /\ DOMAIN ages = 1..Len(ages) /\ \A i \in 1..Len(ages) : ages[i] \in S
  BY <1>1
<1> QED BY <1>2 DEF S

\* prune stops somewhere.
LEMMA ExpiredFacts ==
  ASSUME NEW ages \in Seq(0..Window)
  PROVE  /\ Expired(ages) \in 0..Len(ages)
         /\ \A i \in 1..Expired(ages) : ages[i] >= Window
         /\ Expired(ages) < Len(ages) => ages[Expired(ages) + 1] < Window
<1> DEFINE Stops(n) == n < Len(ages) => ages[n + 1] < Window
           T == {n \in 0..Len(ages) : Stops(n)}
<1>1. Window \in Nat /\ Len(ages) \in Nat /\ \A i \in 1..Len(ages) : ages[i] \in Nat
  <2>1. Window \in Nat
    BY FairQueueAssumption
  <2>2. Len(ages) \in Nat /\ \A i \in 1..Len(ages) : ages[i] \in 0..Window
    BY AgesFacts
  <2> QED BY <2>1, <2>2
<1>2. T \in SUBSET Nat /\ T # {}
  <2>1. Len(ages) \in T
    BY <1>1
  <2> QED BY <2>1, <1>1
<1>3. PICK m \in T : \A y \in T : m <= y
  <2> HIDE DEF T
  <2> QED BY <1>2, LeastNatural
<1>4. m \in Nat /\ m <= Len(ages) /\ Stops(m)
  BY <1>1, <1>3
<1>5. ASSUME NEW i \in 1..m
      PROVE  ages[i] >= Window
  <2> DEFINE k == i - 1
  <2>1. k \in 0..Len(ages) /\ k < m /\ k + 1 = i /\ i \in 1..Len(ages)
    BY <1>1, <1>4
  <2>2. k \notin T
    <3> HIDE DEF k, T
    <3> QED BY <2>1, <1>3, <1>4
  <2>3. ~Stops(k)
    BY <2>1, <2>2
  <2> QED BY <2>1, <2>3, <1>1
<1>6. \E n \in 0..Len(ages) : (\A i \in 1..n : ages[i] >= Window) /\ Stops(n)
  BY <1>1, <1>4, <1>5
<1> QED BY <1>6 DEF Expired

\* prune keeps a deque a deque.
LEMMA PruneType ==
  ASSUME NEW ages \in Seq(0..Window)
  PROVE  Prune(ages) \in Seq(0..Window)
<1>1. Expired(ages) \in Nat /\ Len(ages) \in Nat
  BY ExpiredFacts
<1>2. \A i \in (Expired(ages) + 1)..Len(ages) : ages[i] \in 0..Window
  <2>1. \A i \in 1..Len(ages) : ages[i] \in 0..Window
    BY AgesFacts
  <2> QED BY <1>1, <2>1
<1> QED BY <1>1, <1>2, SubSeqProperties DEF Prune

\* So does keeping the recent part of the history.
LEMMA StillRecentType ==
  ASSUME NEW ages \in Seq(0..Window)
  PROVE  StillRecent(ages) \in Seq(0..Window)
<1> DEFINE E == {i \in DOMAIN ages : ages[i] >= Window}
<1>1. DOMAIN ages = 1..Len(ages) /\ Len(ages) \in Nat
  OBVIOUS
<1>2. Cardinality(E) \in Nat
  <2>1. IsFiniteSet(1..Len(ages))
    BY <1>1, FS_Interval
  <2>2. E \in SUBSET (1..Len(ages))
    BY <1>1
  <2>3. IsFiniteSet(E)
    BY <2>1, <2>2, FS_Subset
  <2> QED BY <2>3, FS_CardinalityType
<1>3. StillRecent(ages) = SubSeq(ages, 1 + Cardinality(E), Len(ages))
  BY DEF StillRecent
<1> HIDE DEF E
<1>4. \A i \in (1 + Cardinality(E))..Len(ages) : ages[i] \in 0..Window
  <2>1. \A i \in 1..Len(ages) : ages[i] \in 0..Window
    BY AgesFacts
  <2> QED BY <1>1, <1>2, <2>1
<1> QED BY <1>1, <1>2, <1>3, <1>4, SubSeqProperties

\* Ageing keeps the ages within the window.
LEMMA OlderType ==
  ASSUME NEW ages \in Seq(0..Window)
  PROVE  Older(ages) \in Seq(0..Window)
<1>1. Window \in Nat
  BY FairQueueAssumption
<1>2. DOMAIN ages = 1..Len(ages) /\ Len(ages) \in Nat
  OBVIOUS
<1>3. \A i \in 1..Len(ages) : ages[i] \in 0..Window
  BY AgesFacts
<1>4. Older(ages) \in [1..Len(ages) -> 0..Window]
  BY <1>1, <1>2, <1>3 DEF Older
<1> QED BY <1>2, <1>4, SeqDef

\* admit_waiters always finds somebody: expect("non-empty waiters") holds.
LEMMA SelectedType ==
  ASSUME TypeOK, waiters # <<>>
  PROVE  /\ Selected \in 1..Len(waiters)
         /\ Enabled =>
              LET usage(i) == Len(Prune(grants[UserOf[waiters[i]]]))
              IN  \A j \in 1..Len(waiters) :
                    \/ usage(Selected) < usage(j)
                    \/ usage(Selected) = usage(j) /\ Selected <= j
<1>1. Len(waiters) \in Nat /\ 1 \in 1..Len(waiters)
  BY DEF TypeOK
<1>2. CASE ~Enabled
  BY <1>1, <1>2 DEF Selected
<1>3. CASE Enabled
  <2> DEFINE usage(i) == Len(Prune(grants[UserOf[waiters[i]]]))
             U == {usage(i) : i \in 1..Len(waiters)}
  <2>1. \A i \in 1..Len(waiters) : usage(i) \in Nat
    <3> SUFFICES ASSUME NEW i \in 1..Len(waiters) PROVE usage(i) \in Nat
      OBVIOUS
    <3>1. waiters[i] \in Requests
      BY DEF TypeOK
    <3>2. UserOf[waiters[i]] \in Users
      BY <3>1, FairQueueAssumption
    <3>3. grants[UserOf[waiters[i]]] \in Seq(0..Window)
      BY <3>2 DEF TypeOK
    <3>4. Prune(grants[UserOf[waiters[i]]]) \in Seq(0..Window)
      BY <3>3, PruneType
    <3> QED BY <3>4
  <2>2. PICK m \in U : \A y \in U : m <= y
    <3>1. U \in SUBSET Nat
      BY <2>1
    <3>2. U # {}
      BY <1>1
    <3> HIDE DEF U
    <3> QED BY <3>1, <3>2, LeastNatural
  <2> DEFINE I == {i \in 1..Len(waiters) : usage(i) = m}
  <2>3. PICK k \in I : \A y \in I : k <= y
    <3>1. I \in SUBSET Nat
      BY <1>1
    <3>2. I # {}
      BY <2>2
    <3> HIDE DEF I
    <3> QED BY <3>1, <3>2, LeastNatural
  <2>4. \A j \in 1..Len(waiters) :
          usage(k) < usage(j) \/ (usage(k) = usage(j) /\ k <= j)
    <3> SUFFICES ASSUME NEW j \in 1..Len(waiters)
                 PROVE  usage(k) < usage(j) \/ (usage(k) = usage(j) /\ k <= j)
      OBVIOUS
    <3>1. usage(k) = m /\ m <= usage(j) /\ usage(j) \in Nat /\ m \in Nat
      BY <2>1, <2>2, <2>3
    <3>2. usage(j) = m => k <= j
      BY <2>3
    <3> HIDE DEF usage
    <3> QED BY <3>1, <3>2
  <2>5. \E i \in 1..Len(waiters) : \A j \in 1..Len(waiters) :
          usage(i) < usage(j) \/ (usage(i) = usage(j) /\ i <= j)
    BY <2>3, <2>4
  <2> HIDE DEF usage
  <2> DEFINE first == CHOOSE i \in 1..Len(waiters) : \A j \in 1..Len(waiters) :
                        usage(i) < usage(j) \/ (usage(i) = usage(j) /\ i <= j)
  <2>6. /\ first \in 1..Len(waiters)
        /\ \A j \in 1..Len(waiters) :
             usage(first) < usage(j) \/ (usage(first) = usage(j) /\ first <= j)
    BY <2>5
  <2>7. Selected = first
    BY <1>3 DEF Selected, usage
  <2> HIDE DEF first
  <2> QED BY <2>6, <2>7 DEF usage
<1> QED BY <1>2, <1>3, FairQueueAssumption

-----------------------------------------------------------------------------
(* Types *)

\* Recording an admission keeps the bookkeeping well typed.
LEMMA RecordedType ==
  ASSUME TypeOK, NEW u \in Users
  PROVE  /\ PruneAll \in [Users -> Seq(0..Window)]
         /\ Recorded(u) \in [Users -> Seq(0..Window)]
         /\ Noted(u) \in [Users -> Seq(0..Window)]
<1> DEFINE S == 0..Window
<1>1. 0 \in S
  BY FairQueueAssumption
<1>2. grants \in [Users -> Seq(S)] /\ recent \in [Users -> Seq(S)]
  BY DEF TypeOK
<1>3. \A v \in Users : Prune(grants[v]) \in Seq(S)
  BY <1>2, PruneType
<1> HIDE DEF S
<1>4. PruneAll \in [Users -> Seq(S)]
  BY <1>3 DEF PruneAll
<1>5. Append(PruneAll[u], 0) \in Seq(S) /\ Append(recent[u], 0) \in Seq(S)
  BY <1>1, <1>2, <1>4
<1>6. Recorded(u) \in [Users -> Seq(S)] /\ Noted(u) \in [Users -> Seq(S)]
  BY <1>2, <1>4, <1>5 DEF Recorded, Noted
<1> QED BY <1>4, <1>6 DEF S

\* A waiter's user is a user.
LEMMA WaiterFacts ==
  ASSUME TypeOK, waiters # <<>>
  PROVE  /\ Selected \in 1..Len(waiters)
         /\ waiters[Selected] \in Requests
         /\ UserOf[waiters[Selected]] \in Users
         /\ RemoveAt(waiters, Selected) \in Seq(Requests)
<1>1. Selected \in 1..Len(waiters) /\ waiters \in Seq(Requests)
  BY SelectedType DEF TypeOK
<1>2. waiters[Selected] \in Requests
  BY <1>1
<1> QED BY <1>1, <1>2, RemoveAtFacts, FairQueueAssumption

\* Deregistering: what is left of the deque is the deque without r.
LEMMA RemoveFirstFacts ==
  ASSUME NEW s \in Seq(Requests), NEW r \in Requests,
         \A i, j \in 1..Len(s) : s[i] = s[j] => i = j
  PROVE  /\ RemoveFirst(s, r) \in Seq(Requests)
         /\ s = <<>> => RemoveFirst(s, r) = <<>>
         /\ \A i \in 1..Len(RemoveFirst(s, r)) :
              RemoveFirst(s, r)[i] # r /\ Contains(s, RemoveFirst(s, r)[i])
         /\ \A q \in Requests \ {r} : Contains(s, q) => Contains(RemoveFirst(s, r), q)
         /\ \A i, j \in 1..Len(RemoveFirst(s, r)) :
              RemoveFirst(s, r)[i] = RemoveFirst(s, r)[j] => i = j
<1>1. CASE ~ \E i \in 1..Len(s) : s[i] = r
  BY <1>1 DEF RemoveFirst, Contains
<1>2. CASE \E i \in 1..Len(s) : s[i] = r
  <2> DEFINE I == {i \in 1..Len(s) : s[i] = r}
             k == SelectInSeq(s, LAMBDA v : v = r)
  <2>1. k = Min(I)
    BY <1>2 DEF SelectInSeq
  <2>2. PICK m \in I : \A y \in I : m <= y
    BY <1>2, LeastNatural
  <2>3. k \in 1..Len(s) /\ s[k] = r
    BY <2>1, <2>2 DEF Min
  <2>4. RemoveFirst(s, r) = RemoveAt(s, k)
    BY <1>2 DEF RemoveFirst
  <2> HIDE DEF k
  <2> DEFINE t == RemoveAt(s, k)
  <2>5. /\ t \in Seq(Requests) /\ Len(t) = Len(s) - 1 /\ Len(s) \in Nat
        /\ \A j \in 1..(Len(s) - 1) : t[j] = IF j < k THEN s[j] ELSE s[j + 1]
    <3>1. /\ t \in Seq(Requests) /\ Len(t) = Len(s) - 1
          /\ \A j \in 1..(Len(s) - 1) : t[j] = IF j < k THEN s[j] ELSE s[j + 1]
      BY <2>3, RemoveAtFacts, Zenon
    <3>2. Len(s) \in Nat
      OBVIOUS
    <3> QED BY <3>1, <3>2, Zenon
  <2> HIDE DEF t
  <2>6. \A i \in 1..Len(t) : t[i] # r /\ Contains(s, t[i])
    BY <2>3, <2>5 DEF Contains
  <2>7. ASSUME NEW q \in Requests \ {r}, Contains(s, q)
        PROVE  Contains(t, q)
    <3>1. PICK i \in 1..Len(s) : s[i] = q
      BY <2>7 DEF Contains
    <3>2. CASE i < k
      BY <3>1, <3>2, <2>3, <2>5 DEF Contains
    <3>3. CASE i > k
      <4>1. i - 1 \in 1..(Len(s) - 1) /\ ~(i - 1 < k) /\ (i - 1) + 1 = i
        BY <3>3, <2>3, <2>5
      <4>2. t[i - 1] = q
        BY <4>1, <2>5, <3>1
      <4> QED BY <4>1, <4>2, <2>5 DEF Contains
    <3> QED BY <3>1, <3>2, <3>3, <2>3
  <2>8. \A i, j \in 1..Len(t) : t[i] = t[j] => i = j
    BY <2>3, <2>5
  <2>9. s # <<>>
    BY <2>3
  <2> QED BY <2>4, <2>5, <2>6, <2>7, <2>8, <2>9 DEF t
<1> QED BY <1>1, <1>2

\* The deque after admit_waiters removed the selected waiter w.
LEMMA AfterSelection ==
  ASSUME TypeOK, SendersAlive, waiters # <<>>
  PROVE  LET w == waiters[Selected]
             t == RemoveAt(waiters, Selected)
         IN  /\ \A i \in 1..Len(t) : t[i] # w /\ Contains(waiters, t[i])
             /\ \A q \in Requests \ {w} : Contains(waiters, q) => Contains(t, q)
             /\ \A i, j \in 1..Len(t) : t[i] = t[j] => i = j
<1> DEFINE k == Selected
           s == waiters
           t == RemoveAt(s, k)
<1>1. s \in Seq(Requests) /\ k \in 1..Len(s) /\ \A i, j \in 1..Len(s) : s[i] = s[j] => i = j
  BY WaiterFacts DEF TypeOK, SendersAlive
<1> HIDE DEF k, s
<1>2. /\ t \in Seq(Requests) /\ Len(t) = Len(s) - 1
      /\ \A j \in 1..(Len(s) - 1) : t[j] = IF j < k THEN s[j] ELSE s[j + 1]
  BY <1>1, RemoveAtFacts, Zenon
<1>3. Len(s) \in Nat
  BY <1>1
<1> HIDE DEF t
<1>4. \A i \in 1..Len(t) : t[i] # s[k] /\ Contains(s, t[i])
  BY <1>1, <1>2, <1>3 DEF Contains
<1>5. ASSUME NEW q \in Requests \ {s[k]}, Contains(s, q)
      PROVE  Contains(t, q)
  <2>1. PICK i \in 1..Len(s) : s[i] = q
    BY <1>5 DEF Contains
  <2>2. CASE i < k
    BY <2>1, <2>2, <1>1, <1>2, <1>3 DEF Contains
  <2>3. CASE i > k
    <3>1. i - 1 \in 1..(Len(s) - 1) /\ ~(i - 1 < k) /\ (i - 1) + 1 = i
      BY <2>3, <1>1, <1>3
    <3>2. t[i - 1] = q
      BY <3>1, <1>2, <2>1
    <3> QED BY <3>1, <3>2, <1>2 DEF Contains
  <2> QED BY <2>1, <2>2, <2>3, <1>1
<1>6. \A i, j \in 1..Len(t) : t[i] = t[j] => i = j
  BY <1>1, <1>2, <1>3
<1> QED BY <1>4, <1>5, <1>6 DEF t, s, k

-----------------------------------------------------------------------------
(* The inductive invariant *)

\* Guards are finitely many, and counting them one up or one down.
LEMMA GuardCount ==
  ASSUME TypeOK, SlotAccounting, NEW r \in Requests
  PROVE  /\ in_flight = Cardinality(Guards) /\ in_flight \in Nat /\ Capacity \in Nat
         /\ r \notin Guards => Cardinality(Guards \cup {r}) = in_flight + 1
         /\ r \in Guards => Cardinality(Guards \ {r}) = in_flight - 1 /\ in_flight > 0
<1>1. IsFiniteSet(Guards)
  BY FairQueueAssumption, FS_Subset DEF Guards
<1>2. in_flight = Cardinality(Guards) /\ in_flight \in Nat /\ Capacity \in Nat
  BY FairQueueAssumption DEF SlotAccounting, TypeOK
<1>3. r \in Guards => in_flight # 0
  BY <1>1, <1>2, FS_EmptySet
<1>4. r \notin Guards => Cardinality(Guards \cup {r}) = Cardinality(Guards) + 1
  BY <1>1, FS_AddElement
<1>5. r \in Guards => Cardinality(Guards \ {r}) = Cardinality(Guards) - 1
  BY <1>1, FS_RemoveElement
<1> HIDE DEF Guards
<1> QED BY <1>2, <1>3, <1>4, <1>5

\* A step that leaves the deque alone and starts or ends no wait there.
LEMMA SendersKept ==
  ASSUME TypeOK, SendersAlive, waiters' = waiters,
         \A q \in Requests : /\ pc'[q] = "waiting" => pc[q] = "waiting"
                             /\ pc[q] \in {"waiting", "closed"} => pc'[q] \in {"waiting", "closed"}
  PROVE  SendersAlive'
<1>1. \A i \in 1..Len(waiters) : waiters[i] \in Requests
  BY DEF TypeOK
<1>2. \A i \in 1..Len(waiters) : pc'[waiters[i]] \in {"waiting", "closed"}
  BY <1>1 DEF SendersAlive
<1> QED BY <1>2 DEF SendersAlive

\* acquire with a free slot.
LEMMA AcquireNowStep ==
  ASSUME QueueInv, NEW r \in Requests, AcquireNow(r)
  PROVE  QueueInv'
<1> USE DEF QueueInv, AcquireNow, MayArrive, HasRoom
<1>1. TypeOK'
  <2>1. UserOf[r] \in Users
    BY FairQueueAssumption
  <2>2. grants' \in [Users -> Seq(0..Window)] /\ recent' \in [Users -> Seq(0..Window)]
    BY <2>1, RecordedType
  <2> QED BY <2>2 DEF TypeOK, Stages
<1>2. SlotAccounting'
  <2>1. Guards' = Guards \cup {r} /\ r \notin Guards
    BY DEF Guards, TypeOK
  <2> QED BY <2>1, GuardCount DEF SlotAccounting
<1>3. SendersAlive'
  BY DEF SendersAlive, TypeOK, Contains
<1>4. MutexOwner' /\ WorkConserving'
  BY DEF MutexOwner, WorkConserving, TypeOK
<1> QED BY <1>1, <1>2, <1>3, <1>4

\* acquire that has to wait: every slot is taken.
LEMMA EnqueueStep ==
  ASSUME QueueInv, NEW r \in Requests, Enqueue(r)
  PROVE  QueueInv' /\ in_flight = Capacity
<1> USE DEF QueueInv, Enqueue, MayArrive, HasRoom
<1>1. TypeOK'
  BY DEF TypeOK, Stages
<1>2. in_flight = Capacity
  <2>1. in_flight \in Nat /\ Capacity \in Nat /\ in_flight <= Capacity
    BY GuardCount DEF SlotAccounting
  <2>2. waiters = <<>> \/ in_flight = Capacity
    BY DEF WorkConserving
  <2> QED BY <2>1, <2>2
<1>3. SlotAccounting'
  <2>1. Guards' = Guards
    BY DEF Guards, TypeOK
  <2> QED BY <2>1 DEF SlotAccounting
<1>4. SendersAlive'
  <2>1. waiters \in Seq(Requests) /\ Len(waiters) \in Nat
    BY DEF TypeOK
  <2>2. Len(waiters') = Len(waiters) + 1 /\ waiters'[Len(waiters) + 1] = r
        /\ \A i \in 1..Len(waiters) : waiters'[i] = waiters[i]
    BY <2>1
  <2>3. \A i \in 1..Len(waiters) : waiters[i] \in Requests /\ waiters[i] # r
    BY <2>1 DEF SendersAlive
  <2>4. \A q \in Requests : pc'[q] = "waiting" => Contains(waiters', q)
    BY <2>1, <2>2 DEF SendersAlive, Contains, TypeOK
  <2>5. \A i \in 1..Len(waiters') : pc'[waiters'[i]] \in {"waiting", "closed"}
    BY <2>1, <2>2, <2>3 DEF SendersAlive, TypeOK
  <2>6. \A i, j \in 1..Len(waiters') : waiters'[i] = waiters'[j] => i = j
    BY <2>1, <2>2, <2>3 DEF SendersAlive
  <2> QED BY <2>4, <2>5, <2>6 DEF SendersAlive
<1>5. MutexOwner' /\ WorkConserving'
  BY <1>2 DEF MutexOwner, WorkConserving, TypeOK
<1> QED BY <1>1, <1>2, <1>3, <1>4, <1>5

\* The receiver's own steps: taking the guard, or being cancelled.
LEMMA ReceiverStep ==
  ASSUME QueueInv, NEW r \in Requests, Receive(r) \/ Cancel(r)
  PROVE  QueueInv'
<1> USE DEF QueueInv, Receive, Cancel
<1>1. TypeOK'
  BY DEF TypeOK, Stages
<1>2. SlotAccounting'
  <2>1. Guards' = Guards
    BY DEF Guards, TypeOK
  <2> QED BY <2>1 DEF SlotAccounting
<1>3. SendersAlive'
  <2>1. \A q \in Requests : /\ pc'[q] = "waiting" => pc[q] = "waiting"
                            /\ pc[q] \in {"waiting", "closed"} => pc'[q] \in {"waiting", "closed"}
    BY DEF TypeOK
  <2>2. TypeOK /\ SendersAlive /\ waiters' = waiters
    OBVIOUS
  <2> HIDE DEF QueueInv, Receive, Cancel
  <2> QED BY <2>1, <2>2, SendersKept
<1>4. MutexOwner' /\ WorkConserving'
  BY DEF MutexOwner, WorkConserving, TypeOK
<1> QED BY <1>1, <1>2, <1>3, <1>4

\* Dropping the registration.
LEMMA DeregisterStep ==
  ASSUME QueueInv, NEW r \in Requests, Deregister(r)
  PROVE  QueueInv'
<1> USE DEF QueueInv, Deregister
<1> DEFINE t == RemoveFirst(waiters, r)
<1>0. /\ t \in Seq(Requests) /\ waiters' = t
      /\ waiters = <<>> => t = <<>>
      /\ \A i \in 1..Len(t) : t[i] # r /\ Contains(waiters, t[i])
      /\ \A q \in Requests \ {r} : Contains(waiters, q) => Contains(t, q)
      /\ \A i, j \in 1..Len(t) : t[i] = t[j] => i = j
  BY RemoveFirstFacts DEF SendersAlive, TypeOK
<1> HIDE DEF t
<1>1. TypeOK'
  BY <1>0 DEF TypeOK, Stages
<1>2. SlotAccounting'
  <2>1. Guards' = Guards
    BY DEF Guards, TypeOK
  <2> QED BY <2>1 DEF SlotAccounting
<1>3. SendersAlive'
  <2>1. \A i \in 1..Len(t) : t[i] \in Requests
    BY <1>0
  <2>2. \A q \in Requests : pc'[q] = "waiting" => Contains(waiters', q)
    BY <1>0 DEF SendersAlive, TypeOK
  <2>3. \A i \in 1..Len(t) : pc'[t[i]] \in {"waiting", "closed"}
    BY <1>0, <2>1 DEF SendersAlive, TypeOK, Contains
  <2> QED BY <1>0, <2>2, <2>3 DEF SendersAlive
<1>4. MutexOwner' /\ WorkConserving'
  BY <1>0 DEF MutexOwner, WorkConserving, TypeOK
<1> QED BY <1>1, <1>2, <1>3, <1>4

\* Dropping a guard, up to the admission loop.
LEMMA ReleaseStep ==
  ASSUME QueueInv, NEW r \in Requests, Release(r)
  PROVE  QueueInv'
<1> USE DEF QueueInv, Release
<1>0. r \in Guards /\ Guards' = Guards \ {r}
  BY DEF Guards, TypeOK
<1>1. TypeOK'
  <2>1. in_flight \in Nat /\ in_flight > 0
    BY <1>0, GuardCount
  <2>2. in_flight' \in Nat
    BY <2>1
  <2> QED BY <2>2 DEF TypeOK, Stages
<1>2. SlotAccounting'
  BY <1>0, GuardCount DEF SlotAccounting
<1>3. SendersAlive'
  <2>1. \A q \in Requests : /\ pc'[q] = "waiting" => pc[q] = "waiting"
                            /\ pc[q] \in {"waiting", "closed"} => pc'[q] \in {"waiting", "closed"}
    BY DEF TypeOK
  <2>2. TypeOK /\ SendersAlive /\ waiters' = waiters
    OBVIOUS
  <2> HIDE DEF QueueInv, Release
  <2> QED BY <2>1, <2>2, SendersKept
<1>4. MutexOwner' /\ WorkConserving'
  BY FairQueueAssumption DEF MutexOwner, WorkConserving, TypeOK
<1> QED BY <1>1, <1>2, <1>3, <1>4

\* An iteration of the admission loop that admits.
LEMMA AdmitWaiterStep ==
  ASSUME QueueInv, NEW r \in Requests, AdmitWaiter(r)
  PROVE  QueueInv'
<1> DEFINE w == waiters[Selected]
           t == RemoveAt(waiters, Selected)
<1>0. /\ lock = r /\ in_flight < Capacity /\ waiters # <<>>
      /\ pc[w] = "waiting" /\ pc' = [pc EXCEPT ![w] = "granted"]
      /\ grants' = Recorded(UserOf[w]) /\ recent' = Noted(UserOf[w])
      /\ waiters' = t /\ in_flight' = in_flight + 1 /\ lock' = lock
  BY DEF AdmitWaiter, MoreToAdmit, HasRoom
<1>1. TypeOK /\ MutexOwner /\ SlotAccounting /\ SendersAlive
  BY DEF QueueInv
<1>2. w \in Requests /\ UserOf[w] \in Users /\ t \in Seq(Requests)
  BY <1>0, <1>1, WaiterFacts
<1>3. /\ \A i \in 1..Len(t) : t[i] # w /\ Contains(waiters, t[i])
      /\ \A q \in Requests \ {w} : Contains(waiters, q) => Contains(t, q)
      /\ \A i, j \in 1..Len(t) : t[i] = t[j] => i = j
  BY <1>0, <1>1, AfterSelection
<1> HIDE DEF w, t
<1>4. TypeOK'
  <2>1. grants' \in [Users -> Seq(0..Window)] /\ recent' \in [Users -> Seq(0..Window)]
    BY <1>0, <1>1, <1>2, RecordedType
  <2> QED BY <1>0, <1>1, <1>2, <2>1 DEF TypeOK, Stages
<1>5. SlotAccounting'
  <2>1. Guards' = Guards \cup {w} /\ w \notin Guards
    BY <1>0, <1>1, <1>2 DEF Guards, TypeOK
  <2>2. Cardinality(Guards') = in_flight + 1 /\ in_flight \in Nat /\ Capacity \in Nat
    BY <1>1, <1>2, <2>1, GuardCount
  <2> QED BY <1>0, <2>2 DEF SlotAccounting
<1>6. SendersAlive'
  <2>1. \A i \in 1..Len(t) : t[i] \in Requests
    BY <1>2
  <2>2. \A q \in Requests : pc'[q] = "waiting" => Contains(t, q)
    BY <1>0, <1>1, <1>2, <1>3 DEF SendersAlive, TypeOK
  <2>3. \A i \in 1..Len(t) : pc[t[i]] \in {"waiting", "closed"}
    BY <1>1, <1>3 DEF SendersAlive, Contains
  <2>4. \A i \in 1..Len(t) : pc'[t[i]] = pc[t[i]]
    BY <1>0, <1>1, <1>2, <1>3, <2>1 DEF TypeOK
  <2> QED BY <1>0, <1>3, <2>2, <2>3, <2>4 DEF SendersAlive
<1>7. MutexOwner' /\ WorkConserving'
  BY <1>0, <1>1, <1>2, FairQueueAssumption DEF MutexOwner, WorkConserving, TypeOK
<1> QED BY <1>4, <1>5, <1>6, <1>7 DEF QueueInv

\* An iteration that meets a closed receiver.
LEMMA SkipClosedStep ==
  ASSUME QueueInv, NEW r \in Requests, SkipClosed(r)
  PROVE  QueueInv'
<1> DEFINE w == waiters[Selected]
           t == RemoveAt(waiters, Selected)
<1>0. /\ lock = r /\ waiters # <<>> /\ pc[w] # "waiting" /\ waiters' = t
      /\ grants' = IF Enabled THEN PruneAll ELSE grants
      /\ pc' = pc /\ lock' = lock /\ in_flight' = in_flight /\ recent' = recent
  BY DEF SkipClosed, MoreToAdmit
<1>1. TypeOK /\ MutexOwner /\ SlotAccounting /\ SendersAlive
  BY DEF QueueInv
<1>2. w \in Requests /\ UserOf[w] \in Users /\ t \in Seq(Requests)
  BY <1>0, <1>1, WaiterFacts
<1>3. /\ \A i \in 1..Len(t) : t[i] # w /\ Contains(waiters, t[i])
      /\ \A q \in Requests \ {w} : Contains(waiters, q) => Contains(t, q)
      /\ \A i, j \in 1..Len(t) : t[i] = t[j] => i = j
  BY <1>0, <1>1, AfterSelection
<1> HIDE DEF w, t
<1>4. TypeOK'
  <2>1. grants' \in [Users -> Seq(0..Window)]
    BY <1>0, <1>1, <1>2, RecordedType DEF TypeOK
  <2> QED BY <1>0, <1>1, <1>2, <2>1 DEF TypeOK
<1>5. SlotAccounting'
  BY <1>0, <1>1 DEF SlotAccounting, Guards
<1>6. SendersAlive'
  <2>1. \A q \in Requests : pc[q] = "waiting" => Contains(t, q)
    BY <1>0, <1>1, <1>2, <1>3 DEF SendersAlive
  <2>2. \A i \in 1..Len(t) : pc[t[i]] \in {"waiting", "closed"}
    BY <1>1, <1>3 DEF SendersAlive, Contains
  <2> QED BY <1>0, <1>3, <2>1, <2>2 DEF SendersAlive
<1>7. MutexOwner' /\ WorkConserving'
  BY <1>0, <1>1, FairQueueAssumption DEF MutexOwner, WorkConserving
<1> QED BY <1>4, <1>5, <1>6, <1>7 DEF QueueInv

\* The loop ends and the mutex is unlocked: no slot idles.
LEMMA FinishReleaseStep ==
  ASSUME QueueInv, NEW r \in Requests, FinishRelease(r)
  PROVE  QueueInv'
<1> USE DEF QueueInv, FinishRelease
<1>0. pc[r] \in {"leaving", "withdrawing"} /\ pc'[r] \in {"idle", "closed"}
      /\ \A q \in Requests \ {r} : pc'[q] = pc[q]
  BY FairQueueAssumption DEF MutexOwner, TypeOK
<1>1. TypeOK'
  BY DEF TypeOK, Stages
<1>2. SlotAccounting'
  <2>1. Guards' = Guards
    BY <1>0 DEF Guards
  <2> QED BY <2>1 DEF SlotAccounting
<1>3. SendersAlive'
  <2>1. \A q \in Requests : /\ pc'[q] = "waiting" => pc[q] = "waiting"
                            /\ pc[q] \in {"waiting", "closed"} => pc'[q] \in {"waiting", "closed"}
    BY <1>0
  <2> QED BY <2>1, SendersKept
<1>4. MutexOwner'
  BY <1>0, FairQueueAssumption DEF MutexOwner, TypeOK
<1>5. WorkConserving'
  <2>1. in_flight \in Nat /\ Capacity \in Nat /\ in_flight <= Capacity
    BY GuardCount DEF SlotAccounting
  <2> QED BY <2>1 DEF WorkConserving, MoreToAdmit, HasRoom
<1> QED BY <1>1, <1>2, <1>3, <1>4, <1>5

\* Time passes.
LEMMA TickStep ==
  ASSUME QueueInv, Tick
  PROVE  QueueInv'
<1> USE DEF QueueInv, Tick
<1>1. TypeOK'
  <2> DEFINE S == 0..Window
  <2>1. grants \in [Users -> Seq(S)] /\ recent \in [Users -> Seq(S)]
    BY DEF TypeOK
  <2>2. \A u \in Users : Older(grants[u]) \in Seq(S) /\ StillRecent(Older(recent[u])) \in Seq(S)
    BY <2>1, OlderType, StillRecentType
  <2> HIDE DEF S
  <2>3. grants' \in [Users -> Seq(S)] /\ recent' \in [Users -> Seq(S)]
    BY <2>2
  <2> QED BY <2>3 DEF TypeOK, S
<1>2. SlotAccounting'
  BY DEF SlotAccounting, Guards
<1>3. SendersAlive' /\ MutexOwner' /\ WorkConserving'
  BY DEF SendersAlive, MutexOwner, WorkConserving
<1> QED BY <1>1, <1>2, <1>3

\* Every step of the queue preserves the invariant.
LEMMA QueueInvStep == QueueInv /\ [Next]_vars => QueueInv'
<1> SUFFICES ASSUME QueueInv, [Next]_vars PROVE QueueInv'
  OBVIOUS
<1>1. CASE Tick
  BY <1>1, TickStep
<1>2. CASE UNCHANGED vars
  BY <1>2 DEF vars, QueueInv, TypeOK, MutexOwner, SlotAccounting, Guards,
              WorkConserving, SendersAlive
<1>3. ASSUME NEW r \in Requests,
             AcquireNow(r) \/ Enqueue(r) \/ Receive(r) \/ Cancel(r)
               \/ Deregister(r) \/ Release(r) \/ InRelease(r)
      PROVE  QueueInv'
  BY <1>3, AcquireNowStep, EnqueueStep, ReceiverStep, DeregisterStep, ReleaseStep,
     AdmitWaiterStep, SkipClosedStep, FinishReleaseStep DEF InRelease
<1> QED BY <1>1, <1>2, <1>3 DEF Next

\* An empty queue satisfies it.
LEMMA QueueInvInit == Init => QueueInv
<1> SUFFICES ASSUME Init PROVE QueueInv
  OBVIOUS
<1>1. TypeOK
  BY DEF Init, TypeOK, Stages
<1>2. Guards = {}
  BY DEF Init, Guards
<1>3. SlotAccounting
  BY <1>2, FS_EmptySet, FairQueueAssumption DEF SlotAccounting, Init
<1>4. MutexOwner /\ WorkConserving /\ SendersAlive
  BY FairQueueAssumption DEF Init, MutexOwner, WorkConserving, SendersAlive
<1> QED BY <1>1, <1>3, <1>4 DEF QueueInv

\* Slots, deque, mutex and tasks agree in every reachable state.
THEOREM QueueInvariant == Spec => []QueueInv
<1> QED BY QueueInvInit, QueueInvStep, PTL DEF Spec

\* Counter, deque and admissions of Inner keep their types; in particular no
\* release takes the counter below zero.
THEOREM TypesKept == Spec => []TypeOK
<1>1. QueueInv => TypeOK
  BY DEF QueueInv
<1> QED BY <1>1, QueueInvariant, PTL

\* No cancellation, early or late, leaks a slot or gives it out twice.
THEOREM SlotsAccountedFor == Spec => []SlotAccounting
<1>1. QueueInv => SlotAccounting
  BY DEF QueueInv
<1> QED BY <1>1, QueueInvariant, PTL

\* No slot idles while a request is queued, although cancelling a waiter does
\* not run the admission loop.
THEOREM NoIdleSlot == Spec => []WorkConserving
<1>1. QueueInv => WorkConserving
  BY DEF QueueInv
<1> QED BY <1>1, QueueInvariant, PTL

\* The unreachable! in acquire is unreachable.
THEOREM SenderNeverLost == Spec => []SendersAlive
<1>1. QueueInv => SendersAlive
  BY DEF QueueInv
<1> QED BY <1>1, QueueInvariant, PTL

-----------------------------------------------------------------------------
(* Fair selection *)

\* A deque is in the order of its admissions, so that its ages fall.
Falling(ages) == \A i, j \in 1..Len(ages) : i <= j => ages[j] <= ages[i]

\* Pruning a deque, at whatever moment that was last done, leaves the true
\* admissions in the window; without fairness there is nothing to prune.
WindowTrue ==
  /\ \A u \in Users : Falling(grants[u]) /\ recent[u] = Prune(grants[u])
  /\ ~Enabled => \A u \in Users : grants[u] = <<>>

\* There is one place where prune can stop.
LEMMA ExpiredUnique ==
  ASSUME NEW ages \in Seq(0..Window), NEW n \in 0..Len(ages),
         \A i \in 1..n : ages[i] >= Window,
         n < Len(ages) => ages[n + 1] < Window
  PROVE  Expired(ages) = n
<1>1. Window \in Nat /\ Len(ages) \in Nat /\ \A i \in 1..Len(ages) : ages[i] \in 0..Window
  BY AgesFacts, FairQueueAssumption
<1> DEFINE e == Expired(ages)
<1>2. /\ e \in 0..Len(ages) /\ \A i \in 1..e : ages[i] >= Window
      /\ e < Len(ages) => ages[e + 1] < Window
  BY ExpiredFacts
<1> HIDE DEF e
<1>3. ~(e < n)
  <2> SUFFICES ASSUME e < n PROVE FALSE
    OBVIOUS
  <2>1. e + 1 \in 1..n /\ e + 1 \in 1..Len(ages) /\ e < Len(ages)
    BY <1>1, <1>2
  <2> QED BY <1>1, <1>2, <2>1
<1>4. ~(n < e)
  <2> SUFFICES ASSUME n < e PROVE FALSE
    OBVIOUS
  <2>1. n + 1 \in 1..e /\ n + 1 \in 1..Len(ages) /\ n < Len(ages)
    BY <1>1, <1>2
  <2> QED BY <1>1, <1>2, <2>1
<1> QED BY <1>1, <1>2, <1>3, <1>4 DEF e

\* What prune leaves.
LEMMA PruneFacts ==
  ASSUME NEW ages \in Seq(0..Window)
  PROVE  /\ Prune(ages) \in Seq(0..Window)
         /\ Len(Prune(ages)) = Len(ages) - Expired(ages)
         /\ \A i \in 1..(Len(ages) - Expired(ages)) : Prune(ages)[i] = ages[Expired(ages) + i]
<1> DEFINE e == Expired(ages)
<1>1. Len(ages) \in Nat /\ e \in 0..Len(ages)
  BY ExpiredFacts
<1>2. \A i \in (e + 1)..Len(ages) : ages[i] \in 0..Window
  <2>1. \A i \in 1..Len(ages) : ages[i] \in 0..Window
    BY AgesFacts
  <2> QED BY <1>1, <2>1
<1>3. Prune(ages) = SubSeq(ages, e + 1, Len(ages))
  BY DEF Prune
<1> HIDE DEF e
<1>4. /\ Len(SubSeq(ages, e + 1, Len(ages))) = Len(ages) - e
      /\ \A i \in 1..(Len(ages) - e) : SubSeq(ages, e + 1, Len(ages))[i] = ages[e + i]
  BY <1>1
<1> QED BY <1>3, <1>4, PruneType DEF e

\* All of it is in the window, and still in order.
LEMMA PrunedInWindow ==
  ASSUME NEW ages \in Seq(0..Window), Falling(ages)
  PROVE  /\ Falling(Prune(ages))
         /\ \A i \in 1..Len(Prune(ages)) : Prune(ages)[i] < Window
<1> DEFINE e == Expired(ages)
           p == Prune(ages)
<1>1. /\ Len(ages) \in Nat /\ e \in 0..Len(ages) /\ Window \in Nat
      /\ \A i \in 1..Len(ages) : ages[i] \in 0..Window
  BY ExpiredFacts, AgesFacts, FairQueueAssumption
<1>2. Len(p) = Len(ages) - e /\ \A i \in 1..Len(p) : p[i] = ages[e + i]
  BY PruneFacts
<1>3. e < Len(ages) => ages[e + 1] < Window
  BY ExpiredFacts
<1> HIDE DEF e, p
<1>4. \A i \in 1..Len(p) : e + i \in 1..Len(ages)
  BY <1>1, <1>2
<1>5. Falling(p)
  <2> SUFFICES ASSUME NEW i \in 1..Len(p), NEW j \in 1..Len(p), i <= j
               PROVE  p[j] <= p[i]
    BY DEF Falling
  <2>1. e + i \in 1..Len(ages) /\ e + j \in 1..Len(ages) /\ e + i <= e + j
    BY <1>1, <1>4
  <2>2. ages[e + j] <= ages[e + i]
    BY <2>1 DEF Falling
  <2> QED BY <1>2, <2>2
<1>6. ASSUME NEW i \in 1..Len(p)
      PROVE  p[i] < Window
  <2>1. e + 1 \in 1..Len(ages) /\ e < Len(ages) /\ e + 1 <= e + i
    BY <1>1, <1>2
  <2>2. ages[e + i] <= ages[e + 1]
    BY <1>4, <2>1 DEF Falling
  <2>3. ages[e + i] \in Nat /\ ages[e + 1] \in Nat
    BY <1>1, <1>4, <2>1
  <2> QED BY <1>1, <1>2, <1>3, <2>1, <2>2, <2>3
<1> QED BY <1>5, <1>6 DEF p

\* Nothing is left to prune twice.
LEMMA PruneAgain ==
  ASSUME NEW ages \in Seq(0..Window), \A i \in 1..Len(ages) : ages[i] < Window
  PROVE  Prune(ages) = ages
<1>1. Len(ages) \in Nat
  OBVIOUS
<1>2. Expired(ages) = 0
  <2>1. 0 \in 0..Len(ages) /\ (0 < Len(ages) => ages[0 + 1] < Window)
    BY <1>1
  <2> QED BY <2>1, ExpiredUnique
<1>3. /\ Prune(ages) \in Seq(0..Window) /\ Len(Prune(ages)) = Len(ages)
      /\ \A i \in 1..Len(ages) : Prune(ages)[i] = ages[i]
  <2>1. /\ Prune(ages) \in Seq(0..Window)
        /\ Len(Prune(ages)) = Len(ages) - 0
        /\ \A i \in 1..(Len(ages) - 0) : Prune(ages)[i] = ages[0 + i]
    BY <1>2, PruneFacts
  <2> QED BY <1>1, <2>1
<1> QED BY <1>3, SeqEqual

\* An admission made now goes to the end of what is left.
LEMMA AppendNow ==
  ASSUME NEW ages \in Seq(0..Window), Falling(ages), \A i \in 1..Len(ages) : ages[i] < Window
  PROVE  /\ Falling(Append(ages, 0))
         /\ Prune(Append(ages, 0)) = Append(ages, 0)
<1> DEFINE new == Append(ages, 0)
           S == 0..Window
<1>1. Len(ages) \in Nat /\ Window \in Nat \ {0} /\ 0 \in S
  BY FairQueueAssumption
<1>2. \A i \in 1..Len(ages) : ages[i] \in S
  BY AgesFacts
<1>3. /\ new \in Seq(S) /\ Len(new) = Len(ages) + 1 /\ new[Len(ages) + 1] = 0
      /\ \A i \in 1..Len(ages) : new[i] = ages[i]
  <2>1. ages \in Seq(S)
    OBVIOUS
  <2> HIDE DEF S
  <2> QED BY <1>1, <2>1, AppendProperties
<1> HIDE DEF new
<1>4. Falling(new)
  <2> SUFFICES ASSUME NEW i \in 1..Len(new), NEW j \in 1..Len(new), i <= j
               PROVE  new[j] <= new[i]
    BY DEF Falling
  <2>1. CASE j \in 1..Len(ages)
    <3>1. i \in 1..Len(ages)
      BY <1>1, <1>3, <2>1
    <3> QED BY <1>3, <2>1, <3>1 DEF Falling
  <2>2. CASE j = Len(ages) + 1
    <3>1. i \in 1..Len(ages) \/ i = Len(ages) + 1
      BY <1>1, <1>3
    <3>2. new[i] \in Nat
      BY <1>1, <1>2, <1>3, <3>1
    <3> QED BY <1>3, <2>2, <3>2
  <2> QED BY <1>1, <1>3, <2>1, <2>2
<1>5. \A i \in 1..Len(new) : new[i] < Window
  BY <1>1, <1>3
<1>6. new \in Seq(0..Window)
  BY <1>3
<1> QED BY <1>4, <1>5, <1>6, PruneAgain DEF new

\* Of a deque in order, the history keeps what prune keeps.
LEMMA StillRecentIsPrune ==
  ASSUME NEW ages \in Seq(0..Window), Falling(ages)
  PROVE  StillRecent(ages) = Prune(ages)
<1> DEFINE e == Expired(ages)
<1>1. /\ Len(ages) \in Nat /\ DOMAIN ages = 1..Len(ages) /\ e \in 0..Len(ages) /\ Window \in Nat
      /\ \A i \in 1..Len(ages) : ages[i] \in 0..Window
  BY ExpiredFacts, AgesFacts, FairQueueAssumption
<1>2. /\ \A i \in 1..e : ages[i] >= Window
      /\ e < Len(ages) => ages[e + 1] < Window
  BY ExpiredFacts
<1> HIDE DEF e
<1>3. ASSUME NEW i \in 1..Len(ages), ages[i] >= Window
      PROVE  i \in 1..e
  <2> SUFFICES ASSUME e < i PROVE FALSE
    BY <1>1
  <2>1. e + 1 \in 1..Len(ages) /\ e < Len(ages) /\ e + 1 <= i
    BY <1>1
  <2>2. ages[i] <= ages[e + 1] /\ ages[i] \in Nat /\ ages[e + 1] \in Nat
    BY <1>1, <2>1 DEF Falling
  <2> QED BY <1>1, <1>2, <1>3, <2>1, <2>2
<1>4. {i \in DOMAIN ages : ages[i] >= Window} = 1..e
  BY <1>1, <1>2, <1>3
<1>5. Cardinality(1..e) = e
  <2>1. Cardinality(1..e) = IF 1 > e THEN 0 ELSE e - 1 + 1
    BY <1>1, FS_Interval
  <2> QED BY <1>1, <2>1
<1>6. 1 + e = e + 1
  BY <1>1
<1> QED BY <1>4, <1>5, <1>6 DEF StillRecent, Prune, e

\* Time passes alike for the deque, pruned late, and for the history.
LEMMA OlderPruned ==
  ASSUME NEW ages \in Seq(0..Window), Falling(ages)
  PROVE  /\ Falling(Older(ages))
         /\ StillRecent(Older(Prune(ages))) = Prune(Older(ages))
<1> DEFINE e == Expired(ages)
           p == Prune(ages)
           o == Older(ages)
           q == Older(p)
           d == Expired(q)
<1>1. /\ Len(ages) \in Nat /\ DOMAIN ages = 1..Len(ages) /\ e \in 0..Len(ages)
      /\ Window \in Nat \ {0} /\ \A i \in 1..Len(ages) : ages[i] \in 0..Window
  BY ExpiredFacts, AgesFacts, FairQueueAssumption
<1>2. /\ p \in Seq(0..Window) /\ Len(p) = Len(ages) - e /\ DOMAIN p = 1..Len(p)
      /\ \A i \in 1..Len(p) : p[i] = ages[e + i]
  BY PruneFacts, AgesFacts
<1>3. o \in Seq(0..Window) /\ q \in Seq(0..Window)
  BY <1>2, OlderType
<1>4. /\ Len(o) = Len(ages) /\ Len(q) = Len(p)
      /\ \A i \in 1..Len(ages) : o[i] = IF ages[i] < Window THEN ages[i] + 1 ELSE Window
      /\ \A i \in 1..Len(p) : q[i] = IF p[i] < Window THEN p[i] + 1 ELSE Window
  <2>1. /\ DOMAIN o = 1..Len(ages) /\ DOMAIN q = 1..Len(p)
    BY <1>1, <1>2 DEF Older
  <2>2. Len(o) = Len(ages)
    <3>1. Len(o) \in Nat /\ DOMAIN o = 1..Len(o)
      BY <1>3, AgesFacts
    <3> QED BY <1>1, <2>1, <3>1
  <2>3. Len(q) = Len(p)
    <3>1. Len(q) \in Nat /\ DOMAIN q = 1..Len(q) /\ Len(p) \in Nat
      BY <1>1, <1>2, <1>3, AgesFacts
    <3> QED BY <2>1, <3>1
  <2> QED BY <1>1, <1>2, <2>2, <2>3 DEF Older
<1>5. /\ \A i \in 1..e : ages[i] >= Window
      /\ Falling(p)
  BY ExpiredFacts, PrunedInWindow
<1>6. /\ d \in 0..Len(q) /\ \A i \in 1..d : q[i] >= Window
      /\ d < Len(q) => q[d + 1] < Window
  BY <1>3, ExpiredFacts
<1>7. /\ Prune(q) \in Seq(0..Window) /\ Len(Prune(q)) = Len(q) - d
      /\ \A i \in 1..(Len(q) - d) : Prune(q)[i] = q[d + i]
  BY <1>3, PruneFacts
<1> HIDE DEF e, p, o, q, d
<1>8. Falling(o)
  BY <1>1, <1>4 DEF Falling
<1>9. Falling(q)
  <2>1. \A i \in 1..Len(p) : p[i] \in 0..Window
    BY <1>2, AgesFacts
  <2> SUFFICES ASSUME NEW i \in 1..Len(p), NEW j \in 1..Len(p), i <= j
               PROVE  q[j] <= q[i]
    BY <1>4 DEF Falling
  <2>2. p[j] <= p[i] /\ p[i] \in 0..Window /\ p[j] \in 0..Window
    BY <1>5, <2>1 DEF Falling
  <2> QED BY <1>1, <1>4, <2>2
<1>10. ASSUME NEW i \in 1..Len(q)
       PROVE  e + i \in 1..Len(o) /\ q[i] = o[e + i]
  <2>1. i \in 1..Len(p) /\ e + i \in 1..Len(ages)
    BY <1>1, <1>2, <1>4
  <2>2. p[i] = ages[e + i]
    BY <1>2, <2>1
  <2>3. q[i] = IF ages[e + i] < Window THEN ages[e + i] + 1 ELSE Window
    BY <1>4, <2>1, <2>2
  <2> QED BY <1>4, <2>1, <2>3
<1>11. Expired(o) = e + d
  <2>1. e + d \in 0..Len(o)
    BY <1>1, <1>2, <1>4, <1>6
  <2>2. ASSUME NEW i \in 1..(e + d)
        PROVE  o[i] >= Window
    <3>1. CASE i <= e
      <4>1. i \in 1..e /\ i \in 1..Len(ages)
        BY <1>1, <3>1
      <4> QED BY <1>1, <1>4, <1>5, <4>1
    <3>2. CASE i > e
      <4>1. i - e \in 1..d /\ i - e \in 1..Len(q) /\ e + (i - e) = i
        BY <1>1, <1>2, <1>4, <1>6, <3>2
      <4>2. q[i - e] >= Window /\ q[i - e] = o[e + (i - e)]
        BY <1>6, <1>10, <4>1
      <4> QED BY <4>1, <4>2
    <3> QED BY <1>1, <1>6, <3>1, <3>2
  <2>3. e + d < Len(o) => o[(e + d) + 1] < Window
    <3> SUFFICES ASSUME e + d < Len(o) PROVE o[(e + d) + 1] < Window
      OBVIOUS
    <3>1. d < Len(q) /\ d + 1 \in 1..Len(q) /\ e + (d + 1) = (e + d) + 1
      BY <1>1, <1>2, <1>4, <1>6
    <3>2. q[d + 1] < Window /\ q[d + 1] = o[e + (d + 1)]
      BY <1>6, <1>10, <3>1
    <3> QED BY <3>1, <3>2
  <2> QED BY <1>3, <2>1, <2>2, <2>3, ExpiredUnique
<1>12. /\ Prune(o) \in Seq(0..Window) /\ Len(Prune(o)) = Len(o) - (e + d)
       /\ \A i \in 1..(Len(o) - (e + d)) : Prune(o)[i] = o[(e + d) + i]
  BY <1>3, <1>11, PruneFacts
<1>13. Len(Prune(o)) = Len(Prune(q))
  BY <1>1, <1>2, <1>4, <1>6, <1>7, <1>12
<1>14. ASSUME NEW i \in 1..Len(Prune(q))
       PROVE  Prune(q)[i] = Prune(o)[i]
  <2>1. /\ i \in 1..(Len(q) - d) /\ i \in 1..(Len(o) - (e + d))
        /\ d + i \in 1..Len(q) /\ e + (d + i) = (e + d) + i
    BY <1>1, <1>2, <1>4, <1>6, <1>7
  <2>2. q[d + i] = o[e + (d + i)]
    BY <1>10, <2>1
  <2> QED BY <1>7, <1>12, <2>1, <2>2
<1>15. Prune(q) = Prune(o)
  BY <1>7, <1>12, <1>13, <1>14, SeqEqual
<1>16. StillRecent(q) = Prune(q)
  BY <1>3, <1>9, StillRecentIsPrune
<1> QED BY <1>8, <1>15, <1>16 DEF o, p, q

\* Every step keeps the deques true to the window.
LEMMA WindowStep ==
  ASSUME QueueInv, WindowTrue, [Next]_vars
  PROVE  WindowTrue'
<1>0. /\ TypeOK /\ grants \in [Users -> Seq(0..Window)] /\ recent \in [Users -> Seq(0..Window)]
      /\ Enabled \in BOOLEAN
  BY FairQueueAssumption DEF QueueInv, TypeOK
<1>1. \A u \in Users : /\ grants[u] \in Seq(0..Window) /\ Falling(grants[u])
                       /\ recent[u] = Prune(grants[u])
  BY <1>0 DEF WindowTrue
<1>2. \A u \in Users : /\ Prune(grants[u]) \in Seq(0..Window)
                       /\ Falling(Prune(grants[u]))
                       /\ \A i \in 1..Len(Prune(grants[u])) : Prune(grants[u])[i] < Window
                       /\ Prune(Prune(grants[u])) = Prune(grants[u])
  BY <1>1, PruneType, PrunedInWindow, PruneAgain
<1>3. CASE UNCHANGED <<grants, recent>>
  BY <1>3 DEF WindowTrue
<1>4. ASSUME NEW v \in Users, grants' = Recorded(v), recent' = Noted(v)
      PROVE  WindowTrue'
  <2>1. CASE ~Enabled
    BY <1>3, <1>4, <2>1 DEF Recorded, Noted
  <2>2. CASE Enabled
    <3>1. \A u \in Users :
            /\ grants'[u] = IF u = v THEN Append(Prune(grants[u]), 0) ELSE Prune(grants[u])
            /\ recent'[u] = IF u = v THEN Append(Prune(grants[u]), 0) ELSE Prune(grants[u])
      BY <1>0, <1>1, <1>4, <2>2 DEF Recorded, Noted, PruneAll
    <3>2. \A u \in Users : Falling(grants'[u]) /\ recent'[u] = Prune(grants'[u])
      BY <1>2, <3>1, AppendNow
    <3> QED BY <2>2, <3>2 DEF WindowTrue
  <2> QED BY <1>0, <2>1, <2>2
<1>5. ASSUME grants' = IF Enabled THEN PruneAll ELSE grants, UNCHANGED recent
      PROVE  WindowTrue'
  <2>1. CASE ~Enabled
    BY <1>3, <1>5, <2>1
  <2>2. CASE Enabled
    <3>1. \A u \in Users : grants'[u] = Prune(grants[u]) /\ recent'[u] = Prune(grants[u])
      BY <1>0, <1>1, <1>5, <2>2 DEF PruneAll
    <3>2. \A u \in Users : Falling(grants'[u]) /\ recent'[u] = Prune(grants'[u])
      BY <1>2, <3>1
    <3> QED BY <2>2, <3>2 DEF WindowTrue
  <2> QED BY <1>0, <2>1, <2>2
<1>6. CASE Tick
  <2>1. \A u \in Users : /\ grants'[u] = Older(grants[u])
                         /\ recent'[u] = StillRecent(Older(Prune(grants[u])))
    BY <1>0, <1>1, <1>6 DEF Tick
  <2>2. \A u \in Users : Falling(grants'[u]) /\ recent'[u] = Prune(grants'[u])
    BY <1>1, <2>1, OlderPruned
  <2>3. Enabled
    <3> SUFFICES ASSUME ~Enabled PROVE FALSE
      BY <1>0
    <3>1. PICK u \in Users : recent[u] # <<>>
      BY <1>6 DEF Tick
    <3>2. grants[u] = <<>>
      BY DEF WindowTrue
    <3>3. Len(Prune(grants[u])) = 0 /\ Prune(grants[u]) \in Seq(0..Window)
      <4>1. /\ Len(grants[u]) = 0 /\ Expired(grants[u]) \in 0..Len(grants[u])
            /\ Len(Prune(grants[u])) = Len(grants[u]) - Expired(grants[u])
        BY <1>1, <3>2, ExpiredFacts, PruneFacts
      <4> QED BY <1>2, <4>1
    <3> QED BY <1>1, <3>1, <3>3
  <2> QED BY <2>2, <2>3 DEF WindowTrue
<1>7. ASSUME NEW r \in Requests, AcquireNow(r)
      PROVE  WindowTrue'
  <2>1. UserOf[r] \in Users
    BY FairQueueAssumption
  <2> QED BY <1>4, <1>7, <2>1 DEF AcquireNow
<1>8. ASSUME NEW r \in Requests, AdmitWaiter(r)
      PROVE  WindowTrue'
  <2>1. UserOf[waiters[Selected]] \in Users
    BY <1>0, <1>8, WaiterFacts DEF AdmitWaiter, MoreToAdmit
  <2> QED BY <1>4, <1>8, <2>1 DEF AdmitWaiter
<1> QED
  BY <1>3, <1>5, <1>6, <1>7, <1>8
     DEF Next, vars, InRelease, Enqueue, Receive, Cancel, Deregister, Release, SkipClosed,
         FinishRelease

\* In every reachable state counting a pruned deque counts the admissions a
\* user really had in the last window.
THEOREM WindowCounts == Spec => []WindowTrue
<1>1. Init => WindowTrue
  <2> SUFFICES ASSUME Init, NEW u \in Users
               PROVE  grants[u] = <<>> /\ Falling(grants[u]) /\ recent[u] = Prune(grants[u])
    BY DEF WindowTrue
  <2>1. grants[u] = <<>> /\ recent[u] = <<>>
    BY DEF Init
  <2>2. <<>> \in Seq(0..Window) /\ Falling(<<>>) /\ \A i \in 1..Len(<<>>) : <<>>[i] < Window
    BY DEF Falling
  <2>3. Prune(<<>>) = <<>>
    BY <2>2, PruneAgain
  <2> QED BY <2>1, <2>2, <2>3
<1>2. QueueInv /\ WindowTrue /\ [Next]_vars => WindowTrue'
  BY WindowStep
<1> QED BY <1>1, <1>2, QueueInvariant, PTL DEF Spec

\* A step that lets a waiter in.
LEMMA FairStep ==
  ASSUME QueueInv, WindowTrue, [Next]_vars,
         NEW i \in 1..Len(waiters), NEW j \in 1..Len(waiters) \ {i},
         pc[waiters[i]] = "waiting", pc'[waiters[i]] = "granted"
  PROVE  LET n(k) == Len(recent[UserOf[waiters[k]]])
         IN  n(i) < n(j) \/ (n(i) = n(j) /\ i < j)
<1>0. /\ TypeOK /\ SendersAlive /\ waiters \in Seq(Requests) /\ pc \in [Requests -> Stages]
      /\ waiters[i] \in Requests /\ Enabled \in BOOLEAN
  BY FairQueueAssumption DEF QueueInv, TypeOK
<1>1. \A k \in 1..Len(waiters) : waiters[k] \in Requests /\ UserOf[waiters[k]] \in Users
  BY <1>0, FairQueueAssumption
<1>2. PICK r \in Requests : AdmitWaiter(r)
  BY <1>0 DEF Next, vars, InRelease, AcquireNow, Enqueue, Receive, Cancel, Deregister, Release,
     SkipClosed, FinishRelease, Tick
<1>3. /\ waiters # <<>> /\ Selected \in 1..Len(waiters)
      /\ pc' = [pc EXCEPT ![waiters[Selected]] = "granted"]
  BY <1>0, <1>2, SelectedType DEF AdmitWaiter, MoreToAdmit
<1>4. i = Selected
  BY <1>0, <1>1, <1>3 DEF SendersAlive
<1>5. \A k \in 1..Len(waiters) :
        /\ recent[UserOf[waiters[k]]] = Prune(grants[UserOf[waiters[k]]])
        /\ ~Enabled => Len(recent[UserOf[waiters[k]]]) = 0
  <2>1. \A k \in 1..Len(waiters) :
          recent[UserOf[waiters[k]]] = Prune(grants[UserOf[waiters[k]]])
    BY <1>1 DEF WindowTrue
  <2>2. ASSUME ~Enabled, NEW k \in 1..Len(waiters)
        PROVE  Len(recent[UserOf[waiters[k]]]) = 0
    <3>1. grants[UserOf[waiters[k]]] = <<>> /\ <<>> \in Seq(0..Window)
      BY <1>1, <2>2 DEF WindowTrue
    <3>2. \A m \in 1..Len(<<>>) : <<>>[m] < Window
      OBVIOUS
    <3>3. Prune(<<>>) = <<>>
      BY <3>1, <3>2, PruneAgain
    <3>4. recent[UserOf[waiters[k]]] = <<>>
      BY <2>1, <3>1, <3>3
    <3> QED BY <3>4
  <2> QED BY <2>1, <2>2
<1>6. CASE Enabled
  <2>1. /\ Len(Prune(grants[UserOf[waiters[i]]])) = Len(recent[UserOf[waiters[i]]])
        /\ Len(Prune(grants[UserOf[waiters[j]]])) = Len(recent[UserOf[waiters[j]]])
    BY <1>5
  <2>2. \/ Len(Prune(grants[UserOf[waiters[i]]])) < Len(Prune(grants[UserOf[waiters[j]]]))
        \/ /\ Len(Prune(grants[UserOf[waiters[i]]])) = Len(Prune(grants[UserOf[waiters[j]]]))
           /\ i <= j
    BY <1>0, <1>3, <1>4, <1>6, SelectedType
  <2> QED BY <2>1, <2>2
<1>7. CASE ~Enabled
  <2>1. i = 1
    BY <1>4, <1>7 DEF Selected
  <2> QED BY <1>5, <1>7, <2>1
<1> QED BY <1>0, <1>6, <1>7

\* Whoever is let in has the fewest true admissions in the window among those
\* who wait and came first among equals, although deques are pruned late and
\* closed waiters are skipped (admit_waiters, prune).
THEOREM SelectionIsFair == Spec => FairSelection
<1>1. ASSUME QueueInv, WindowTrue, [Next]_vars
      PROVE  [\A i \in 1..Len(waiters) :
                (pc[waiters[i]] = "waiting" /\ pc'[waiters[i]] = "granted") =>
                  \A j \in 1..Len(waiters) \ {i} :
                    pc[waiters[j]] = "waiting" =>
                      LET n(k) == Len(recent[UserOf[waiters[k]]])
                      IN  n(i) < n(j) \/ (n(i) = n(j) /\ i < j)]_vars
  BY <1>1, FairStep
<1> QED BY <1>1, QueueInvariant, WindowCounts, PTL DEF Spec, FairSelection

-----------------------------------------------------------------------------
(* Refinement *)

\* The place of a request is determined by its stage, and a step that moves
\* only r changes only r's place.
LEMMA PlaceFacts ==
  ASSUME TypeOK
  PROVE  /\ \A r \in Requests : /\ pc[r] = "idle" => Place[r] = "out"
                                /\ pc[r] = "waiting" => Place[r] = "queued"
                                /\ Place[r] = "inside" <=> r \in Guards
         /\ Gate!Inside = Guards
         /\ Gate!Cardinality(Gate!Inside) = Cardinality(Guards)
<1>1. \A r \in Requests : /\ pc[r] = "idle" => Place[r] = "out"
                          /\ pc[r] = "waiting" => Place[r] = "queued"
                          /\ Place[r] = "inside" <=> r \in Guards
  BY DEF Place, Guards, TypeOK, Stages
<1>2. Gate!Inside = {r \in Requests : Place[r] = "inside"}
  BY DEF Gate!Inside
<1>3. Guards \subseteq Requests
  BY DEF Guards
<1> HIDE DEF Place, Guards
<1>4. Gate!Inside = Guards
  BY <1>1, <1>2, <1>3
<1>5. Gate!Cardinality(Guards) = Cardinality(Guards)
  BY Zenon DEF Cardinality, Gate!Cardinality
<1> QED BY <1>1, <1>4, <1>5

\* Every step of the queue is a step of the gate or leaves every place alone.
LEMMA GateStep ==
  ASSUME QueueInv, QueueInv', [Next]_vars
  PROVE  [Gate!Next]_Place
<1>0. /\ TypeOK /\ SlotAccounting
      /\ Gate!Cardinality(Gate!Inside) = Cardinality(Guards)
      /\ Capacity \in Nat /\ in_flight \in Nat
      /\ pc \in [Requests -> Stages] /\ pc' \in [Requests -> Stages]
  BY PlaceFacts, FairQueueAssumption DEF QueueInv, TypeOK
<1>1. ASSUME NEW r \in Requests, AcquireNow(r) PROVE Gate!Next
  <2>1. pc[r] = "idle" /\ in_flight < Capacity /\ pc' = [pc EXCEPT ![r] = "holding"]
    BY <1>1 DEF AcquireNow, MayArrive, HasRoom
  <2>2. Place[r] = "out" /\ Place' = [Place EXCEPT ![r] = "inside"]
    BY <2>1, <1>0 DEF Place, Stages
  <2>3. Gate!Enter(r)
    BY <2>1, <2>2, <1>0 DEF Gate!Enter, Gate!Move, SlotAccounting
  <2> QED BY <2>3 DEF Gate!Next
<1>2. ASSUME NEW r \in Requests, Enqueue(r) PROVE Gate!Next
  <2>1. in_flight = Capacity
    BY <1>2, EnqueueStep
  <2>2. pc[r] = "idle" /\ pc' = [pc EXCEPT ![r] = "waiting"]
    BY <1>2 DEF Enqueue, MayArrive
  <2>3. Place[r] = "out" /\ Place' = [Place EXCEPT ![r] = "queued"]
    BY <2>2, <1>0 DEF Place, Stages
  <2>4. Gate!Queue(r)
    BY <2>1, <2>3, <1>0 DEF Gate!Queue, Gate!Move, SlotAccounting
  <2> QED BY <2>4 DEF Gate!Next
<1>3. ASSUME NEW r \in Requests, Receive(r) PROVE Place' = Place
  BY <1>3, <1>0 DEF Receive, Place
<1>4. ASSUME NEW r \in Requests, Cancel(r) PROVE Gate!Next \/ Place' = Place
  <2>1. CASE pc[r] = "granted"
    BY <1>4, <2>1, <1>0 DEF Cancel, Place
  <2>2. CASE pc[r] = "waiting"
    <3>1. pc' = [pc EXCEPT ![r] = "closed"]
      BY <1>4, <2>2 DEF Cancel
    <3>2. Place[r] = "queued" /\ Place' = [Place EXCEPT ![r] = "out"]
      BY <3>1, <2>2, <1>0 DEF Place, Stages
    <3>3. Gate!Abandon(r)
      BY <3>2 DEF Gate!Abandon, Gate!Move
    <3> QED BY <3>3 DEF Gate!Next
  <2> QED BY <1>4, <2>1, <2>2 DEF Cancel
<1>5. ASSUME NEW r \in Requests, Deregister(r) PROVE Place' = Place
  BY <1>5, <1>0 DEF Deregister, Place
<1>6. ASSUME NEW r \in Requests, Release(r) PROVE Gate!Next
  <2>1. Place[r] = "inside" /\ Place' = [Place EXCEPT ![r] = "out"]
    BY <1>6, <1>0 DEF Release, Place, Stages
  <2>2. Gate!Leave(r)
    BY <2>1 DEF Gate!Leave, Gate!Move
  <2> QED BY <2>2 DEF Gate!Next
<1>7. ASSUME NEW r \in Requests, AdmitWaiter(r) PROVE Gate!Next
  <2> DEFINE w == waiters[Selected]
  <2>1. w \in Requests
    BY <1>7, <1>0, WaiterFacts DEF AdmitWaiter, MoreToAdmit
  <2>2. pc[w] = "waiting" /\ in_flight < Capacity /\ pc' = [pc EXCEPT ![w] = "granted"]
    BY <1>7 DEF AdmitWaiter, MoreToAdmit, HasRoom
  <2> HIDE DEF w
  <2>3. Place[w] = "queued" /\ Place' = [Place EXCEPT ![w] = "inside"]
    BY <2>1, <2>2, <1>0 DEF Place, Stages
  <2>4. Gate!Admit(w)
    BY <2>2, <2>3, <1>0 DEF Gate!Admit, Gate!Move, SlotAccounting
  <2> QED BY <2>1, <2>4 DEF Gate!Next
<1>8. ASSUME NEW r \in Requests, SkipClosed(r) PROVE Place' = Place
  BY <1>8 DEF SkipClosed, Place
<1>9. ASSUME NEW r \in Requests, FinishRelease(r) PROVE Place' = Place
  <2>1. pc[r] \in {"leaving", "withdrawing"}
    BY <1>9, FairQueueAssumption DEF FinishRelease, QueueInv, MutexOwner
  <2> QED BY <1>9, <2>1, <1>0 DEF FinishRelease, Place
<1>10. ASSUME Tick \/ UNCHANGED vars PROVE Place' = Place
  BY <1>10 DEF Tick, vars, Place
<1> QED BY <1>1, <1>2, <1>3, <1>4, <1>5, <1>6, <1>7, <1>8, <1>9, <1>10
        DEF Next, InRelease

\* The queue implements the gate: a request enters only below the capacity and
\* queues only when every slot is taken.
THEOREM QueueImplementsGate == Spec => Gate!Spec
<1>1. Init => Gate!Init
  BY DEF Init, Gate!Init, Place
<1>2. QueueInv /\ QueueInv' /\ [Next]_vars => [Gate!Next]_Place
  BY GateStep
<1> QED BY <1>1, <1>2, QueueInvariant, PTL DEF Spec, Gate!Spec
=============================================================================
