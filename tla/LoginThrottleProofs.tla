------------------------ MODULE LoginThrottleProofs ------------------------
(***************************************************************************)
(* The login throttle keeps its promises for every number of attempts,     *)
(* clients and proxies, every chain of forwarding headers, and every size  *)
(* of the table: the table stays within its capacity and its back-offs,    *)
(* clients whom the headers name are known by their own address, and       *)
(* making room never frees a client while another is blocked for a shorter *)
(* time.                                                                   *)
(***************************************************************************)
EXTENDS LoginThrottle, FiniteSetTheorems, SequenceTheorems, WellFoundedInduction, TLAPS

-----------------------------------------------------------------------------
(* Back-off *)

\* A shift of one is positive.
LEMMA PowerPositive ==
  ASSUME NEW n \in Nat
  PROVE  2 ^ n \in Nat /\ 2 ^ n > 0
<1>1. IsFiniteSet(1..n) /\ Cardinality(1..n) = n
  BY FS_Interval
<1>2. IsFiniteSet(SUBSET (1..n)) /\ Cardinality(SUBSET (1..n)) = 2 ^ n
  BY <1>1, FS_SUBSET
<1>3. Cardinality(SUBSET (1..n)) \in Nat /\ Cardinality(SUBSET (1..n)) # 0
  <2>1. {} \in SUBSET (1..n)
    OBVIOUS
  <2>2. QED
    BY <1>2, <2>1, FS_EmptySet, FS_CardinalityType
<1>4. QED
  BY <1>2, <1>3

\* backoff_for_failures blocks exactly when the free attempts are used up.
LEMMA BackoffFacts ==
  ASSUME NEW n \in Nat
  PROVE  /\ BackoffForFailures(n) \in Nat
         /\ BackoffForFailures(n) <= MAX_BACKOFF
         /\ BackoffForFailures(n) = 0 <=> n <= FREE_ATTEMPTS
<1>1. FREE_ATTEMPTS \in Nat /\ MAX_BACKOFF \in Nat /\ MAX_BACKOFF > 0
  BY ThrottleAssumption
<1>2. CASE n <= FREE_ATTEMPTS
  BY <1>1, <1>2 DEF BackoffForFailures
<1>3. CASE ~(n <= FREE_ATTEMPTS)
  <2> DEFINE m == Least(n - FREE_ATTEMPTS - 1, 32)
  <2>1. m \in Nat
    BY <1>1, <1>3 DEF Least
  <2>2. 2 ^ m \in Nat /\ 2 ^ m > 0
    <3> HIDE DEF m
    <3> QED BY <2>1, PowerPositive
  <2>3. BackoffForFailures(n) = Least(MAX_BACKOFF, 2 ^ m)
    BY <1>3 DEF BackoffForFailures
  <2> HIDE DEF m
  <2>4. QED
    BY <1>1, <1>3, <2>2, <2>3 DEF Least
<1>4. QED
  BY <1>2, <1>3

-----------------------------------------------------------------------------
(* The table *)

\* An entry of the table.
EntryOK(e) ==
  /\ e \in [failures : Nat, blocked : Nat]
  /\ e.failures \in 1..MaxFailures
  /\ e.blocked \in 0..BackoffForFailures(e.failures)

TableOK ==
  /\ IsFiniteSet(DOMAIN map) /\ Cardinality(DOMAIN map) <= CAP
  /\ \A k \in DOMAIN map : EntryOK(map[k])

\* What making room for a client leaves: entries as they were, room for one
\* more, and of the blocked entries all, or all but one that is blocked for
\* the shortest time of a full table.
LEMMA EvictFacts ==
  ASSUME TableOK, NEW k, NEW kept \in Evict(k, map)
  PROVE  /\ DOMAIN kept \subseteq DOMAIN map
         /\ \A j \in DOMAIN kept : kept[j] = map[j]
         /\ Cardinality(DOMAIN kept \cup {k}) <= CAP
         /\ k \in DOMAIN map => DOMAIN kept = DOMAIN map
         /\ \A i \in DOMAIN map \ DOMAIN kept :
              Blocked(i) => /\ Cardinality(DOMAIN map) = CAP
                            /\ \A j \in DOMAIN map : map[j].blocked >= map[i].blocked
<1> DEFINE left == {j \in DOMAIN map : map[j].blocked > 0}
           least == {j \in left : \A i \in left : map[j].blocked <= map[i].blocked}
<1>1. /\ CAP \in Nat /\ IsFiniteSet(DOMAIN map) /\ Cardinality(DOMAIN map) \in Nat
      /\ Cardinality(DOMAIN map) <= CAP
      /\ \A j \in DOMAIN map : map[j].blocked \in Nat
  BY ThrottleAssumption, FS_CardinalityType DEF TableOK, EntryOK
<1>2. CASE k \in DOMAIN map
  <2>1. kept = map
    BY <1>2 DEF Evict
  <2>2. DOMAIN map \cup {k} = DOMAIN map
    BY <1>2
  <2>3. QED
    BY <1>1, <2>1, <2>2
<1>3. CASE k \notin DOMAIN map /\ Cardinality(DOMAIN map) < CAP
  <2>1. kept = map
    BY <1>3 DEF Evict
  <2>2. Cardinality(DOMAIN map \cup {k}) = Cardinality(DOMAIN map) + 1
    BY <1>1, <1>3, FS_AddElement
  <2>3. QED
    BY <1>1, <1>3, <2>1, <2>2
<1>4. CASE k \notin DOMAIN map /\ ~(Cardinality(DOMAIN map) < CAP)
  <2>1. Cardinality(DOMAIN map) = CAP
    BY <1>1, <1>4
  <2>2. kept \in IF Cardinality(left) < CAP THEN {Restrict(map, left)}
                 ELSE {Restrict(map, left \ {j}) : j \in least}
    BY <1>4 DEF Evict
  <2>3. left \subseteq DOMAIN map /\ least \subseteq left
    OBVIOUS
  <2>4. /\ IsFiniteSet(left) /\ Cardinality(left) \in Nat /\ Cardinality(left) <= CAP
        /\ Cardinality(left) = CAP => left = DOMAIN map
    BY <1>1, <2>1, <2>3, FS_Subset, FS_CardinalityType
  <2>5. \A i \in DOMAIN map : Blocked(i) <=> i \in left
    BY DEF Blocked
  <2>6. \A j \in least, i \in left : map[j].blocked <= map[i].blocked
    OBVIOUS
  <2> HIDE DEF left, least
  <2>7. CASE Cardinality(left) < CAP
    <3>1. DOMAIN kept = left /\ \A j \in left : kept[j] = map[j]
      BY <2>2, <2>7 DEF Restrict
    <3>2. Cardinality(left \cup {k}) = Cardinality(left) + 1
      BY <1>4, <2>3, <2>4, FS_AddElement
    <3>3. QED
      BY <1>1, <1>4, <2>3, <2>4, <2>5, <2>7, <3>1, <3>2
  <2>8. CASE ~(Cardinality(left) < CAP)
    <3>1. PICK j \in least : kept = Restrict(map, left \ {j})
      BY <2>2, <2>8
    <3>2. DOMAIN kept = left \ {j} /\ \A i \in left \ {j} : kept[i] = map[i]
      BY <3>1 DEF Restrict
    <3>3. left = DOMAIN map
      BY <1>1, <2>4, <2>8
    <3>4. IsFiniteSet(left \ {j}) /\ Cardinality(left \ {j}) = CAP - 1
      BY <2>1, <2>3, <2>4, <3>1, <3>3, FS_RemoveElement
    <3>5. Cardinality((left \ {j}) \cup {k}) = CAP
      <4>1. k \notin left \ {j}
        BY <1>4, <3>3
      <4>2. Cardinality((left \ {j}) \cup {k}) = Cardinality(left \ {j}) + 1
        BY <3>4, <4>1, FS_AddElement
      <4>3. QED
        BY <1>1, <3>4, <4>2
    <3>6. \A i \in DOMAIN map \ DOMAIN kept : i = j
      BY <3>2, <3>3
    <3>7. \A i \in DOMAIN map : map[i].blocked >= map[j].blocked
      BY <1>1, <2>3, <2>6, <3>1, <3>3
    <3>8. QED
      BY <1>1, <1>4, <2>1, <3>2, <3>3, <3>5, <3>6, <3>7
  <2>9. QED
    BY <2>7, <2>8
<1>5. QED
  BY <1>2, <1>3, <1>4

\* The entry record_failure writes.
LEMMA NewEntryOK ==
  ASSUME NEW before, \/ EntryOK(before)
                     \/ before = [failures |-> 0, blocked |-> 0]
  PROVE  LET failures == Least(before.failures + 1, MaxFailures)
             backoff == BackoffForFailures(failures)
         IN  EntryOK([failures |-> failures,
                      blocked |-> IF backoff > 0 THEN backoff ELSE before.blocked])
<1> DEFINE failures == Least(before.failures + 1, MaxFailures)
           backoff == BackoffForFailures(failures)
           blocked == IF backoff > 0 THEN backoff ELSE before.blocked
<1>1. /\ MaxFailures \in Nat /\ MaxFailures >= 1
      /\ FREE_ATTEMPTS \in Nat
  BY ThrottleAssumption
<1>2. before.failures \in 0..MaxFailures /\ before.blocked \in Nat
  BY <1>1 DEF EntryOK
<1>3. failures \in 1..MaxFailures /\ failures >= before.failures
  BY <1>1, <1>2 DEF Least
<1>4. backoff \in Nat /\ (backoff = 0 => failures <= FREE_ATTEMPTS)
  <2> HIDE DEF failures
  <2> QED BY <1>1, <1>3, BackoffFacts
<1>5. ASSUME backoff = 0
      PROVE  before.blocked = 0
  <2>1. before.failures <= FREE_ATTEMPTS
    <3> HIDE DEF failures, backoff
    <3> QED BY <1>1, <1>2, <1>3, <1>4, <1>5
  <2>2. EntryOK(before) => BackoffForFailures(before.failures) = 0
    BY <1>1, <1>2, <2>1, BackoffFacts
  <2>3. QED
    BY <2>2 DEF EntryOK
<1>6. blocked \in 0..backoff /\ blocked \in Nat
  <2> HIDE DEF failures, backoff
  <2> QED BY <1>2, <1>4, <1>5
<1>7. EntryOK([failures |-> failures, blocked |-> blocked])
  <2> HIDE DEF failures, blocked
  <2> QED BY <1>1, <1>3, <1>6 DEF EntryOK, backoff
<1>8. QED
  BY <1>7

\* A failure makes room, and writes one entry.
LEMMA FailureKeepsTable ==
  ASSUME TableOK, NEW a \in Attempts, RecordFailure(a)
  PROVE  TableOK'
<1> DEFINE k == attempt[a].key
<1>1. PICK kept \in Evict(k, map) :
        LET before == IF k \in DOMAIN kept THEN kept[k] ELSE [failures |-> 0, blocked |-> 0]
            failures == Least(before.failures + 1, MaxFailures)
            backoff == BackoffForFailures(failures)
            entry == [failures |-> failures,
                      blocked |-> IF backoff > 0 THEN backoff ELSE before.blocked]
        IN  map' = [j \in DOMAIN kept \cup {k} |-> IF j = k THEN entry ELSE kept[j]]
  BY DEF RecordFailure
<1> DEFINE before == IF k \in DOMAIN kept THEN kept[k] ELSE [failures |-> 0, blocked |-> 0]
           failures == Least(before.failures + 1, MaxFailures)
           backoff == BackoffForFailures(failures)
           entry == [failures |-> failures,
                     blocked |-> IF backoff > 0 THEN backoff ELSE before.blocked]
<1>2. map' = [j \in DOMAIN kept \cup {k} |-> IF j = k THEN entry ELSE kept[j]]
  BY <1>1
<1> HIDE DEF k
<1>3. /\ DOMAIN kept \subseteq DOMAIN map
      /\ \A j \in DOMAIN kept : kept[j] = map[j]
      /\ Cardinality(DOMAIN kept \cup {k}) <= CAP
  BY EvictFacts
<1>4. EntryOK(entry)
  <2>1. EntryOK(before) \/ before = [failures |-> 0, blocked |-> 0]
    BY <1>3 DEF TableOK
  <2> HIDE DEF before
  <2>2. QED
    BY <2>1, NewEntryOK
<1>5. IsFiniteSet(DOMAIN kept \cup {k})
  BY <1>3, FS_Subset, FS_AddElement DEF TableOK
<1> HIDE DEF entry
<1>6. DOMAIN map' = DOMAIN kept \cup {k}
  BY <1>2
<1>7. \A j \in DOMAIN map' : EntryOK(map'[j])
  BY <1>2, <1>3, <1>4 DEF TableOK
<1>8. QED
  BY <1>3, <1>5, <1>6, <1>7 DEF TableOK

\* The table stays in bounds whatever happens.
LEMMA TableKept ==
  ASSUME TableOK, [Next]_vars
  PROVE  TableOK'
<1>0. CAP \in Nat
  BY ThrottleAssumption
<1>1. ASSUME NEW a \in Attempts, RecordFailure(a)
      PROVE  TableOK'
  BY <1>1, FailureKeepsTable
<1>2. ASSUME NEW a \in Attempts, RecordSuccess(a)
      PROVE  TableOK'
  <2> DEFINE rest == DOMAIN map \ {attempt[a].key}
  <2>1. DOMAIN map' = rest /\ \A k \in rest : map'[k] = map[k]
    BY <1>2 DEF RecordSuccess, Restrict
  <2>2. /\ IsFiniteSet(rest) /\ Cardinality(rest) <= Cardinality(DOMAIN map)
        /\ Cardinality(rest) \in Nat /\ Cardinality(DOMAIN map) \in Nat
    <3>1. rest \subseteq DOMAIN map
      OBVIOUS
    <3> HIDE DEF rest
    <3>2. QED
      BY <3>1, FS_Subset, FS_CardinalityType DEF TableOK
  <2>3. QED
    BY <1>0, <2>1, <2>2 DEF TableOK
<1>3. CASE Tick
  <2>1. /\ DOMAIN map' = DOMAIN map
        /\ \A k \in DOMAIN map :
             map'[k] = [map[k] EXCEPT !.blocked = IF @ > 0 THEN @ - 1 ELSE 0]
    BY <1>3 DEF Tick
  <2>2. ASSUME NEW k \in DOMAIN map
        PROVE  EntryOK(map'[k])
    <3>1. /\ map[k] \in [failures : Nat, blocked : Nat]
          /\ map[k].failures \in 1..MaxFailures
          /\ map[k].blocked \in 0..BackoffForFailures(map[k].failures)
          /\ BackoffForFailures(map[k].failures) \in Nat
      BY BackoffFacts DEF TableOK, EntryOK
    <3>2. QED
      BY <2>1, <3>1 DEF EntryOK
  <2>3. QED
    BY <2>1, <2>2 DEF TableOK
<1>4. CASE Restart
  BY <1>0, <1>4, FS_EmptySet DEF Restart, Empty, TableOK
<1>5. ASSUME NEW a \in Attempts, Arrivals(a) \/ RecordNothing(a)
      PROVE  TableOK'
  BY <1>5 DEF Arrivals, Arrive, RecordNothing, TableOK
<1>6. CASE UNCHANGED vars
  BY <1>6 DEF vars, TableOK
<1>7. QED
  BY <1>1, <1>2, <1>3, <1>4, <1>5, <1>6 DEF Next

\* The table is a finite function of clients that never exceeds its capacity.
LEMMA TableInvariant == Spec => []TableOK
<1>1. Init => TableOK
  BY ThrottleAssumption, FS_EmptySet DEF Init, Empty, TableOK
<1>2. TableOK /\ [Next]_vars => TableOK'
  BY TableKept
<1>3. QED
  BY <1>1, <1>2, PTL DEF Spec

\* The table never exceeds its capacity, and nobody is blocked for longer than
\* the failures counted justify (record_failure, backoff_for_failures).
THEOREM TableWithinBounds == Spec => []TableBounded
<1>1. TableOK => TableBounded
  BY DEF TableOK, TableBounded, EntryOK
<1>2. QED
  BY <1>1, TableInvariant, PTL

\* Making room never frees a blocked client while another tracked one is
\* blocked for a shorter time or not at all (record_failure).
THEOREM EvictionInOrder == Spec => EvictionOrder
<1> DEFINE Fair(a) ==
      RecordFailure(a) =>
        \A k \in DOMAIN map \ DOMAIN map' :
          Blocked(k) => /\ Cardinality(DOMAIN map) = CAP
                        /\ \A j \in DOMAIN map : map[j].blocked >= map[k].blocked
<1>1. ASSUME TableOK, NEW a \in Attempts, RecordFailure(a),
             NEW i \in DOMAIN map \ DOMAIN map', Blocked(i)
      PROVE  /\ Cardinality(DOMAIN map) = CAP
             /\ \A j \in DOMAIN map : map[j].blocked >= map[i].blocked
  <2> DEFINE k == attempt[a].key
  <2>1. PICK kept \in Evict(k, map) : DOMAIN map' = DOMAIN kept \cup {k}
    BY <1>1 DEF RecordFailure
  <2>2. i \in DOMAIN map \ DOMAIN kept
    BY <1>1, <2>1
  <2> HIDE DEF k
  <2>3. QED
    BY <1>1, <2>2, EvictFacts
<1>2. TableOK => \A a \in Attempts : Fair(a)
  BY <1>1
<1>3. TableOK /\ [Next]_vars => [\A a \in Attempts : Fair(a)]_vars
  BY <1>2
<1>4. QED
  BY <1>3, TableInvariant, PTL DEF Spec, EvictionOrder

-----------------------------------------------------------------------------
(* Who a client is *)

\* An untrusted hop with only trusted ones behind it is the last untrusted one.
LEMMA LastUntrustedIs ==
  ASSUME NEW S, NEW s \in Seq(S), NEW i \in 1..Len(s), s[i] \notin Trusted,
         \A j \in (i + 1)..Len(s) : s[j] \in Trusted
  PROVE  LastUntrusted(s) = s[i]
<1> DEFINE Hop(k) == s[k] \notin Trusted /\ \A j \in (k + 1)..Len(s) : s[j] \in Trusted
<1>1. DOMAIN s = 1..Len(s) /\ Len(s) \in Nat
  OBVIOUS
<1>2. \A k \in 1..Len(s) : Hop(k) => k = i
  BY <1>1
<1>3. (CHOOSE k \in DOMAIN s : Hop(k)) = i
  BY <1>1, <1>2
<1>4. QED
  BY <1>3 DEF LastUntrusted

\* A request has a last untrusted hop, since its client is no proxy.
LEMMA SomebodyIsUntrusted ==
  ASSUME NEW s \in Seq(Clients \cup Proxies), Len(s) >= 1, s[1] \in Clients
  PROVE  \E i \in 1..Len(s) : /\ s[i] \notin Trusted
                              /\ \A j \in (i + 1)..Len(s) : s[j] \in Trusted
<1> DEFINE T == {d \in 0..(Len(s) - 1) : s[Len(s) - d] \notin Trusted}
<1>1. Len(s) \in Nat /\ s[1] \notin Trusted
  BY ThrottleAssumption
<1>2. T \subseteq Nat /\ T # {}
  <2>1. Len(s) - 1 \in 0..(Len(s) - 1) /\ Len(s) - (Len(s) - 1) = 1
    BY <1>1
  <2>2. s[Len(s) - (Len(s) - 1)] \notin Trusted
    BY <1>1, <2>1
  <2>3. Len(s) - 1 \in T
    BY <2>1, <2>2
  <2>4. T \subseteq 0..(Len(s) - 1) /\ 0..(Len(s) - 1) \subseteq Nat
    BY <1>1
  <2>5. QED
    <3> HIDE DEF T
    <3> QED BY <2>3, <2>4
<1>3. \E d \in T : \A e \in T : ~(<<e, d>> \in OpToRel(<, Nat))
  <2> HIDE DEF T
  <2> QED BY <1>2, NatLessThanWellFounded, WFMin
<1>4. PICK d \in T : \A e \in T : ~(e < d)
  BY <1>2, <1>3 DEF OpToRel
<1>5. Len(s) - d \in 1..Len(s) /\ s[Len(s) - d] \notin Trusted
  BY <1>1, <1>4
<1>6. ASSUME NEW j \in (Len(s) - d + 1)..Len(s), s[j] \notin Trusted
      PROVE  FALSE
  <2>1. Len(s) - j \in 0..(Len(s) - 1) /\ Len(s) - (Len(s) - j) = j /\ Len(s) - j < d
    BY <1>1, <1>4, <1>6
  <2>2. Len(s) - j \in T
    BY <1>6, <2>1
  <2>3. QED
    BY <1>4, <2>1, <2>2
<1>7. QED
  BY <1>5, <1>6

\* Behind trusted proxies that all add to the line that is read, what they add
\* decides, whatever the client wrote before it.
LEMMA AppendedHopsCount ==
  ASSUME NEW client \in Clients, NEW path \in Paths, NEW junk \in Junk,
         Last(Hops(client, path)) \in Trusted
  PROVE  /\ LastUntrusted(Chain(client, path, junk)) = LastUntrusted(Hops(client, path))
         /\ ~(ToSet(Chain(client, path, junk)) \subseteq Trusted)
<1> DEFINE hops == Hops(client, path)
           chain == Chain(client, path, junk)
           All == Clients \cup Proxies \cup {Malformed}
<1>1. path \in Seq(Proxies) /\ junk \in Seq(All) /\ Len(path) \in Nat /\ Len(junk) \in Nat
  BY ThrottleAssumption
<1>2. /\ hops \in Seq(Clients \cup Proxies) /\ Len(hops) = Len(path) + 1
      /\ hops[1] = client /\ \A i \in 1..Len(hops) : hops[i] \in Clients \cup Proxies
  <2>1. <<client>> \in Seq(Clients \cup Proxies) /\ path \in Seq(Clients \cup Proxies)
    BY <1>1
  <2>2. QED
    BY <1>1, <2>1 DEF Hops
<1>3. hops[Len(hops)] \in Trusted
  BY <1>2 DEF Last
<1> HIDE DEF hops
<1>4. PICK i \in 1..Len(hops) : /\ hops[i] \notin Trusted
                                /\ \A j \in (i + 1)..Len(hops) : hops[j] \in Trusted
  <2>1. Len(hops) >= 1 /\ hops[1] \in Clients
    BY <1>1, <1>2
  <2>2. QED
    BY <1>2, <2>1, SomebodyIsUntrusted
<1>5. i <= Len(path)
  BY <1>1, <1>2, <1>3, <1>4
<1> DEFINE seen == SubSeq(hops, 1, Len(path))
<1>6. /\ seen \in Seq(All) /\ Len(seen) = Len(path)
      /\ \A j \in 1..Len(path) : seen[j] = hops[j]
  BY <1>1, <1>2
<1> HIDE DEF seen
<1>7. /\ chain \in Seq(All) /\ Len(chain) = Len(junk) + Len(path)
      /\ \A j \in 1..Len(path) : chain[Len(junk) + j] = hops[j]
  <2>1. chain = junk \o seen
    BY DEF Chain, hops, seen
  <2>2. \A j \in 1..Len(path) : (junk \o seen)[Len(junk) + j] = seen[j]
    BY <1>1, <1>6
  <2>3. junk \o seen \in Seq(All) /\ Len(junk \o seen) = Len(junk) + Len(path)
    BY <1>1, <1>6
  <2>4. QED
    BY <1>6, <2>1, <2>2, <2>3
<1> HIDE DEF chain
<1> DEFINE n == Len(junk) + i
<1>8. n \in 1..Len(chain) /\ chain[n] = hops[i]
  BY <1>1, <1>2, <1>5, <1>7
<1>9. ASSUME NEW j \in (n + 1)..Len(chain)
      PROVE  chain[j] \in Trusted
  <2>1. /\ j - Len(junk) \in 1..Len(path) /\ Len(junk) + (j - Len(junk)) = j
        /\ j - Len(junk) \in (i + 1)..Len(hops)
    BY <1>1, <1>2, <1>7, <1>9
  <2>2. QED
    BY <1>4, <1>7, <2>1
<1>10. LastUntrusted(chain) = chain[n]
  <2> HIDE DEF n
  <2> QED BY <1>4, <1>7, <1>8, <1>9, LastUntrustedIs
<1>11. LastUntrusted(hops) = hops[i]
  BY <1>2, <1>4, LastUntrustedIs
<1>12. chain[n] \in ToSet(chain)
  BY <1>7, <1>8 DEF ToSet
<1>13. QED
  BY <1>4, <1>8, <1>10, <1>11, <1>12 DEF hops, chain

\* The key of a request whose headers name somebody.
LEMMA KeyOfNamed ==
  ASSUME NEW client \in Clients, NEW path \in Paths, NEW junk \in Junk,
         NEW line, NEW real \in RealIps,
         Named(Hops(client, path), Chain(client, path, junk), line, real)
  PROVE  ClientIp(Last(Hops(client, path)), line, real) = LastUntrusted(Hops(client, path))
<1> DEFINE hops == Hops(client, path)
<1>1. /\ path \in Seq(Proxies) /\ hops \in Seq(Clients \cup Proxies)
      /\ Len(hops) = Len(path) + 1 /\ Len(path) \in Nat /\ hops[1] = client
  <2>1. path \in Seq(Proxies)
    BY ThrottleAssumption
  <2>2. path \in Seq(Clients \cup Proxies) /\ <<client>> \in Seq(Clients \cup Proxies)
    BY <2>1
  <2>3. QED
    BY <2>1, <2>2 DEF Hops
<1>2. CASE Last(hops) \notin Trusted
  <2> HIDE DEF hops
  <2>1. Last(hops) = hops[Len(hops)] /\ Len(hops) \in 1..Len(hops)
    BY <1>1 DEF Last
  <2>2. LastUntrusted(hops) = hops[Len(hops)]
    BY <1>1, <1>2, <2>1, LastUntrustedIs
  <2>3. ClientIp(Last(hops), line, real) = Last(hops)
    BY <1>2 DEF ClientIp
  <2>4. QED
    BY <2>1, <2>2, <2>3 DEF hops
<1>3. CASE /\ Last(hops) \in Trusted
           /\ line = Chain(client, path, junk) /\ Malformed \notin ToSet(line)
  <2>1. ~Unreadable(line)
    BY <1>3, AppendedHopsCount DEF Unreadable
  <2>2. QED
    BY <1>3, <2>1, AppendedHopsCount DEF ClientIp
<1>4. CASE Last(hops) \in Trusted /\ Unreadable(line) /\ real = LastUntrusted(hops)
  <2>1. real # NoAddress \/ Last(hops) = real
    <3>1. PICK i \in 1..Len(hops) : /\ hops[i] \notin Trusted
                                    /\ \A j \in (i + 1)..Len(hops) : hops[j] \in Trusted
      <4> HIDE DEF hops
      <4>1. hops \in Seq(Clients \cup Proxies) /\ hops[1] \in Clients
        BY <1>1
      <4>2. Len(hops) >= 1
        BY <1>1
      <4>3. QED
        BY ONLY <4>1, <4>2, SomebodyIsUntrusted
    <3>2. real = hops[i] /\ hops[i] \in Clients \cup Proxies
      <4> HIDE DEF hops
      <4> QED BY <1>1, <1>4, <3>1, LastUntrustedIs
    <3>3. QED
      BY <3>2, ThrottleAssumption
  <2>2. QED
    BY <1>4, <2>1 DEF ClientIp
<1>5. QED
  BY <1>2, <1>3, <1>4 DEF Named

AttemptsOK == DOMAIN attempt = Attempts /\ KeyIsClient

\* An attempt that passes the check carries its client's key.
LEMMA ArrivalKey ==
  ASSUME NEW a \in Attempts, AttemptsOK, Arrivals(a)
  PROVE  AttemptsOK'
<1>1. PICK client \in Clients, path \in Paths, junk \in Junk, real \in RealIps :
        \E read \in 0..Len(Chain(client, path, junk)) :
          Arrive(a, Hops(client, path), Chain(client, path, junk),
                 SubSeq(Chain(client, path, junk), 1, read), real)
  BY DEF Arrivals
<1>2. PICK line : Arrive(a, Hops(client, path), Chain(client, path, junk), line, real)
  BY <1>1
<1> DEFINE key == ClientIp(Last(Hops(client, path)), line, real)
           named == Named(Hops(client, path), Chain(client, path, junk), line, real)
           owner == LastUntrusted(Hops(client, path))
<1>3. named => key = owner
  BY KeyOfNamed
<1>4. \/ attempt' = [attempt EXCEPT ![a] = Idle]
      \/ attempt' = [attempt EXCEPT ![a] = [pc |-> "verifying", key |-> key, owner |-> owner,
                                            named |-> named]]
  BY <1>2 DEF Arrive, Verifying
<1> HIDE DEF key, named, owner
<1>5. QED
  BY <1>3, <1>4 DEF AttemptsOK, KeyIsClient, Idle

\* Whoever the headers name is throttled under its own address, through any
\* path of proxies and whatever else it writes into the headers (client_ip).
THEOREM ClientsKnownByAddress == Spec => []KeyIsClient
<1>1. Init => AttemptsOK
  BY DEF Init, AttemptsOK, KeyIsClient, Idle
<1>2. ASSUME AttemptsOK, [Next]_vars
      PROVE  AttemptsOK'
  <2>1. ASSUME NEW a \in Attempts, RecordFailure(a) \/ RecordSuccess(a) \/ RecordNothing(a)
        PROVE  AttemptsOK'
    BY <1>2, <2>1 DEF RecordFailure, RecordSuccess, RecordNothing, AttemptsOK, KeyIsClient, Idle
  <2>2. CASE Tick \/ Restart \/ UNCHANGED vars
    BY <1>2, <2>2 DEF Tick, Restart, vars, AttemptsOK, KeyIsClient, Idle
  <2>3. QED
    BY <1>2, <2>1, <2>2, ArrivalKey DEF Next
<1>3. AttemptsOK => KeyIsClient
  BY DEF AttemptsOK
<1>4. QED
  BY <1>1, <1>2, <1>3, PTL DEF Spec
=============================================================================
