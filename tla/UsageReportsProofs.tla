-------------------------- MODULE UsageReportsProofs --------------------------
(***************************************************************************)
(* Reports cover their dates, show an account nothing but its own, and     *)
(* retention takes nothing that is not expired: in every time zone, for    *)
(* any accounts, keys and rows, and whatever happens between the queries   *)
(* of a report.                                                            *)
(***************************************************************************)
EXTENDS UsageReports, SequenceTheorems, WellFoundedInduction, NaturalsInduction, TLAPS

-----------------------------------------------------------------------------
(* Local time *)

\* The least element of a nonempty set of naturals.
LEMMA MinFacts ==
  ASSUME NEW S \in SUBSET Nat, S # {}
  PROVE  Min(S) \in S /\ \A y \in S : Min(S) <= y
<1> DEFINE R == OpToRel(<, Nat)
<1>1. PICK x \in S : \A y \in S : ~(<<y, x>> \in R)
  <2>1. IsWellFoundedOn(R, Nat)
    BY NatLessThanWellFounded
  <2> HIDE DEF R
  <2> QED BY <2>1, WFMin
<1>2. \A y \in S : ~(y < x)
  BY <1>1 DEF OpToRel
<1>3. \A y \in S : x <= y
  BY <1>2
<1> QED BY <1>3 DEF Min

\* A time zone covers the clock, and its dates never fall.
LEMMA ZoneFacts ==
  ASSUME host \in Hosts
  PROVE  /\ DOMAIN zone = 1..Len(zone) /\ Len(zone) \in Nat
         /\ 1..MaxClock \subseteq DOMAIN zone
         /\ \A i \in DOMAIN zone : zone[i].date \in Nat /\ zone[i].hour \in 0..(HoursPerDay - 1)
         /\ \A i, j \in DOMAIN zone : i <= j => zone[i].date <= zone[j].date
<1> DEFINE S == [date : Nat, hour : 0..(HoursPerDay - 1)]
<1>1. /\ zone \in Seq(S) /\ MaxClock \in Nat /\ MaxClock <= Len(zone)
      /\ \A i, j \in DOMAIN zone : i <= j => zone[i].date <= zone[j].date
  BY UsageReportsAssumption DEF zone, TimeZone
<1>2. /\ DOMAIN zone = 1..Len(zone) /\ Len(zone) \in Nat
      /\ \A i \in DOMAIN zone : zone[i] \in S
  <2> HIDE DEF S
  <2> QED BY <1>1
<1> QED BY <1>1, <1>2

\* date_to_start_timestamp of a date that a report asks for cuts the instants
\* into those of earlier dates and the others, on dates that lack their
\* midnight or have it twice, and on dates that do not exist.
LEMMA DayStartCuts ==
  ASSUME host \in Hosts, NEW now \in 1..MaxClock, NEW ago \in -1..(MaxDays - 1)
  PROVE  LET date == zone[now].date - ago
         IN  /\ DayStart(date) \in Nat
             /\ \A t \in DOMAIN zone : t >= DayStart(date) <=> zone[t].date >= date
<1> DEFINE date == zone[now].date - ago
           hours == {h \in 0..(HoursPerDay - 1) : Instants(date, h) # {}}
           next == {d \in (date + 1)..(date + MaxDays) : Instants(d, 0) # {}}
           found == \E i \in DOMAIN zone : zone[i].date = date
           skipped == \E i \in DOMAIN zone :
                        /\ zone[i].hour = 0 /\ zone[i].date \in (date + 1)..(date + MaxDays)
                        /\ \A k \in DOMAIN zone : k < i => zone[k].date < date
<1>1. /\ DOMAIN zone \subseteq Nat
      /\ \A i \in DOMAIN zone : zone[i].date \in Nat /\ zone[i].hour \in 0..(HoursPerDay - 1)
      /\ \A i, j \in DOMAIN zone : i <= j => zone[i].date <= zone[j].date
      /\ now \in DOMAIN zone /\ HoursPerDay \in Nat /\ MaxDays \in Nat
  BY ZoneFacts, UsageReportsAssumption
<1>2. date \in Int
  BY <1>1, UsageReportsAssumption
<1>3. \A d : \A h : Instants(d, h) \in SUBSET Nat
  BY <1>1 DEF Instants
<1>4. found \/ skipped
  BY UsageReportsAssumption DEF zone, TimeZone
<1>5. \A i, j \in DOMAIN zone :
        (\A k \in DOMAIN zone : k < i => zone[k].date < zone[i].date)
        /\ zone[j].date = zone[i].date => zone[i].hour <= zone[j].hour
  BY UsageReportsAssumption DEF zone, TimeZone
<1>6. DayStart(date) = IF hours # {} THEN Min(Instants(date, Min(hours)))
                       ELSE IF next # {} THEN Min(Instants(Min(next), 0))
                       ELSE (date + MaxDays) * HoursPerDay
  BY DEF DayStart
<1> HIDE DEF date
<1>7. CASE found
  <2> DEFINE D == {i \in DOMAIN zone : zone[i].date = date}
             a == Min(D)
  <2>1. a \in DOMAIN zone /\ zone[a].date = date /\ \A i \in D : a <= i
    <3>1. D \in SUBSET Nat /\ D # {}
      BY <1>1, <1>7
    <3>2. a \in D /\ \A i \in D : a <= i
      <4> HIDE DEF D
      <4> QED BY <3>1, MinFacts
    <3> QED BY <3>2
  <2> HIDE DEF a
  <2>2. \A k \in DOMAIN zone : k < a => zone[k].date < date
    <3> SUFFICES ASSUME NEW k \in DOMAIN zone, k < a PROVE zone[k].date < date
      OBVIOUS
    <3>1. k \notin D /\ zone[k].date <= zone[a].date
      BY <1>1, <2>1
    <3> QED BY <1>1, <1>2, <2>1, <3>1
  <2> DEFINE first == zone[a].hour
  <2>3. first \in hours /\ \A h \in hours : first <= h
    <3>1. first \in hours
      BY <1>1, <2>1 DEF Instants
    <3>2. ASSUME NEW h \in hours
          PROVE  first <= h
      <4>1. PICK j \in DOMAIN zone : zone[j].date = date /\ zone[j].hour = h
        BY <3>2 DEF Instants
      <4> QED BY <1>5, <2>1, <2>2, <4>1
    <3> QED BY <3>1, <3>2
  <2>4. Min(hours) = first
    <3>1. hours \in SUBSET Nat /\ hours # {} /\ first \in Nat
      BY <1>1, <2>1, <2>3
    <3> HIDE DEF hours, first
    <3>2. Min(hours) \in hours /\ Min(hours) <= first /\ Min(hours) \in Nat
      BY <2>3, <3>1, MinFacts
    <3> QED BY <2>3, <3>1, <3>2
  <2>5. a \in Instants(date, first) /\ Instants(date, first) \subseteq D
    BY <2>1 DEF Instants
  <2>6. Min(Instants(date, first)) = a
    <3> HIDE DEF first, D
    <3> DEFINE m == Min(Instants(date, first))
    <3>1. m \in Instants(date, first) /\ m <= a
      BY <1>3, <2>5, MinFacts
    <3>2. a <= m /\ m \in Nat /\ a \in Nat
      BY <1>1, <1>3, <2>1, <2>5, <3>1
    <3> HIDE DEF m
    <3>3. m = a
      BY <3>1, <3>2
    <3> QED BY <3>3 DEF m
  <2>7. DayStart(date) = a
    <3>1. hours # {}
      BY <2>3
    <3> HIDE DEF hours, next, first
    <3> QED BY <1>6, <2>4, <2>6, <3>1
  <2>8. \A t \in DOMAIN zone : t >= a <=> zone[t].date >= date
    <3> SUFFICES ASSUME NEW t \in DOMAIN zone PROVE t >= a <=> zone[t].date >= date
      OBVIOUS
    <3>1. t \in Nat /\ a \in Nat /\ zone[t].date \in Nat
      BY <1>1, <2>1
    <3>2. a <= t => zone[a].date <= zone[t].date
      BY <1>1, <2>1
    <3> QED BY <1>2, <2>1, <2>2, <3>1, <3>2
  <2> QED BY <1>1, <2>1, <2>7, <2>8 DEF date
<1>8. CASE ~found
  <2>1. PICK i \in DOMAIN zone :
          /\ zone[i].hour = 0 /\ zone[i].date \in (date + 1)..(date + MaxDays)
          /\ \A k \in DOMAIN zone : k < i => zone[k].date < date
    BY <1>4, <1>8
  <2>2. hours = {}
    BY <1>8 DEF Instants
  <2>3. ASSUME NEW k \in DOMAIN zone, zone[k].date > date
        PROVE  i <= k /\ zone[i].date <= zone[k].date
    <3>1. ~(k < i)
      BY <1>1, <1>2, <2>1, <2>3
    <3>2. i <= k
      BY <1>1, <3>1
    <3> QED BY <1>1, <3>2
  <2> DEFINE n == zone[i].date
  <2>4. n \in next /\ \A d \in next : n <= d
    <3>1. n \in next
      BY <2>1 DEF Instants
    <3>2. ASSUME NEW d \in next
          PROVE  n <= d
      <4>1. PICK k \in DOMAIN zone : zone[k].date = d
        BY <3>2 DEF Instants
      <4>2. d > date
        BY <1>1, <1>2
      <4> QED BY <2>3, <4>1, <4>2
    <3> QED BY <3>1, <3>2
  <2>5. Min(next) = n
    <3>1. \A d \in next : d \in Nat
      <4> SUFFICES ASSUME NEW d \in next PROVE d \in Nat
        OBVIOUS
      <4>1. d \in Int /\ n <= d /\ n \in Nat
        BY <1>1, <1>2, <2>1, <2>4
      <4> QED BY <4>1
    <3> HIDE DEF next, n
    <3>2. Min(next) \in next /\ Min(next) <= n /\ Min(next) \in Nat /\ n \in Nat
      BY <2>4, <3>1, MinFacts
    <3> QED BY <2>4, <3>2
  <2>6. Min(Instants(n, 0)) = i
    <3> DEFINE m == Min(Instants(n, 0))
    <3>1. i \in Instants(n, 0)
      BY <2>1 DEF Instants
    <3>2. m \in Instants(n, 0) /\ m <= i
      BY <1>3, <3>1, MinFacts
    <3>3. m \in DOMAIN zone /\ zone[m].date = n
      BY <3>2 DEF Instants
    <3> HIDE DEF m
    <3>4. zone[m].date > date
      BY <1>1, <1>2, <2>1, <3>3
    <3>5. i <= m /\ m \in Nat /\ i \in Nat
      BY <1>1, <2>3, <3>3, <3>4
    <3>6. m = i
      BY <3>2, <3>5
    <3> QED BY <3>6 DEF m
  <2>7. DayStart(date) = i
    <3>1. next # {}
      BY <2>4
    <3> HIDE DEF hours, next, n
    <3> QED BY <1>6, <2>2, <2>5, <2>6, <3>1
  <2>8. \A t \in DOMAIN zone : t >= i <=> zone[t].date >= date
    <3> SUFFICES ASSUME NEW t \in DOMAIN zone PROVE t >= i <=> zone[t].date >= date
      OBVIOUS
    <3>1. t \in Nat /\ i \in Nat /\ zone[t].date \in Nat /\ zone[i].date \in Nat
          /\ zone[i].date > date
      BY <1>1, <1>2, <2>1
    <3>2. i <= t => zone[i].date <= zone[t].date
      BY <1>1
    <3> QED BY <1>2, <2>1, <3>1, <3>2
  <2> QED BY <1>1, <2>7, <2>8 DEF date
<1> QED BY <1>7, <1>8 DEF date

-----------------------------------------------------------------------------
(* The inductive invariant *)

RowsOK ==
  /\ host \in Hosts /\ clock \in 1..MaxClock /\ serial \in Nat /\ users \subseteq Users
  /\ \A r \in rows : /\ r.id \in Nat /\ r.id <= serial /\ r.ts \in 1..clock
                     /\ r.key \in Keys \cup {NoKey}
  /\ \A r, s \in rows : r.id = s.id => r = s
  /\ \A e \in energy : e.ts \in 1..clock

\* The retention task works with a cutoff that is no later than it should be.
PrunerOK ==
  pruner.pc \in {"usage", "energy"} =>
    pruner.cutoff \in Int /\ pruner.cutoff + Retention <= clock

\* The instants of a request's window are those of its dates.
WindowOK ==
  /\ req.date \in Int /\ req.start \in Int
  /\ \A t \in DOMAIN zone : t >= req.start <=> zone[t].date >= req.date
  /\ req.kind = "day" => \A t \in DOMAIN zone : t < req.end <=> zone[t].date <= req.date

\* Rows are never changed, ids never given twice, and an attribution only
\* ever lost.
BeforeOK ==
  \A b \in req.before :
    /\ b[1].id \in Nat /\ b[1].id <= serial /\ b[1].ts \in 1..clock
    /\ \A r \in rows : r.id = b[1].id => r = b[1]
    /\ b[2] # NoUser => b[1].key \in Keys /\ b[2] = Owner[b[1].key]
    /\ b[1].key \in Keys /\ Owner[b[1].key] \in users => b[2] = Owner[b[1].key]

ScopeOK ==
  /\ req.scope # None => req.scope[1] # NoUser
  /\ req.viewer \notin Admins \cup {NoUser} => req.scope # None /\ req.scope[1] = req.viewer

\* The dates a request asks for.
Asked ==
  IF req.kind = "day" THEN {req.date}
  ELSE {d \in {zone[i].date : i \in DOMAIN zone} : d >= req.date}

\* What a section of a report owes to its reader.
SectionOK(section) ==
  /\ Due(Asked) \subseteq Reported(section)
  /\ Reported(section) \cap Foreign(Asked) = {}
  /\ Once(section)
  /\ req.scope # None =>
       \A b \in req.before : b[1].id \in Reported(section) => b[2] = req.scope[1]

SectionsOK ==
  \A s \in DOMAIN req.out :
    IF s = "energy_days" THEN req.scope # None => Reported(req.out[s]) = {}
    ELSE SectionOK(req.out[s])

\* The handlers' stages.
StagesOK ==
  /\ {"pc", "kind", "viewer", "scope", "date", "start", "before", "out"} \subseteq DOMAIN req
  /\ req.kind \in {"dashboard", "metrics", "day"}
  /\ req.kind = "dashboard" => (req.viewer = NoUser) = host.public_usage
  /\ req.pc \in {"stats", "daily", "energy", "keys"} => req.kind # "day"
  /\ req.pc = "buckets" => req.kind = "day"
  /\ req.pc = "daily" => req.kind = "dashboard"
  /\ req.pc = "keys" \/ "keys" \in DOMAIN req.out => req.viewer # NoUser
  /\ req.pc = "done" /\ req.kind = "day" => "buckets" \in DOMAIN req.out

ReportOK ==
  req.pc \in {"stats", "daily", "energy", "keys", "buckets", "done"} =>
    StagesOK /\ WindowOK /\ BeforeOK /\ ScopeOK /\ SectionsOK

ReportsInv == RowsOK /\ PrunerOK /\ ReportOK

-----------------------------------------------------------------------------
(* Queries *)

\* A section that groups the rows R by anything at all.
Groups(section, R) == Reported(section) = {r.id : r \in R} /\ Once(section)

\* Grouping rows by a key puts every row into the group of its key and no other.
LEMMA GroupingFacts ==
  ASSUME NEW R, NEW f, \A r, s \in R : r.id = s.id => r = s
  PROVE  Groups([g \in {f[r] : r \in R} |-> {r.id : r \in {x \in R : f[x] = g}}], R)
<1> DEFINE section == [g \in {f[r] : r \in R} |-> {r.id : r \in {x \in R : f[x] = g}}]
<1>1. DOMAIN section = {f[r] : r \in R}
  OBVIOUS
<1>2. \A g \in DOMAIN section : section[g] = {r.id : r \in {x \in R : f[x] = g}}
  OBVIOUS
<1> HIDE DEF section
<1>3. \A r \in R : f[r] \in DOMAIN section /\ r.id \in section[f[r]]
  BY <1>1, <1>2
<1>4. Reported(section) = {r.id : r \in R}
  <2>1. Reported(section) \subseteq {r.id : r \in R}
    BY <1>2 DEF Reported
  <2>2. ASSUME NEW r \in R
        PROVE  r.id \in Reported(section)
    BY <1>3 DEF Reported
  <2> QED BY <2>1, <2>2
<1>5. Once(section)
  <2> SUFFICES ASSUME NEW g \in DOMAIN section, NEW h \in DOMAIN section, g # h,
                      NEW id \in section[g], id \in section[h]
               PROVE  FALSE
    BY DEF Once
  <2>1. PICK r \in R : f[r] = g /\ r.id = id
    BY <1>2
  <2>2. PICK q \in R : f[q] = h /\ q.id = id
    BY <1>2
  <2> QED BY <2>1, <2>2
<1> QED BY <1>4, <1>5 DEF Groups, section

\* The rows in a request's window and scope.
Wanted ==
  {r \in InScope(req.scope) : r.ts >= req.start /\ (req.kind = "day" => r.ts < req.end)}

\* A query over them gives a section its due, whatever happened since the
\* request came.
LEMMA QueryFacts ==
  ASSUME RowsOK, WindowOK, BeforeOK, ScopeOK, NEW section, Groups(section, Wanted)
  PROVE  SectionOK(section)
<1>1. Wanted \subseteq rows /\ Reported(section) = {r.id : r \in Wanted} /\ Once(section)
  BY DEF Wanted, InScope, Groups
<1>2. clock \in 1..MaxClock /\ 1..MaxClock \subseteq DOMAIN zone /\ MaxClock \in Nat
  BY ZoneFacts, UsageReportsAssumption DEF RowsOK
<1>3. /\ \A r \in rows : r.ts \in DOMAIN zone /\ zone[r.ts].date \in Nat
      /\ \A b \in req.before : b[1].ts \in DOMAIN zone
  <2>1. \A t \in 1..clock : t \in DOMAIN zone
    BY <1>2
  <2> QED BY <2>1, ZoneFacts DEF RowsOK, BeforeOK
<1>4. \A r \in rows : DateOf(r.ts) \in Asked <=>
        r.ts >= req.start /\ (req.kind = "day" => r.ts < req.end)
  <2> SUFFICES ASSUME NEW r \in rows
               PROVE  DateOf(r.ts) \in Asked <=>
                        r.ts >= req.start /\ (req.kind = "day" => r.ts < req.end)
    OBVIOUS
  <2>1. r.ts \in DOMAIN zone /\ DateOf(r.ts) = zone[r.ts].date
    BY <1>3 DEF DateOf
  <2>2. CASE req.kind # "day"
    BY <2>1, <2>2 DEF WindowOK, Asked
  <2>3. CASE req.kind = "day"
    <3>1. /\ r.ts >= req.start <=> zone[r.ts].date >= req.date
          /\ r.ts < req.end <=> zone[r.ts].date <= req.date
      BY <2>1, <2>3 DEF WindowOK
    <3>2. zone[r.ts].date >= req.date /\ zone[r.ts].date <= req.date
            <=> zone[r.ts].date = req.date
      BY <1>3 DEF WindowOK
    <3> QED BY <2>1, <2>3, <3>1, <3>2 DEF Asked
  <2> QED BY <2>2, <2>3
<1>5. Due(Asked) \subseteq Reported(section)
  <2> SUFFICES ASSUME NEW b \in req.before, b[1] \in rows, DateOf(b[1].ts) \in Asked,
                      req.scope # None => b[2] = req.scope[1] /\ AttributedTo(b[1]) = b[2]
               PROVE  b[1].id \in Reported(section)
    BY DEF Due
  <2>1. b[1] \in Wanted
    BY <1>4 DEF Wanted, InScope
  <2> QED BY <1>1, <2>1
<1>6. ASSUME NEW b \in req.before, b[1].id \in Reported(section)
      PROVE  b[1] \in Wanted
  BY <1>1, <1>6 DEF BeforeOK
<1>7. Reported(section) \cap Foreign(Asked) = {}
  <2> SUFFICES ASSUME NEW b \in req.before, DateOf(b[1].ts) \notin Asked,
                      b[1].id \in Reported(section)
               PROVE  FALSE
    BY DEF Foreign
  <2>1. b[1] \in Wanted /\ b[1] \in rows
    BY <1>1, <1>6
  <2> QED BY <1>4, <2>1 DEF Wanted
<1>8. ASSUME req.scope # None, NEW b \in req.before, b[1].id \in Reported(section)
      PROVE  b[2] = req.scope[1]
  <2>1. b[1] \in Wanted /\ b[1] \in rows
    BY <1>1, <1>6, <1>8
  <2>2. AttributedTo(b[1]) = req.scope[1] /\ req.scope[1] # NoUser
    BY <1>8, <2>1 DEF Wanted, InScope, ScopeOK
  <2>3. b[1].key \in Keys /\ Owner[b[1].key] \in users /\ Owner[b[1].key] = req.scope[1]
    BY <2>1, <2>2 DEF AttributedTo, RowsOK
  <2> QED BY <2>3 DEF BeforeOK
<1> QED BY <1>1, <1>5, <1>7, <1>8 DEF SectionOK

\* The queries of the sections: Since takes the window's rows.
LEMMA SectionQueries ==
  ASSUME RowsOK, req.kind # "day"
  PROVE  /\ Groups(Stats(req.start, req.scope), Wanted)
         /\ Groups(Daily(req.start, req.scope), Wanted)
         /\ Groups(StatsByKey(req.start, req.scope), Wanted)
         /\ req.scope = None => Groups(StatsByUser(req.start), Wanted)
<1>1. Since(req.start, req.scope) = Wanted
  BY DEF Since, Wanted
<1>2. \A r, s \in Wanted : r.id = s.id => r = s
  BY DEF Wanted, InScope, RowsOK
<1> DEFINE Grouped(f) == [g \in {f[r] : r \in Wanted} |-> {r.id : r \in {x \in Wanted : f[x] = g}}]
<1>3. \A f : Groups(Grouped(f), Wanted)
  BY <1>2, GroupingFacts
<1>4. Groups(Stats(req.start, req.scope), Wanted)
  <2> DEFINE f == [r \in Wanted |-> r.model]
  <2>1. Stats(req.start, req.scope) = Grouped(f)
    BY <1>1 DEF Stats, GroupBy
  <2> HIDE DEF f, Grouped
  <2> QED BY <1>3, <2>1
<1>5. Groups(Daily(req.start, req.scope), Wanted)
  <2> DEFINE f == [r \in Wanted |-> <<DateOf(r.ts), r.model>>]
  <2>1. Daily(req.start, req.scope) = Grouped(f)
    BY <1>1 DEF Daily, GroupBy
  <2> HIDE DEF f, Grouped
  <2> QED BY <1>3, <2>1
<1>6. Groups(StatsByKey(req.start, req.scope), Wanted)
  <2> DEFINE f == [r \in Wanted |-> <<"key", r.key>>]
  <2>1. StatsByKey(req.start, req.scope) = Grouped(f)
    BY <1>1 DEF StatsByKey, GroupBy
  <2> HIDE DEF f, Grouped
  <2> QED BY <1>3, <2>1
<1>7. ASSUME req.scope = None
      PROVE  Groups(StatsByUser(req.start), Wanted)
  <2> DEFINE f == [r \in Wanted |-> IF r.key = NoKey THEN <<"generic">>
                                    ELSE IF AttributedTo(r) = NoUser THEN <<"deleted", r.key>>
                                    ELSE <<"user", AttributedTo(r)>>]
  <2>1. StatsByUser(req.start) = Grouped(f)
    BY <1>1, <1>7 DEF StatsByUser, GroupBy
  <2> HIDE DEF f, Grouped
  <2> QED BY <1>3, <2>1
<1> QED BY <1>4, <1>5, <1>6, <1>7

\* The buckets of a day: filling in the empty ones loses none.
LEMMA BucketQuery ==
  ASSUME RowsOK, req.kind = "day", req.start \in Int
  PROVE  Groups(DayBuckets(req.start, req.end, req.scope), Wanted)
<1>1. {r \in Since(req.start, req.scope) : r.ts < req.end} = Wanted
  BY DEF Since, Wanted
<1>2. \A r, s \in Wanted : r.id = s.id => r = s
  BY DEF Wanted, InScope, RowsOK
<1> DEFINE f == [r \in Wanted |-> Bucket(r.ts, req.start)]
           sparse == [g \in {f[r] : r \in Wanted} |-> {r.id : r \in {x \in Wanted : f[x] = g}}]
           full == [b \in 0..(HoursPerDay - 1) |-> IF b \in DOMAIN sparse THEN sparse[b] ELSE {}]
<1>3. DayBuckets(req.start, req.end, req.scope) = full
  BY <1>1 DEF DayBuckets, GroupBy, Fill
<1>4. Groups(sparse, Wanted)
  BY <1>2, GroupingFacts
<1>5. DOMAIN sparse \subseteq 0..(HoursPerDay - 1)
  <2> SUFFICES ASSUME NEW r \in Wanted
               PROVE  Bucket(r.ts, req.start) \in 0..(HoursPerDay - 1)
    OBVIOUS
  <2> DEFINE S == {r.ts - req.start, HoursPerDay - 1}
  <2>1. S \in SUBSET Nat /\ S # {} /\ HoursPerDay - 1 \in S
    <3>1. r.ts \in Nat /\ r.ts >= req.start
      BY UsageReportsAssumption DEF Wanted, InScope, RowsOK
    <3> QED BY <3>1, UsageReportsAssumption
  <2> HIDE DEF S
  <2>2. Min(S) \in Nat /\ Min(S) <= HoursPerDay - 1
    BY <2>1, MinFacts
  <2>3. Bucket(r.ts, req.start) = Min(S)
    BY DEF Bucket, S
  <2> QED BY <2>2, <2>3, UsageReportsAssumption
<1> HIDE DEF f, sparse
<1>6. Reported(full) = Reported(sparse)
  BY <1>5 DEF Reported
<1>7. Once(full)
  BY <1>4, <1>5 DEF Once, Groups
<1> HIDE DEF full
<1> QED BY <1>3, <1>4, <1>6, <1>7 DEF Groups

-----------------------------------------------------------------------------
(* Steps *)

\* A query's step adds its section and leaves the rest of the request alone.
LEMMA PutFacts ==
  ASSUME StagesOK, NEW section, NEW result, NEW next, Put(section, result, next)
  PROVE  /\ req'.pc = next /\ DOMAIN req' = DOMAIN req
         /\ req'.kind = req.kind /\ req'.viewer = req.viewer /\ req'.scope = req.scope
         /\ req'.date = req.date /\ req'.start = req.start /\ req'.before = req.before
         /\ req.kind = "day" => req'.end = req.end
         /\ DOMAIN req'.out = DOMAIN req.out \cup {section}
         /\ req'.out[section] = result
         /\ \A s \in DOMAIN req.out \ {section} : req'.out[s] = req.out[s]
         /\ UNCHANGED <<host, clock, serial, rows, energy, users, pruner>>
<1> DEFINE new == [s \in DOMAIN req.out \cup {section} |->
                     IF s = section THEN result ELSE req.out[s]]
<1>1. req' = [req EXCEPT !.pc = next, !.out = new]
  BY DEF Put
<1>2. /\ DOMAIN new = DOMAIN req.out \cup {section} /\ new[section] = result
      /\ \A s \in DOMAIN req.out \ {section} : new[s] = req.out[s]
  OBVIOUS
<1> HIDE DEF new
<1>3. /\ DOMAIN req' = DOMAIN req /\ req'.pc = next /\ req'.out = new
      /\ req'.kind = req.kind /\ req'.viewer = req.viewer /\ req'.scope = req.scope
      /\ req'.date = req.date /\ req'.start = req.start /\ req'.before = req.before
  BY <1>1 DEF StagesOK
<1>4. req'.end = req.end
  BY <1>1
<1> QED BY <1>2, <1>3, <1>4 DEF Put

\* A query whose section is what it should be.
LEMMA QueryStep ==
  ASSUME ReportsInv, req.pc \in {"stats", "daily", "energy", "keys", "buckets"},
         NEW section, NEW result, NEW next, Put(section, result, next),
         IF section = "energy_days" THEN req.scope # None => Reported(result) = {}
         ELSE SectionOK(result),
         next \in {"daily", "energy", "keys", "done"},
         next # "done" => req.kind # "day",
         next = "daily" => req.kind = "dashboard",
         next = "keys" \/ section = "keys" => req.viewer # NoUser,
         req.kind = "day" => section = "buckets"
  PROVE  ReportsInv'
<1>0. StagesOK /\ WindowOK /\ BeforeOK /\ ScopeOK /\ SectionsOK
  BY DEF ReportsInv, ReportOK
<1>1. /\ req'.pc = next /\ DOMAIN req' = DOMAIN req
      /\ req'.kind = req.kind /\ req'.viewer = req.viewer /\ req'.scope = req.scope
      /\ req'.date = req.date /\ req'.start = req.start /\ req'.before = req.before
      /\ req.kind = "day" => req'.end = req.end
      /\ DOMAIN req'.out = DOMAIN req.out \cup {section}
      /\ req'.out[section] = result
      /\ \A s \in DOMAIN req.out \ {section} : req'.out[s] = req.out[s]
      /\ UNCHANGED <<host, clock, serial, rows, energy, users, pruner>>
  BY <1>0, PutFacts
<1>2. StagesOK'
  BY <1>0, <1>1 DEF StagesOK
<1>3. WindowOK' /\ BeforeOK' /\ ScopeOK'
  BY <1>0, <1>1 DEF WindowOK, BeforeOK, ScopeOK, zone
<1>4. Due(Asked)' = Due(Asked) /\ Foreign(Asked)' = Foreign(Asked)
  BY <1>1 DEF Due, Foreign, Asked, DateOf, AttributedTo, zone
<1>5. \A t : SectionOK(t)' <=> SectionOK(t)
  BY <1>1, <1>4 DEF SectionOK, Reported, Once
<1>6. SectionsOK'
  <2> SUFFICES ASSUME NEW s \in DOMAIN req'.out
               PROVE  IF s = "energy_days" THEN req.scope # None => Reported(req'.out[s]) = {}
                      ELSE SectionOK(req'.out[s])
    BY <1>1, <1>5 DEF SectionsOK, Reported
  <2>1. CASE s = section
    BY <1>1, <2>1
  <2>2. CASE s # section
    BY <1>0, <1>1, <2>2 DEF SectionsOK
  <2> QED BY <2>1, <2>2
<1>7. RowsOK' /\ PrunerOK'
  BY <1>1 DEF ReportsInv, RowsOK, PrunerOK, Retention
<1> QED BY <1>2, <1>3, <1>6, <1>7 DEF ReportsInv, ReportOK

\* A query adds a section of the right rows to the report.
LEMMA QueriesKeep ==
  ASSUME ReportsInv, Query
  PROVE  ReportsInv'
<1>0. RowsOK /\ (Query => StagesOK /\ WindowOK /\ BeforeOK /\ ScopeOK /\ SectionsOK)
  BY DEF ReportsInv, ReportOK, Query, QueryStats, QueryDaily, QueryEnergy, QueryKeys, QueryBuckets
<1>1. CASE QueryStats
  <2>1. SectionOK(Stats(req.start, req.scope)) /\ req.kind # "day"
    BY <1>0, <1>1, SectionQueries, QueryFacts DEF QueryStats, StagesOK
  <2>2. req.kind # "metrics" => req.kind = "dashboard"
    BY <1>0, <2>1 DEF StagesOK
  <2> QED BY <1>1, <2>1, <2>2, QueryStep DEF QueryStats
<1>2. CASE QueryDaily
  <2>1. SectionOK(Daily(req.start, req.scope)) /\ req.kind # "day"
    BY <1>0, <1>2, SectionQueries, QueryFacts DEF QueryDaily, StagesOK
  <2> QED BY <1>2, <2>1, QueryStep DEF QueryDaily
<1>3. CASE QueryEnergy
  <2>1. req.kind # "day" /\ (~(host.public_usage \/ req.kind = "metrics") => req.viewer # NoUser)
    BY <1>0, <1>3 DEF QueryEnergy, StagesOK
  <2>2. Reported([d \in {} |-> {}]) = {}
    BY DEF Reported
  <2> QED BY <1>3, <2>1, <2>2, QueryStep DEF QueryEnergy
<1>4. CASE QueryKeys
  <2> DEFINE result == IF req.scope = None THEN StatsByUser(req.start)
                       ELSE StatsByKey(req.start, req.scope)
  <2>1. SectionOK(result) /\ req.kind # "day" /\ req.viewer # NoUser
    BY <1>0, <1>4, SectionQueries, QueryFacts DEF QueryKeys, StagesOK
  <2>2. Put("keys", result, "done")
    BY <1>4 DEF QueryKeys
  <2> HIDE DEF result
  <2> QED BY <1>4, <2>1, <2>2, QueryStep DEF QueryKeys
<1>5. CASE QueryBuckets
  <2>1. SectionOK(DayBuckets(req.start, req.end, req.scope)) /\ req.kind = "day"
    BY <1>0, <1>5, BucketQuery, QueryFacts DEF QueryBuckets, StagesOK, WindowOK
  <2> QED BY <1>5, <2>1, QueryStep DEF QueryBuckets
<1> QED BY <1>1, <1>2, <1>3, <1>4, <1>5 DEF Query

\* Records, deletions, pruning and the clock: no promise to a reader who has
\* asked is broken.
LEMMA TablesMove ==
  ASSUME ReportsInv, UNCHANGED <<host, req>>, RowsOK', PrunerOK',
         serial' >= serial, clock' >= clock, users' \subseteq users,
         \A r \in rows' : r \in rows \/ r.id > serial
  PROVE  ReportsInv'
<1> SUFFICES ASSUME req.pc \in {"stats", "daily", "energy", "keys", "buckets", "done"}
             PROVE  StagesOK' /\ WindowOK' /\ BeforeOK' /\ ScopeOK' /\ SectionsOK'
  BY DEF ReportsInv, ReportOK
<1>0. RowsOK /\ StagesOK /\ WindowOK /\ BeforeOK /\ ScopeOK /\ SectionsOK
  BY DEF ReportsInv, ReportOK
<1>1. StagesOK' /\ WindowOK' /\ ScopeOK'
  BY <1>0 DEF StagesOK, WindowOK, ScopeOK, zone
<1>2. serial \in Nat /\ serial' \in Nat /\ clock \in Nat /\ clock' \in Nat
  BY <1>0, UsageReportsAssumption DEF RowsOK
<1>3. BeforeOK'
  BY <1>0, <1>2 DEF BeforeOK
<1>4. Asked' = Asked /\ Foreign(Asked)' = Foreign(Asked)
  BY DEF Foreign, Asked, DateOf, zone
<1>5. Due(Asked)' \subseteq Due(Asked)
  <2> SUFFICES ASSUME NEW b \in req.before, b[1] \in rows', DateOf(b[1].ts) \in Asked,
                      req.scope # None => b[2] = req.scope[1] /\ AttributedTo(b[1])' = b[2]
               PROVE  b[1].id \in Due(Asked)
    BY <1>4 DEF Due, DateOf, zone, AttributedTo
  <2>1. b[1] \in rows
    BY <1>0, <1>2 DEF BeforeOK
  <2>2. ASSUME req.scope # None
        PROVE  AttributedTo(b[1]) = b[2]
    BY <1>0, <2>2 DEF AttributedTo, ScopeOK
  <2> QED BY <2>1, <2>2 DEF Due
<1>6. SectionsOK'
  BY <1>0, <1>4, <1>5 DEF SectionsOK, SectionOK, Reported, Once
<1> QED BY <1>1, <1>3, <1>6

\* Inserts, deletions, the clock and the pruner keep the invariant of a report under way.
LEMMA TablesKeep ==
  ASSUME ReportsInv,
         \/ \E m \in Models, k \in Keys \cup {NoKey} : Record(m, k)
         \/ RecordEnergy
         \/ \E u \in Users : DeleteUser(u)
         \/ Tick
         \/ Prune
  PROVE  ReportsInv'
<1>0. /\ RowsOK /\ PrunerOK /\ serial \in Nat /\ clock \in Nat /\ Retention \in Nat
      /\ MaxClock \in Nat
  BY UsageReportsAssumption DEF ReportsInv, RowsOK, Retention
<1>1. ASSUME NEW m \in Models, NEW k \in Keys \cup {NoKey}, Record(m, k)
      PROVE  ReportsInv'
  <2>1. /\ serial' = serial + 1
        /\ rows' = rows \cup {[id |-> serial + 1, ts |-> clock, model |-> m, key |-> k]}
        /\ UNCHANGED <<host, clock, energy, users, pruner, req>>
    BY <1>1 DEF Record
  <2>2. RowsOK'
    BY <1>0, <2>1 DEF RowsOK
  <2>3. PrunerOK'
    BY <1>0, <2>1 DEF PrunerOK, Retention
  <2> QED BY <1>0, <2>1, <2>2, <2>3, TablesMove
<1>2. CASE RecordEnergy
  <2>1. /\ serial' = serial + 1
        /\ energy' = energy \cup {[id |-> serial + 1, ts |-> clock]}
        /\ UNCHANGED <<host, clock, rows, users, pruner, req>>
    BY <1>2 DEF RecordEnergy
  <2>2. RowsOK'
    BY <1>0, <2>1 DEF RowsOK
  <2>3. PrunerOK'
    BY <1>0, <2>1 DEF PrunerOK, Retention
  <2> QED BY <1>0, <2>1, <2>2, <2>3, TablesMove
<1>3. ASSUME NEW u \in Users, DeleteUser(u)
      PROVE  ReportsInv'
  <2>1. users' = users \ {u} /\ UNCHANGED <<host, clock, serial, rows, energy, pruner, req>>
    BY <1>3 DEF DeleteUser
  <2>2. RowsOK' /\ PrunerOK'
    BY <1>0, <2>1 DEF RowsOK, PrunerOK, Retention
  <2> QED BY <1>0, <2>1, <2>2, TablesMove
<1>4. CASE Tick
  <2>1. /\ clock < MaxClock /\ clock' = clock + 1
        /\ UNCHANGED <<host, serial, rows, energy, users, pruner, req>>
    BY <1>4 DEF Tick
  <2>2. RowsOK'
    BY <1>0, <2>1 DEF RowsOK
  <2>3. PrunerOK'
    BY <1>0, <2>1 DEF PrunerOK, Retention
  <2> QED BY <1>0, <2>1, <2>2, <2>3, TablesMove
<1>5. CASE Prune
  <2>1. /\ UNCHANGED <<host, clock, serial, users, req>>
        /\ rows' \subseteq rows /\ energy' \subseteq energy
    BY <1>5 DEF Prune, PruneBegin, PruneUsage, PruneEnergy, PruneFails
  <2>2. RowsOK'
    BY <1>0, <2>1 DEF RowsOK
  <2>3. PrunerOK'
    <3>1. CASE PruneBegin
      BY <1>0, <2>1, <3>1 DEF PruneBegin, PrunerOK, Retention
    <3>2. CASE PruneUsage
      <4>1. pruner'.cutoff = pruner.cutoff /\ pruner.pc = "usage"
        BY <3>2 DEF PruneUsage
      <4> QED BY <1>0, <2>1, <4>1 DEF PrunerOK, Retention
    <3>3. CASE PruneEnergy \/ PruneFails
      BY <3>3 DEF PruneEnergy, PruneFails, Sleep, PrunerOK
    <3> QED BY <1>5, <3>1, <3>2, <3>3 DEF Prune
  <2> QED BY <1>0, <2>1, <2>2, <2>3, TablesMove
<1> QED BY <1>1, <1>2, <1>3, <1>4, <1>5

\* What a viewer may count on when the request comes.
LEMMA SnapshotFacts ==
  ASSUME RowsOK, NEW b \in Snapshot
  PROVE  /\ b[1].id \in Nat /\ b[1].id <= serial /\ b[1].ts \in 1..clock
         /\ \A r \in rows : r.id = b[1].id => r = b[1]
         /\ b[2] # NoUser => b[1].key \in Keys /\ b[2] = Owner[b[1].key]
         /\ b[1].key \in Keys /\ Owner[b[1].key] \in users => b[2] = Owner[b[1].key]
<1>1. PICK q \in rows : b = <<q, AttributedTo(q)>>
  BY DEF Snapshot
<1>2. b[1] = q /\ b[2] = AttributedTo(q)
  BY <1>1
<1> QED BY <1>2, UsageReportsAssumption DEF RowsOK, AttributedTo, Keys

\* A request for a report starts with the right window and scope.
LEMMA AskKeeps ==
  ASSUME ReportsInv, Ask
  PROVE  ReportsInv'
<1>0. /\ RowsOK /\ PrunerOK /\ host \in Hosts /\ clock \in 1..MaxClock /\ clock \in DOMAIN zone
      /\ MaxDays \in Nat \ {0} /\ DateOf(clock) = zone[clock].date /\ zone[clock].date \in Nat
  BY ZoneFacts, UsageReportsAssumption DEF ReportsInv, RowsOK, DateOf
<1>1. /\ UNCHANGED <<host, clock, serial, rows, energy, users, pruner>>
      /\ RowsOK' /\ PrunerOK'
  <2>1. UNCHANGED <<host, clock, serial, rows, energy, users, pruner>>
    BY DEF Ask, AskDashboard, AskDay, AskMetrics
  <2> QED BY <1>0, <2>1 DEF RowsOK, PrunerOK, Retention
<1>2. /\ req'.before = Snapshot /\ req'.out = [s \in {} |-> None]
  BY DEF Ask, AskDashboard, AskDay, AskMetrics
<1>3. BeforeOK' /\ SectionsOK'
  <2>1. BeforeOK'
    BY <1>0, <1>1, <1>2, SnapshotFacts DEF BeforeOK
  <2>2. DOMAIN req'.out = {}
    BY <1>2
  <2> QED BY <2>1, <2>2 DEF SectionsOK
<1>4. \A viewer, param :
        /\ ResolveUsageScope(viewer, param) # None => ResolveUsageScope(viewer, param)[1] # NoUser
        /\ viewer \notin Admins \cup {NoUser} =>
             /\ ResolveUsageScope(viewer, param) # None
             /\ ResolveUsageScope(viewer, param)[1] = viewer
  BY DEF ResolveUsageScope, None
<1>5. ASSUME NEW viewer, NEW param, NEW window \in Windows, AskDashboard(viewer, param, window)
      PROVE  StagesOK' /\ WindowOK' /\ ScopeOK'
  <2> DEFINE days == IF window < 1 THEN 1 ELSE IF window > MaxDays THEN MaxDays ELSE window
             date == DateOf(clock) - (days - 1)
  <2>1. days \in 1..MaxDays
    BY <1>0, UsageReportsAssumption
  <2>2. /\ (viewer = NoUser) = host.public_usage
        /\ req' = [pc |-> "stats", kind |-> "dashboard", viewer |-> viewer,
                   scope |-> ResolveUsageScope(viewer, param), date |-> date,
                   start |-> DayStart(date), before |-> Snapshot, out |-> [s \in {} |-> None]]
    BY <1>5 DEF AskDashboard
  <2> HIDE DEF days
  <2>3. /\ date \in Int /\ DayStart(date) \in Int
        /\ \A t \in DOMAIN zone : t >= DayStart(date) <=> zone[t].date >= date
    <3> DEFINE ago == days - 1
    <3>1. ago \in -1..(MaxDays - 1) /\ date = zone[clock].date - ago /\ ago \in Int
      BY <1>0, <2>1
    <3> HIDE DEF ago, date
    <3> QED BY <1>0, <3>1, DayStartCuts
  <2> HIDE DEF date
  <2>4. StagesOK'
    BY <1>1, <2>2 DEF StagesOK
  <2>5. WindowOK'
    BY <1>1, <2>2, <2>3 DEF WindowOK, zone
  <2>6. ScopeOK'
    BY <1>4, <2>2 DEF ScopeOK
  <2> QED BY <2>4, <2>5, <2>6
<1>6. ASSUME NEW viewer, NEW param, NEW daysAgo \in DaysAgo, AskDay(viewer, param, daysAgo)
      PROVE  StagesOK' /\ WindowOK' /\ ScopeOK'
  <2> DEFINE date == DateOf(clock) - daysAgo
  <2>1. daysAgo \in 0..(MaxDays - 1)
    BY UsageReportsAssumption
  <2>2. req' = [pc |-> "buckets", kind |-> "day", viewer |-> viewer,
                scope |-> ResolveUsageScope(viewer, param), date |-> date,
                start |-> DayStart(date), end |-> DayStart(date + 1), before |-> Snapshot,
                out |-> [s \in {} |-> None]]
    BY <1>6 DEF AskDay
  <2>3. /\ date \in Int /\ DayStart(date) \in Int
        /\ \A t \in DOMAIN zone : t >= DayStart(date) <=> zone[t].date >= date
    <3>1. daysAgo \in -1..(MaxDays - 1) /\ date = zone[clock].date - daysAgo /\ daysAgo \in Int
      BY <1>0, <2>1
    <3> HIDE DEF date
    <3> QED BY <1>0, <3>1, DayStartCuts
  <2>4. \A t \in DOMAIN zone : t < DayStart(date + 1) <=> zone[t].date <= date
    <3> DEFINE ago == daysAgo - 1
    <3>1. ago \in -1..(MaxDays - 1) /\ date + 1 = zone[clock].date - ago
      BY <1>0, <2>1
    <3> HIDE DEF ago, date
    <3>2. /\ DayStart(date + 1) \in Nat
          /\ \A t \in DOMAIN zone : t >= DayStart(date + 1) <=> zone[t].date >= date + 1
      BY <1>0, <3>1, DayStartCuts
    <3>3. \A t \in DOMAIN zone : t \in Nat /\ zone[t].date \in Nat
      BY <1>0, ZoneFacts
    <3> QED BY <2>3, <3>2, <3>3
  <2> HIDE DEF date
  <2>5. StagesOK'
    BY <2>2 DEF StagesOK
  <2>6. WindowOK'
    BY <1>1, <2>2, <2>3, <2>4 DEF WindowOK, zone
  <2>7. ScopeOK'
    BY <1>4, <2>2 DEF ScopeOK
  <2> QED BY <2>5, <2>6, <2>7
<1>7. ASSUME NEW token, AskMetrics(token), req'.pc = "stats"
      PROVE  StagesOK' /\ WindowOK' /\ ScopeOK'
  <2>1. req' = [pc |-> "stats", kind |-> "metrics", viewer |-> NoUser, scope |-> None, date |-> 0,
                start |-> 0, before |-> Snapshot, out |-> [s \in {} |-> None]]
    BY <1>7 DEF AskMetrics
  <2>2. \A t \in DOMAIN zone : t >= 0 /\ zone[t].date >= 0
    BY <1>0, ZoneFacts
  <2>3. StagesOK'
    BY <2>1 DEF StagesOK
  <2>4. WindowOK'
    BY <1>1, <2>1, <2>2 DEF WindowOK, zone
  <2>5. ScopeOK'
    BY <2>1 DEF ScopeOK
  <2> QED BY <2>3, <2>4, <2>5
<1>8. ASSUME NEW token, AskMetrics(token)
      PROVE  req'.pc \in {"stats", "failed"}
  BY <1>8 DEF AskMetrics
<1> QED BY <1>1, <1>3, <1>5, <1>6, <1>7, <1>8 DEF Ask, ReportsInv, ReportOK

\* A failed query and an answer keep the invariant.
LEMMA AnswersKeep ==
  ASSUME ReportsInv, QueryFails \/ Answer
  PROVE  ReportsInv'
<1>1. UNCHANGED <<host, clock, serial, rows, energy, users, pruner>>
  BY DEF QueryFails, Answer
<1>2. RowsOK' /\ PrunerOK'
  BY <1>1 DEF ReportsInv, RowsOK, PrunerOK, Retention
<1>3. req'.pc \in {"failed", "idle"}
  <2>1. CASE QueryFails
    BY <2>1 DEF QueryFails, ReportsInv, ReportOK, StagesOK
  <2>2. CASE Answer
    BY <2>2 DEF Answer, Idle
  <2> QED BY <2>1, <2>2
<1> QED BY <1>2, <1>3 DEF ReportsInv, ReportOK

-----------------------------------------------------------------------------
(* The theorems *)

\* The empty tables satisfy the invariant.
LEMMA ReportsStart == Init => ReportsInv
<1> SUFFICES ASSUME Init PROVE ReportsInv
  OBVIOUS
<1>1. RowsOK
  BY UsageReportsAssumption DEF Init, RowsOK
<1>2. PrunerOK
  BY DEF Init, PrunerOK
<1>3. ReportOK
  BY DEF Init, Idle, ReportOK
<1> QED BY <1>1, <1>2, <1>3 DEF ReportsInv

\* Every step keeps the invariant.
LEMMA ReportsStep == ReportsInv /\ [Next]_vars => ReportsInv'
<1> SUFFICES ASSUME ReportsInv, [Next]_vars PROVE ReportsInv'
  OBVIOUS
<1>1. CASE Ask
  BY <1>1, AskKeeps
<1>2. CASE Query
  BY <1>2, QueriesKeep
<1>3. CASE QueryFails \/ Answer
  BY <1>3, AnswersKeep
<1>4. CASE \/ \E m \in Models, k \in Keys \cup {NoKey} : Record(m, k)
           \/ RecordEnergy
           \/ \E u \in Users : DeleteUser(u)
           \/ Tick
           \/ Prune
  BY <1>4, TablesKeep
<1>5. CASE UNCHANGED vars
  <2>1. UNCHANGED <<host, clock, serial, rows, energy, users, pruner, req>>
    BY <1>5 DEF vars
  <2>2. RowsOK' /\ PrunerOK'
    BY <2>1 DEF ReportsInv, RowsOK, PrunerOK, Retention
  <2>3. serial \in Nat /\ clock \in Nat
    BY UsageReportsAssumption DEF ReportsInv, RowsOK
  <2> QED BY <2>1, <2>2, <2>3, TablesMove
<1> QED BY <1>1, <1>2, <1>3, <1>4, <1>5 DEF Next

\* While a report is put together, query by query, what it has so far is what
\* it owes to its reader, and the tables, the retention task and the request
\* are in step (dashboard_api, metrics_handler, day_buckets_response,
\* spawn_pruner).
THEOREM ReportsInvariant == Spec => []ReportsInv
<1> QED BY ReportsStart, ReportsStep, PTL DEF Spec

\* A report covers the dates it is about and nothing else, in all of its
\* parts: in every time zone, on days that lack or repeat an hour, and
\* whatever is recorded, pruned or deleted between its queries
\* (dashboard_api, metrics_handler, day_buckets_response).
THEOREM ReportsExact == Spec => []ReportsCoverTheirDates
<1>1. ReportsInv => ReportsCoverTheirDates
  <2> SUFFICES ASSUME ReportsInv, req.pc = "done"
               PROVE  SectionsAgreeOnWindow /\ BucketsCoverTheDay
    BY DEF ReportsCoverTheirDates, SectionsAgreeOnWindow, BucketsCoverTheDay
  <2>1. SectionsOK /\ StagesOK
    BY DEF ReportsInv, ReportOK
  <2>2. SectionsAgreeOnWindow
    BY <2>1 DEF SectionsAgreeOnWindow, SectionsOK, SectionOK, Asked
  <2>3. BucketsCoverTheDay
    BY <2>1 DEF BucketsCoverTheDay, SectionsOK, SectionOK, Asked, StagesOK
  <2> QED BY <2>2, <2>3
<1> QED BY <1>1, ReportsInvariant, PTL

\* An account that is no administrator is shown its own usage only and no
\* energy, and the public dashboard and the metrics name no account
\* (resolve_usage_scope, dashboard_api).
THEOREM NothingForeignShown == Spec => []OnlyOwnUsage
<1>1. ReportsInv => OnlyOwnUsage
  <2> SUFFICES ASSUME ReportsInv, req.pc = "done"
               PROVE  OnlyOwnUsage
    BY DEF OnlyOwnUsage
  <2>1. SectionsOK /\ StagesOK /\ ScopeOK
    BY DEF ReportsInv, ReportOK
  <2>2. ASSUME req.viewer \notin Admins \cup {NoUser}, NEW s \in DOMAIN req.out,
               NEW id \in Reported(req.out[s])
        PROVE  s # "energy_days" /\ \A b \in req.before : b[1].id = id => b[2] = req.viewer
    BY <2>1, <2>2 DEF SectionsOK, SectionOK, ScopeOK
  <2>3. req.viewer = NoUser => "keys" \notin DOMAIN req.out
    BY <2>1 DEF StagesOK
  <2> QED BY <2>2, <2>3 DEF OnlyOwnUsage
<1> QED BY <1>1, ReportsInvariant, PTL

\* No row of usage or energy is ever removed before it is older than the
\* retention period, although the cutoff is taken before the two statements
\* run and either may fail and be tried again a day later (spawn_pruner,
\* prune_older_than).
THEOREM RetentionTakesOnlyExpired == Spec => PrunedOnlyWhenExpired
<1> DEFINE Expired == /\ \A r \in rows \ rows' : r.ts + Retention < clock
                      /\ \A e \in energy \ energy' : e.ts + Retention < clock
<1>1. ReportsInv /\ [Next]_vars => Expired \/ UNCHANGED vars
  <2> SUFFICES ASSUME ReportsInv, Next
               PROVE  Expired
    OBVIOUS
  <2>0. /\ RowsOK /\ PrunerOK /\ Retention \in Nat /\ clock \in Nat
    BY UsageReportsAssumption DEF ReportsInv, RowsOK, Retention
  <2>1. CASE PruneUsage
    <3>1. /\ pruner.pc = "usage" /\ rows' = {r \in rows : r.ts >= pruner.cutoff}
          /\ energy' = energy
      BY <2>1 DEF PruneUsage
    <3>2. pruner.cutoff \in Int /\ pruner.cutoff + Retention <= clock
      BY <2>0, <3>1 DEF PrunerOK
    <3>3. \A r \in rows : r.ts \in Nat
      BY <2>0 DEF RowsOK
    <3> QED BY <2>0, <3>1, <3>2, <3>3
  <2>2. CASE PruneEnergy
    <3>1. /\ pruner.pc = "energy" /\ energy' = {e \in energy : e.ts >= pruner.cutoff}
          /\ rows' = rows
      BY <2>2 DEF PruneEnergy
    <3>2. pruner.cutoff \in Int /\ pruner.cutoff + Retention <= clock
      BY <2>0, <3>1 DEF PrunerOK
    <3>3. \A e \in energy : e.ts \in Nat
      BY <2>0 DEF RowsOK
    <3> QED BY <2>0, <3>1, <3>2, <3>3
  <2>3. CASE ~PruneUsage /\ ~PruneEnergy
    <3>1. rows \subseteq rows' /\ energy \subseteq energy'
      BY <2>3 DEF Next, Ask, AskDashboard, AskDay, AskMetrics, Query, QueryStats, QueryDaily,
                  QueryEnergy, QueryKeys, QueryBuckets, Put, QueryFails, Answer, Record,
                  RecordEnergy, DeleteUser, Tick, Prune, PruneBegin, PruneFails
    <3> QED BY <3>1
  <2> QED BY <2>1, <2>2, <2>3
<1> QED BY <1>1, ReportsInvariant, PTL DEF Spec, PrunedOnlyWhenExpired
=============================================================================
