---------------------------- MODULE EnergyMeter ----------------------------
(***************************************************************************)
(* One backend's GPU energy meter: crates/twl-backends/src/energy.rs.      *)
(*                                                                         *)
(* Requests hold MeterGuards at overlapping times. The last guard to go    *)
(* computes the length of the busy interval under the mutex and hands it   *)
(* to the sink after unlocking, so a new busy interval can begin, end and  *)
(* even be reported before it. The code passes only the length of an       *)
(* interval; the model keeps where it lies.                                *)
(***************************************************************************)
EXTENDS Integers, Sequences, FiniteSets

CONSTANTS
  Proxied,    \* proxied requests that use the backend, over and over
  Metered,    \* gpu_watts > 0
  MaxTime,    \* bound: the clock stops here
  MaxReports  \* bound: no new busy interval after this many reports

ASSUME EnergyMeterAssumption ==
  /\ IsFiniteSet(Proxied)
  /\ Metered \in BOOLEAN
  /\ MaxTime \in Nat
  /\ MaxReports \in Nat

VARIABLES
  now,           \* the clock
  active_count,  \* State.active_count
  busy_since,    \* State.busy_since, NoTime for None
  guard,         \* each request's MeterGuard: "none", "live", or "reporting"
                 \* (dropped, mutex released, interval not yet given to the sink)
  interval,      \* the interval a reporting guard is about to hand over
  sink,          \* the intervals handed over, in order
  busy           \* history: the ticks during which some guard was alive

meterVars == <<now, active_count, busy_since, guard, interval, sink, busy>>

NoTime == -1
Intervals == [from : Nat, to : Nat]

Live == {r \in Proxied : guard[r] = "live"}
Reporting == {r \in Proxied : guard[r] = "reporting"}

MeterInit ==
  /\ now = 0
  /\ active_count = 0
  /\ busy_since = NoTime
  /\ guard = [r \in Proxied |-> "none"]
  /\ interval = [r \in Proxied |-> [from |-> 0, to |-> 0]]
  /\ sink = <<>>
  /\ busy = {}

\* Fault: every request restarts the busy interval.
BeginRestarting(r) ==
  /\ guard[r] = "none" /\ Len(sink) < MaxReports
  /\ busy_since' = now
  /\ active_count' = active_count + 1
  /\ guard' = [guard EXCEPT ![r] = "live"]
  /\ UNCHANGED <<now, interval, sink, busy>>

\* EnergyMeter::begin
Begin(r) ==
  /\ guard[r] = "none" /\ Len(sink) < MaxReports
  /\ busy_since' = IF active_count = 0 THEN now ELSE busy_since
  /\ active_count' = active_count + 1
  /\ guard' = [guard EXCEPT ![r] = "live"]
  /\ UNCHANGED <<now, interval, sink, busy>>

\* Fault: every guard reports its interval, not only the last one.
EndReportingAll(r) ==
  /\ guard[r] = "live"
  /\ active_count' = active_count - 1
  /\ busy_since' = IF active_count = 1 THEN NoTime ELSE busy_since
  /\ guard' = [guard EXCEPT ![r] = IF Metered THEN "reporting" ELSE "none"]
  /\ interval' = [interval EXCEPT ![r] = [from |-> busy_since, to |-> now]]
  /\ UNCHANGED <<now, sink, busy>>

\* MeterGuard::drop, the part under the mutex.
End(r) ==
  /\ guard[r] = "live"
  /\ active_count' = active_count - 1
  /\ IF active_count = 1
     THEN /\ busy_since' = NoTime
          /\ interval' = [interval EXCEPT ![r] = [from |-> busy_since, to |-> now]]
          /\ guard' = [guard EXCEPT ![r] = IF Metered THEN "reporting" ELSE "none"]
     ELSE /\ guard' = [guard EXCEPT ![r] = "none"]
          /\ UNCHANGED <<busy_since, interval>>
  /\ UNCHANGED <<now, sink, busy>>

\* MeterGuard::drop, after unlocking: sink.record_energy.
Report(r) ==
  /\ guard[r] = "reporting"
  /\ sink' = Append(sink, interval[r])
  /\ guard' = [guard EXCEPT ![r] = "none"]
  /\ UNCHANGED <<now, active_count, busy_since, interval, busy>>

\* Time passes; the tick now..now+1 is busy if a guard lives through it.
Tick ==
  /\ now < MaxTime
  /\ now' = now + 1
  /\ busy' = IF Live # {} THEN busy \cup {now} ELSE busy
  /\ UNCHANGED <<active_count, busy_since, guard, interval, sink>>

MeterNext == Tick \/ \E r \in Proxied : Begin(r) \/ End(r) \/ Report(r)

MeterSpec == MeterInit /\ [][MeterNext]_meterVars

-----------------------------------------------------------------------------
(* Correctness *)

\* Every variable has its type.
TypeOK ==
  /\ now \in Nat
  /\ active_count \in Nat
  /\ busy_since \in Nat \cup {NoTime}
  /\ guard \in [Proxied -> {"none", "live", "reporting"}]
  /\ interval \in [Proxied -> Intervals]
  /\ sink \in Seq(Intervals)
  /\ busy \in SUBSET Nat

\* The ticks of an interval, and of the one still open.
Ticks(i) == i.from..(i.to - 1)
OpenTicks == IF busy_since = NoTime THEN {} ELSE busy_since..(now - 1)

\* The counter is the number of live guards (it cannot underflow), and an
\* interval is open exactly while there are any.
CountsGuards ==
  /\ active_count = Cardinality(Live)
  /\ busy_since = NoTime <=> Live = {}

\* "Busy-interval-union semantics": the intervals reported, about to be
\* reported and still open are together exactly the busy time ...
CoversBusyTime ==
  Metered =>
    busy = OpenTicks \cup (UNION {Ticks(sink[k]) : k \in 1..Len(sink)})
                     \cup (UNION {Ticks(interval[r]) : r \in Reporting})

\* ... and no two of them overlap, in whatever order they reach the sink:
\* concurrent requests are not counted twice.
Apart(i, j) == i.to <= j.from \/ j.to <= i.from

NoDoubleCounting ==
  /\ \A k, l \in 1..Len(sink) : k # l => Apart(sink[k], sink[l])
  /\ \A r, q \in Reporting : r # q => Apart(interval[r], interval[q])
  /\ \A r \in Reporting, k \in 1..Len(sink) : Apart(interval[r], sink[k])

\* Closed intervals lie in the past, before the open one.
Closed(i) == /\ i.from <= i.to
             /\ i.to <= now
             /\ busy_since # NoTime => i.to <= busy_since

InOrder ==
  /\ busy_since <= now
  /\ \A k \in 1..Len(sink) : Closed(sink[k])
  /\ \A r \in Reporting : Closed(interval[r])

\* The inductive invariant.
MeterInv == TypeOK /\ CountsGuards /\ InOrder /\ CoversBusyTime /\ NoDoubleCounting
=============================================================================
