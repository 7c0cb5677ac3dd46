----------------------------- MODULE Placement -----------------------------
(***************************************************************************)
(* Which backend a request tries first: BackendRegistry's least-loaded     *)
(* sort, prefix affinity with bounded load, and the in-flight counters, in *)
(* crates/twl-backends/src/lib.rs, for one model with several candidates.  *)
(*                                                                         *)
(* The counters are atomics that other requests change at any time. A      *)
(* placement reads them one after another, some of them twice, and its     *)
(* request is counted only when begin_load runs later. Round robin is in   *)
(* ModelCatalog, where its counter is.                                     *)
(***************************************************************************)
EXTENDS Integers, Sequences, FiniteSets, SequencesExt

CONSTANTS
  N,           \* number of candidate backends, 1..N in configuration order; for
               \* up to 20 of them std's sort_by_key is an insertion sort
  Requests,    \* requests for the model, over and over
  PrefixHashes,    \* prompt-prefix hashes
  NoPrefix,    \* a request without one
  Score,       \* rendezvous score of each prefix and backend, without ties
  Factor       \* overload_factor in quarters: 5 stands for 1.25, and
               \* resolve_load_balancing admits none below 4

Candidates == 1..N

\* What the configuration and the hash give: a number of backends, a factor of
\* at least one, and scores that differ, since the hash is one to one in the
\* backend's index.
PlacementAssumption ==
  /\ N \in 1..20 /\ Factor \in Nat /\ Factor >= 4
  /\ IsFiniteSet(Requests) /\ NoPrefix \notin PrefixHashes
  /\ Score \in [PrefixHashes -> [Candidates -> Int]]
  /\ \A h \in PrefixHashes : IsInjective(Score[h])

VARIABLES
  inflight,  \* the counters
  call,      \* each request's local state
  calm       \* history: no counter has changed since the request was routed

vars == <<inflight, call, calm>>

Done == [pc |-> "done"]
Placing == {r \in Requests : call[r].pc \notin {"done", "running"}}

\* The candidates by falling score: sort_unstable_by in ordered_candidates.
Rendezvous(h) ==
  CHOOSE scored \in [Candidates -> Candidates] :
    \A i, j \in Candidates : i < j => Score[h][scored[i]] > Score[h][scored[j]]

CeilDiv(a, b) == (a + b - 1) \div b

\* Fault: the bound is rounded down.
BoundFloor(total) == IF Factor * (total + 1) < 4 * N THEN 1
                     ELSE (Factor * (total + 1)) \div (4 * N)

\* max(1, ceil(overload_factor * (total + 1) / n))
Bound(total) == IF Factor * (total + 1) < 4 * N THEN 1
                ELSE CeilDiv(Factor * (total + 1), 4 * N)

\* Fault: the order after the chosen one is the whole rendezvous order.
OrderRepeating(h, chosen) == <<Rendezvous(h)[chosen]>> \o Rendezvous(h)

\* The chosen backend, by its place in rendezvous order, and then the others in
\* that order.
Order(h, chosen) == <<Rendezvous(h)[chosen]>> \o RemoveAt(Rendezvous(h), chosen)

Init ==
  /\ inflight = [b \in Candidates |-> 0]
  /\ call = [r \in Requests |-> Done]
  /\ calm = [r \in Requests |-> TRUE]

Goes(r, local) == call' = [call EXCEPT ![r] = local]

\* The order the candidates are tried in is settled.
Placed(r, h, order) == Goes(r, [pc |-> "placed", prefix |-> h, order |-> order])

\* The locals of the sort and of the sum: the next candidate, and in the sort
\* where the one before it has got to.
Sorting(order, next, at) == [pc |-> "sort", order |-> order, next |-> next, at |-> at]
Summing(h, total, next) == [pc |-> "sum", prefix |-> h, total |-> total, next |-> next]

-----------------------------------------------------------------------------

\* route_candidates for a model with more than one candidate. One candidate
\* is taken as it is.
Route(r, h) ==
  /\ call[r].pc = "done"
  /\ calm' = [calm EXCEPT ![r] = TRUE]
  /\ IF N = 1 THEN Placed(r, h, <<1>>)
     ELSE IF h = NoPrefix THEN Goes(r, Sorting([i \in Candidates |-> i], 2, 2))
     ELSE Goes(r, Summing(h, 0, 1))
  /\ UNCHANGED inflight

Exchange(order, i) ==
  [order EXCEPT ![i] = order[i - 1], ![i - 1] = order[i]]

\* strategy_placement of LeastLoaded: sort_by_key is an insertion sort for up to
\* 20 candidates; every comparison loads the two counters anew. For more it is
\* another one, which may panic on keys that change meanwhile.
SortStep(r) ==
  LET c == call[r] IN
  /\ c.pc = "sort" /\ c.next <= N
  /\ IF c.at > 1 /\ inflight[c.order[c.at]] < inflight[c.order[c.at - 1]]
       THEN Goes(r, Sorting(Exchange(c.order, c.at), c.next, c.at - 1))
       ELSE Goes(r, Sorting(c.order, c.next + 1, c.next + 1))
  /\ UNCHANGED <<inflight, calm>>

SortEnd(r) ==
  /\ call[r].pc = "sort" /\ call[r].next > N
  /\ Placed(r, NoPrefix, call[r].order)
  /\ UNCHANGED <<inflight, calm>>

\* ordered_candidates with a prefix: the counters are added up one by one.
SumStep(r) ==
  LET c == call[r] IN
  /\ c.pc = "sum"
  /\ Goes(r, IF c.next <= N
               THEN Summing(c.prefix, c.total + inflight[c.next], c.next + 1)
               ELSE [pc |-> "primary", prefix |-> c.prefix, bound |-> Bound(c.total)])
  /\ UNCHANGED <<inflight, calm>>

\* The primary is taken if it is under the bound.
TryPrimary(r) ==
  LET c == call[r]
      primary == Rendezvous(c.prefix)[1]
  IN
  /\ c.pc = "primary"
  /\ IF inflight[primary] < c.bound
       THEN Placed(r, c.prefix, Order(c.prefix, 1))
       ELSE Goes(r, [pc |-> "spill", prefix |-> c.prefix, bound |-> c.bound, next |-> 1])
  /\ UNCHANGED <<inflight, calm>>

\* spill_target: the first under the bound in rendezvous order, each counter
\* read when its turn comes; the primary if there is none.
SpillStep(r) ==
  LET c == call[r]
      scored == Rendezvous(c.prefix)
  IN
  /\ c.pc = "spill"
  /\ IF c.next > N THEN Placed(r, c.prefix, Order(c.prefix, 1))
     ELSE IF inflight[scored[c.next]] < c.bound THEN Placed(r, c.prefix, Order(c.prefix, c.next))
     ELSE Goes(r, [c EXCEPT !.next = @ + 1])
  /\ UNCHANGED <<inflight, calm>>

\* A counter changes under the placements that are under way.
Disturb == calm' = [r \in Requests |-> calm[r] /\ r \notin Placing]

\* begin_load on the first of the candidates left
BeginLoad(r) ==
  /\ call[r].pc \in {"placed", "retry"}
  /\ inflight' = [inflight EXCEPT ![Head(call[r].order)] = @ + 1]
  /\ Goes(r, [pc |-> "running", order |-> call[r].order])
  /\ Disturb

\* The guard is dropped, and the request has ended, or could not connect and
\* goes on to the next candidate.
DropLoad(r) ==
  /\ call[r].pc = "running"
  /\ inflight' = [inflight EXCEPT ![Head(call[r].order)] = @ - 1]
  /\ \/ Goes(r, Done)
     \/ /\ Len(call[r].order) > 1
        /\ Goes(r, [pc |-> "retry", order |-> Tail(call[r].order)])
  /\ Disturb

Next == \E r \in Requests :
  \/ \E h \in PrefixHashes \cup {NoPrefix} : Route(r, h)
  \/ SortStep(r) \/ SortEnd(r)
  \/ SumStep(r) \/ TryPrimary(r) \/ SpillStep(r)
  \/ BeginLoad(r) \/ DropLoad(r)

Spec == Init /\ [][Next]_vars

-----------------------------------------------------------------------------

\* Every counter is the number of load guards alive: it never wraps below
\* zero, whatever fails over.
InflightExact ==
  \A b \in Candidates :
    inflight[b] = Cardinality({r \in Requests : call[r].pc = "running" /\ Head(call[r].order) = b})

\* A placement names every candidate exactly once, however the counters move
\* during the sort or the scan, so failover can reach all of them and none
\* twice.
EveryCandidateOnce ==
  \A r \in Requests :
    call[r].pc = "placed" => /\ Len(call[r].order) = N
                             /\ ToSet(call[r].order) = Candidates

\* A request placed while no counter changed.
Undisturbed(r, hasPrefix) ==
  call[r].pc = "placed" /\ calm[r] /\ (call[r].prefix # NoPrefix) = hasPrefix

\* Without a prefix, and without a change of a counter in between, the order
\* is that of the loads, and configuration order among equals.
LeastLoadedFirst ==
  \A r \in Requests :
    Undisturbed(r, FALSE) =>
      LET order == call[r].order IN
      \A i, j \in Candidates :
        i < j => \/ inflight[order[i]] < inflight[order[j]]
                 \/ inflight[order[i]] = inflight[order[j]] /\ order[i] < order[j]

\* The load of the first n candidates
SumTo[n \in 0..N] == IF n = 0 THEN 0 ELSE SumTo[n - 1] + inflight[n]

\* A prefix placed without a change of a counter in between goes to the first
\* backend of its rendezvous order under the bound, and there always is one:
\* the fallback to an overloaded primary is only for counters that moved.
BoundedAffinity ==
  LET Limit == CeilDiv(Factor * (SumTo[N] + 1), 4 * N)
  IN  \A r \in Requests :
        Undisturbed(r, TRUE) =>
          LET chosen == call[r].order[1] IN
          /\ inflight[chosen] < Limit
          /\ \A b \in Candidates :
               Score[call[r].prefix][b] > Score[call[r].prefix][chosen] => inflight[b] >= Limit

\* A placement nobody disturbs starts with the right backend, and the loads it
\* goes by are those of the requests that run (ordered_candidates, begin_load).
RightBackendFirst == InflightExact /\ LeastLoadedFirst /\ BoundedAffinity
=============================================================================
