---------------------------- MODULE ProxyProofs ----------------------------
(***************************************************************************)
(* The proxied request is accounted for correctly for every number of      *)
(* requests, backends, slots and permits: nothing a request holds is       *)
(* leaked or released twice, no completion is executed twice, and usage    *)
(* and energy are handed over exactly once, wherever a request fails, fails*)
(* over or is abandoned by its client.                                     *)
(***************************************************************************)
EXTENDS Proxy, FiniteSetTheorems, SequenceTheorems, TLAPS

-----------------------------------------------------------------------------
(* The inductive invariant *)

\* Stages before there are candidates, stages that hold the load guard, and
\* stages that hold the admission slot.
Early == {"idle", "validating", "looking", "admission", "body"}
Serving == Upstream \cup {"energy", "load"}
Admitted == {"body", "attempt", "slot"} \cup Serving

\* What one request may be, stage by stage: where it stands at the gate, which
\* candidates it has left, and what the upstream has seen of it.
RequestOK(r) ==
  /\ pc[r] \in {"idle", "validating", "looking", "done"} => place[r] = "out"
  /\ pc[r] = "admission" => place[r] # "inside"
  /\ pc[r] \in Admitted => place[r] = "inside"
  /\ pc[r] \in Early => candidates[r] = <<>>
  /\ pc[r] \in {"attempt"} \cup Serving => candidates[r] # <<>>
  /\ failover[r] => /\ pc[r] \in {"meter", "energy", "load"}
                    /\ Len(candidates[r]) > 1 /\ received[r] = {}
  /\ received[r] # {} => candidates[r] # <<>> /\ received[r] = {Backend(r)}
  /\ pc[r] \in Early \cup {"attempt", "sending"} => received[r] = {}
  /\ pc[r] \in {"delivered", "streaming", "stalled", "usage"} => received[r] # {}
  /\ usage[r] => received[r] # {} /\ pc[r] # "delivered"

\* Every lookup a handler waits for runs.
LookupsRun == \A r \in Requests : pc[r] = "looking" => r \in lookups

\* The gate lets in no more than it has slots.
GateBounded == Cardinality(Gate!Inside) <= Capacity

\* A request has billed a backend only once it is done with it.
EnergyOnce ==
  \A r \in Requests, b \in Backends :
    [kind |-> "energy", by |-> r, backend |-> b] \in Handed =>
      /\ pc[r] \notin Early
      /\ \A i \in 1..Len(candidates[r]) :
           candidates[r][i] = b => i = 1 /\ pc[r] \in {"load", "slot", "done"}

ProxyInv ==
  /\ TypeOK
  /\ \A r \in Requests : RequestOK(r)
  /\ LookupsRun
  /\ GateBounded
  /\ EnergyOnce
  /\ ValidationBounded
  /\ LoadCounted
  /\ UsageRecorded
  /\ EnergyRecorded

-----------------------------------------------------------------------------
(* Candidate lists *)

\* A failover order is a non-empty list of backends, none twice, and so is
\* what is left of it after a failed connect.
LEMMA CandidateFacts ==
  ASSUME NEW c \in CandidateLists
  PROVE  /\ c \in Seq(Backends) /\ c # <<>> /\ Len(c) \in Nat /\ Len(c) >= 1
         /\ Head(c) = c[1] /\ c[1] \in Backends
         /\ \A i, j \in 1..Len(c) : c[i] = c[j] => i = j
         /\ Len(c) > 1 => /\ Tail(c) \in CandidateLists
                          /\ Len(Tail(c)) = Len(c) - 1
                          /\ \A i \in 1..(Len(c) - 1) : Tail(c)[i] = c[i + 1]
<1>1. PICK n \in 1..Cardinality(Backends) : c \in [1..n -> Backends]
  BY DEF CandidateLists
<1>2. Cardinality(Backends) \in Nat
  BY ProxyAssumption, FS_CardinalityType
<1>3. n \in Nat /\ n >= 1 /\ n <= Cardinality(Backends)
  BY <1>1, <1>2
<1>4. c \in Seq(Backends) /\ Len(c) = n /\ DOMAIN c = 1..n
  BY <1>1, <1>3
<1>5. \A i, j \in 1..n : c[i] = c[j] => i = j
  BY <1>4 DEF CandidateLists
<1>6. c # <<>> /\ Head(c) = c[1] /\ c[1] \in Backends
  BY <1>1, <1>3, <1>4
<1>7. ASSUME n > 1
      PROVE  /\ Tail(c) \in CandidateLists
             /\ Len(Tail(c)) = n - 1
             /\ \A i \in 1..(n - 1) : Tail(c)[i] = c[i + 1]
  <2>1. /\ Tail(c) \in Seq(Backends) /\ Len(Tail(c)) = n - 1
        /\ \A i \in 1..(n - 1) : Tail(c)[i] = c[i + 1]
    BY <1>3, <1>4, <1>6
  <2>2. n - 1 \in 1..Cardinality(Backends)
    BY <1>2, <1>3, <1>7
  <2>3. Tail(c) \in [1..(n - 1) -> Backends] /\ DOMAIN Tail(c) = 1..(n - 1)
    BY <2>1, LenProperties
  <2>4. Tail(c) \in UNION {[1..m -> Backends] : m \in 1..Cardinality(Backends)}
    BY <2>2, <2>3
  <2>5. \A i, j \in 1..(n - 1) : Tail(c)[i] = Tail(c)[j] => i = j
    BY <1>3, <1>5, <2>1
  <2>6. QED
    BY <2>1, <2>3, <2>4, <2>5 DEF CandidateLists
<1>8. QED
  BY <1>3, <1>4, <1>5, <1>6, <1>7

\* The current backend of a request that has candidates.
LEMMA BackendFacts ==
  ASSUME TypeOK, NEW r \in Requests, candidates[r] # <<>>
  PROVE  /\ candidates[r] \in CandidateLists
         /\ Backend(r) \in Backends /\ Backend(r) = candidates[r][1]
<1>1. candidates[r] \in CandidateLists
  BY DEF TypeOK
<1>2. QED
  BY <1>1, CandidateFacts DEF Backend

-----------------------------------------------------------------------------
(* Steps of one request *)

RequestStep(r) == Arrive(r) \/ Step(r) \/ SeeUsage(r) \/ Stall(r) \/ Resume(r) \/ Disconnect(r)

\* A request's step leaves every other request where it is.
LEMMA OthersUnchanged ==
  ASSUME TypeOK, NEW r \in Requests, RequestStep(r), NEW q \in Requests, q # r
  PROVE  /\ pc'[q] = pc[q] /\ place'[q] = place[q]
         /\ candidates'[q] = candidates[q] /\ failover'[q] = failover[q]
         /\ received'[q] = received[q] /\ usage'[q] = usage[q]
<1> USE DEF TypeOK, gateVars, Go, Gate!Move
<1>1. CASE Arrive(r) \/ StartLookup(r) \/ EndLookup(r)
  BY <1>1 DEF Arrive, StartLookup, EndLookup
<1>2. CASE Acquire(r) \/ Wait(r)
  BY <1>2 DEF Acquire, Wait, Gate!Enter, Gate!Admit, Gate!Queue
<1>3. CASE Route(r) \/ Refuse(r) \/ Attempt(r) \/ Deliver(r)
  BY <1>3 DEF Route, Refuse, Attempt, Deliver
<1>4. CASE ConnectFails(r) \/ RequestFails(r) \/ Respond(r)
  BY <1>4 DEF ConnectFails, RequestFails, Respond
<1>5. CASE SeeUsage(r) \/ Stall(r) \/ Resume(r) \/ EndStream(r) \/ DropRecorder(r)
  BY <1>5 DEF SeeUsage, Stall, Resume, EndStream, DropRecorder
<1>6. CASE DropMeter(r) \/ RecordEnergy(r)
  BY <1>6 DEF DropMeter, RecordEnergy
<1>7. CASE DropLoad(r) \/ DropSlot(r)
  BY <1>7 DEF DropLoad, DropSlot, Gate!Leave
<1>8. CASE Disconnect(r)
  BY <1>8 DEF Disconnect, Gate!Abandon
<1>9. QED
  BY <1>1, <1>2, <1>3, <1>4, <1>5, <1>6, <1>7, <1>8 DEF RequestStep, Step

\* The types of what belongs to a request.
LEMMA Types ==
  ASSUME ProxyInv, NEW r \in Requests
  PROVE  /\ RequestOK(r)
         /\ pc \in [Requests -> Stages] /\ place \in [Requests -> {"out", "queued", "inside"}]
         /\ DOMAIN candidates = Requests /\ failover \in [Requests -> BOOLEAN]
         /\ received \in [Requests -> SUBSET Backends] /\ usage \in [Requests -> BOOLEAN]
BY DEF ProxyInv, TypeOK, Stages

\* Whatever a request does, it stays in a state its stage allows.
LEMMA RequestStepOK ==
  ASSUME ProxyInv, NEW r \in Requests, RequestStep(r)
  PROVE  RequestOK(r)'
<1> USE Types DEF RequestOK, Early, Serving, Admitted, Upstream, Backend, gateVars, Go, Gate!Move
<1>1. CASE Arrive(r) \/ StartLookup(r) \/ EndLookup(r)
  BY <1>1 DEF Arrive, StartLookup, EndLookup
<1>2. CASE Acquire(r) \/ Wait(r)
  BY <1>2 DEF Acquire, Wait, Gate!Enter, Gate!Admit, Gate!Queue
<1>3. CASE Route(r)
  <2>1. PICK c \in CandidateLists : candidates' = [candidates EXCEPT ![r] = c]
    BY <1>3 DEF Route
  <2>2. c # <<>>
    BY CandidateFacts
  <2>3. QED
    BY <1>3, <2>1, <2>2 DEF Route
<1>4. CASE Refuse(r) \/ Attempt(r)
  BY <1>4 DEF Refuse, Attempt
<1>5. CASE Deliver(r)
  BY <1>5 DEF Deliver
<1>6. CASE ConnectFails(r)
  BY <1>6 DEF ConnectFails
<1>7. CASE RequestFails(r) \/ Respond(r)
  BY <1>7 DEF RequestFails, Respond
<1>8. CASE SeeUsage(r) \/ Stall(r) \/ Resume(r) \/ EndStream(r)
  BY <1>8 DEF SeeUsage, Stall, Resume, EndStream
<1>9. CASE DropRecorder(r)
  BY <1>9 DEF DropRecorder
<1>10. CASE DropMeter(r)
  BY <1>10 DEF DropMeter
<1>11. CASE RecordEnergy(r)
  BY <1>11 DEF RecordEnergy
<1>12. CASE DropLoad(r)
  <2>1. CASE failover[r]
    <3>1. candidates[r] \in CandidateLists /\ Len(candidates[r]) > 1
      BY <1>12, <2>1, BackendFacts DEF DropLoad, ProxyInv
    <3>2. Tail(candidates[r]) # <<>>
      BY <3>1, CandidateFacts
    <3>3. QED
      BY <1>12, <2>1, <3>2 DEF DropLoad
  <2>2. CASE ~failover[r]
    BY <1>12, <2>2 DEF DropLoad
  <2>3. QED
    BY <2>1, <2>2
<1>13. CASE DropSlot(r)
  BY <1>13 DEF DropSlot, Gate!Leave
<1>14. CASE Disconnect(r)
  BY <1>14 DEF Disconnect, Gate!Abandon
<1>15. QED
  BY <1>1, <1>2, <1>3, <1>4, <1>5, <1>6, <1>7, <1>8, <1>9, <1>10, <1>11, <1>12,
     <1>13, <1>14 DEF RequestStep, Step

\* The writer, shutdown and the end of the process leave every request alone.
LEMMA Bystanders ==
  ASSUME Write \/ ShutDown \/ Exit \/ Exited \/ UNCHANGED vars
  PROVE  UNCHANGED <<pc, permits, lookups, place, candidates, failover, received,
                     usage, inflight, active, opened>>
BY DEF Write, ShutDown, Exit, Exited, vars, gateVars

\* Every request stays in a state its stage allows.
LEMMA RequestsOK ==
  ASSUME ProxyInv, [Next]_vars
  PROVE  \A r \in Requests : RequestOK(r)'
<1> SUFFICES ASSUME NEW q \in Requests
             PROVE  RequestOK(q)'
  OBVIOUS
<1>1. RequestOK(q) /\ TypeOK
  BY DEF ProxyInv
<1>2. ASSUME NEW r \in Requests, RequestStep(r)
      PROVE  RequestOK(q)'
  <2>1. CASE q = r
    BY <1>2, <2>1, RequestStepOK
  <2>2. CASE q # r
    BY <1>1, <1>2, <2>2, OthersUnchanged DEF RequestOK, Backend
  <2>3. QED
    BY <2>1, <2>2
<1>3. CASE Write \/ ShutDown \/ Exit \/ Exited \/ UNCHANGED vars
  BY <1>1, <1>3, Bystanders DEF RequestOK, Backend
<1>4. QED
  BY <1>2, <1>3 DEF Next, RequestStep

-----------------------------------------------------------------------------
(* Permits and slots *)

\* A permit is taken by a lookup that starts and given back by one that ends,
\* whoever still waits for it.
LEMMA PermitsKept ==
  ASSUME ProxyInv, [Next]_vars
  PROVE  ValidationBounded' /\ LookupsRun' /\ permits' \in 0..ValidationSlots
         /\ lookups' \subseteq Requests
<1> USE DEF ValidationBounded, LookupsRun
<1>1. /\ ValidationBounded /\ LookupsRun
      /\ permits \in 0..ValidationSlots /\ ValidationSlots \in Nat
      /\ lookups \subseteq Requests /\ pc \in [Requests -> Stages]
  BY ProxyAssumption DEF ProxyInv, TypeOK
<1>2. IsFiniteSet(lookups) /\ Cardinality(lookups) \in Nat
  BY <1>1, ProxyAssumption, FS_Subset, FS_CardinalityType
<1>3. ASSUME NEW r \in Requests, StartLookup(r)
      PROVE  /\ ValidationBounded' /\ LookupsRun'
             /\ permits' \in 0..ValidationSlots /\ lookups' \subseteq Requests
  <2>1. /\ pc[r] = "validating" /\ pc' = [pc EXCEPT ![r] = "looking"]
        /\ permits > 0 /\ permits' = permits - 1 /\ lookups' = lookups \cup {r}
    BY <1>3 DEF StartLookup, Go
  <2>2. r \notin lookups
    BY <1>1, <2>1
  <2>3. Cardinality(lookups') = Cardinality(lookups) + 1
    BY <1>2, <2>1, <2>2, FS_AddElement
  <2>4. QED
    BY <1>1, <1>2, <2>1, <2>3
<1>4. ASSUME NEW r \in Requests, EndLookup(r)
      PROVE  /\ ValidationBounded' /\ LookupsRun'
             /\ permits' \in 0..ValidationSlots /\ lookups' \subseteq Requests
  <2>1. /\ r \in lookups /\ lookups' = lookups \ {r} /\ permits' = permits + 1
        /\ \A q \in Requests : q # r => pc'[q] = pc[q]
        /\ pc'[r] # "looking"
    BY <1>1, <1>4 DEF EndLookup
  <2>2. Cardinality(lookups') = Cardinality(lookups) - 1 /\ Cardinality(lookups') \in Nat
    BY <1>2, <2>1, FS_RemoveElement, FS_CardinalityType
  <2>3. QED
    BY <1>1, <1>2, <2>1, <2>2
<1>5. ASSUME NEW r \in Requests, RequestStep(r), ~StartLookup(r), ~EndLookup(r)
      PROVE  /\ UNCHANGED <<permits, lookups>>
             /\ \A q \in Requests : q # r => pc'[q] = pc[q]
             /\ pc'[r] # "looking" \/ pc'[r] = pc[r]
             /\ r \in lookups => pc'[r] \in {"looking", "done"}
  <2>1. \A q \in Requests : q # r => pc'[q] = pc[q]
    BY <1>5, OthersUnchanged DEF ProxyInv
  <2>2. CASE Arrive(r) \/ Acquire(r) \/ Wait(r) \/ Route(r) \/ Refuse(r) \/ Attempt(r)
    BY <1>1, <2>1, <2>2 DEF Arrive, Acquire, Wait, Route, Refuse, Attempt, Go
  <2>3. CASE \/ Deliver(r) \/ ConnectFails(r) \/ RequestFails(r) \/ Respond(r)
             \/ SeeUsage(r) \/ Stall(r) \/ Resume(r) \/ EndStream(r)
    BY <1>1, <2>1, <2>3 DEF Deliver, ConnectFails, RequestFails, Respond, SeeUsage, Stall,
       Resume, EndStream, Go
  <2>4. CASE \/ DropRecorder(r) \/ DropMeter(r) \/ RecordEnergy(r) \/ DropLoad(r)
             \/ DropSlot(r) \/ Disconnect(r)
    BY <1>1, <2>1, <2>4 DEF DropRecorder, DropMeter, RecordEnergy, DropLoad, DropSlot,
       Disconnect, Go
  <2>5. QED
    BY <1>5, <2>2, <2>3, <2>4 DEF RequestStep, Step
<1>6. ASSUME NEW r \in Requests, RequestStep(r), ~StartLookup(r), ~EndLookup(r)
      PROVE  /\ ValidationBounded' /\ LookupsRun'
             /\ permits' \in 0..ValidationSlots /\ lookups' \subseteq Requests
  BY <1>1, <1>5, <1>6
<1>7. CASE Write \/ ShutDown \/ Exit \/ Exited \/ UNCHANGED vars
  BY <1>1, <1>7, Bystanders
<1>8. QED
  BY <1>3, <1>4, <1>6, <1>7 DEF Next, RequestStep

\* A step of the proxy is a step of the admission gate or leaves it alone.
LEMMA GateStep ==
  ASSUME ProxyInv, [Next]_vars
  PROVE  [Gate!Next]_place
<1>1. ASSUME NEW r \in Requests, RequestStep(r)
      PROVE  Gate!Next \/ UNCHANGED place
  <2>1. CASE Acquire(r) \/ Wait(r)
    BY <2>1 DEF Acquire, Wait, Gate!Next
  <2>2. CASE DropSlot(r) \/ Disconnect(r)
    BY <2>2 DEF DropSlot, Disconnect, Gate!Next, gateVars
  <2>3. CASE \/ Arrive(r) \/ StartLookup(r) \/ EndLookup(r) \/ Route(r) \/ Refuse(r)
             \/ Attempt(r) \/ Deliver(r) \/ ConnectFails(r) \/ RequestFails(r) \/ Respond(r)
    BY <2>3 DEF Arrive, StartLookup, EndLookup, Route, Refuse, Attempt, Deliver,
       ConnectFails, RequestFails, Respond, gateVars
  <2>4. CASE \/ SeeUsage(r) \/ Stall(r) \/ Resume(r) \/ EndStream(r) \/ DropRecorder(r)
             \/ DropMeter(r)
             \/ RecordEnergy(r) \/ DropLoad(r)
    BY <2>4 DEF SeeUsage, Stall, Resume, EndStream, DropRecorder, DropMeter, RecordEnergy,
       DropLoad, gateVars
  <2>5. QED
    BY <1>1, <2>1, <2>2, <2>3, <2>4 DEF RequestStep, Step
<1>2. CASE Write \/ ShutDown \/ Exit \/ Exited \/ UNCHANGED vars
  BY <1>2, Bystanders
<1>3. QED
  BY <1>1, <1>2 DEF Next, RequestStep

\* The gate never lets in more requests than it has slots.
LEMMA GateKept ==
  ASSUME ProxyInv, [Next]_vars
  PROVE  GateBounded' /\ place' \in [Requests -> {"out", "queued", "inside"}]
<1> USE DEF GateBounded, Gate!Inside
<1>1. /\ GateBounded /\ Capacity \in Nat
      /\ place \in [Requests -> {"out", "queued", "inside"}]
  BY ProxyAssumption DEF ProxyInv, TypeOK
<1>2. IsFiniteSet(Gate!Inside) /\ Cardinality(Gate!Inside) \in Nat
  BY ProxyAssumption, FS_Subset, FS_CardinalityType
<1>3. ASSUME NEW r \in Requests, Gate!Enter(r) \/ Gate!Admit(r)
      PROVE  GateBounded' /\ place' \in [Requests -> {"out", "queued", "inside"}]
  <2>0. Gate!Cardinality(Gate!Inside) = Cardinality(Gate!Inside)
    BY Zenon DEF Cardinality, Gate!Cardinality
  <2>1. /\ Cardinality(Gate!Inside) < Capacity
        /\ place[r] # "inside" /\ place' = [place EXCEPT ![r] = "inside"]
    BY <1>3, <2>0 DEF Gate!Enter, Gate!Admit, Gate!Move
  <2>2. Gate!Inside' = Gate!Inside \cup {r} /\ r \notin Gate!Inside
    BY <1>1, <2>1
  <2>3. Cardinality(Gate!Inside') = Cardinality(Gate!Inside) + 1
    BY <1>2, <2>2, FS_AddElement
  <2>4. QED
    BY <1>1, <1>2, <2>1, <2>3
<1>4. ASSUME NEW r \in Requests, Gate!Queue(r) \/ Gate!Abandon(r) \/ Gate!Leave(r)
      PROVE  GateBounded' /\ place' \in [Requests -> {"out", "queued", "inside"}]
  <2>1. \E to \in {"out", "queued"} : place' = [place EXCEPT ![r] = to]
    BY <1>4 DEF Gate!Queue, Gate!Abandon, Gate!Leave, Gate!Move
  <2>2. Gate!Inside' \subseteq Gate!Inside
    BY <1>1, <2>1
  <2>3. Cardinality(Gate!Inside') <= Cardinality(Gate!Inside) /\ Cardinality(Gate!Inside') \in Nat
    BY <1>2, <2>2, FS_Subset, FS_CardinalityType
  <2>4. QED
    BY <1>1, <1>2, <2>1, <2>3
<1>5. QED
  BY <1>1, <1>3, <1>4, GateStep DEF Gate!Next

-----------------------------------------------------------------------------
(* The backends' counters *)

\* The actions that touch neither counter nor, for long, a guard: a request
\* that serves a backend goes on serving it, and no other starts to.
Quiet(r) ==
  \/ Arrive(r) \/ StartLookup(r) \/ EndLookup(r) \/ Acquire(r) \/ Wait(r)
  \/ Route(r) \/ Refuse(r) \/ Deliver(r) \/ ConnectFails(r) \/ RequestFails(r) \/ Respond(r)
  \/ SeeUsage(r) \/ Stall(r) \/ Resume(r) \/ EndStream(r) \/ DropRecorder(r)
  \/ RecordEnergy(r) \/ DropSlot(r)
  \/ Disconnect(r)

\* What a step that takes and drops no load or meter leaves alone.
LEMMA QuietFacts ==
  ASSUME ProxyInv, NEW r \in Requests, Quiet(r)
  PROVE  /\ UNCHANGED <<inflight, active>>
         /\ pc'[r] \in Serving <=> pc[r] \in Serving
         /\ pc'[r] \in Upstream <=> pc[r] \in Upstream
         /\ pc[r] \in Serving => candidates'[r] = candidates[r]
         /\ pc'[r] = "energy" => pc[r] = "energy"
<1> USE Types DEF Serving, Upstream, Go
<1>1. CASE \/ Arrive(r) \/ StartLookup(r) \/ EndLookup(r) \/ Acquire(r) \/ Wait(r)
           \/ Route(r) \/ Refuse(r)
  BY <1>1 DEF Arrive, StartLookup, EndLookup, Acquire, Wait, Route, Refuse
<1>2. CASE \/ Deliver(r) \/ ConnectFails(r) \/ RequestFails(r) \/ Respond(r) \/ SeeUsage(r)
           \/ Stall(r) \/ Resume(r)
  BY <1>2 DEF Deliver, ConnectFails, RequestFails, Respond, SeeUsage, Stall, Resume
<1>3. CASE EndStream(r) \/ DropRecorder(r) \/ RecordEnergy(r) \/ DropSlot(r) \/ Disconnect(r)
  BY <1>3 DEF EndStream, DropRecorder, RecordEnergy, DropSlot, Disconnect
<1>4. QED
  BY <1>1, <1>2, <1>3 DEF Quiet

\* The guards on a backend can be counted.
LEMMA HoldersFinite ==
  ASSUME NEW b
  PROVE  /\ IsFiniteSet(HoldsLoad(b)) /\ Cardinality(HoldsLoad(b)) \in Nat
         /\ IsFiniteSet(HoldsMeter(b)) /\ Cardinality(HoldsMeter(b)) \in Nat
BY ProxyAssumption, FS_Subset, FS_CardinalityType DEF HoldsLoad, HoldsMeter

\* Who holds which guard does not change when no guard is taken or dropped.
LEMMA QuietHolders ==
  ASSUME ProxyInv, NEW r \in Requests, Quiet(r), NEW b \in Backends
  PROVE  HoldsLoad(b)' = HoldsLoad(b) /\ HoldsMeter(b)' = HoldsMeter(b)
<1>1. RequestStep(r)
  BY DEF Quiet, RequestStep, Step
<1>2. \A q \in Requests : q # r => pc'[q] = pc[q] /\ candidates'[q] = candidates[q]
  BY <1>1, OthersUnchanged DEF ProxyInv
<1>3. QED
  BY <1>2, QuietFacts DEF HoldsLoad, HoldsMeter, Serving, Backend, Upstream

\* begin_load and begin add the request to both sets.
LEMMA AttemptHolders ==
  ASSUME ProxyInv, NEW r \in Requests, Attempt(r)
  PROVE  /\ Backend(r) \in Backends
         /\ \A b \in Backends :
              /\ HoldsLoad(b)' = IF b = Backend(r) THEN HoldsLoad(b) \cup {r} ELSE HoldsLoad(b)
              /\ HoldsMeter(b)' = IF b = Backend(r) THEN HoldsMeter(b) \cup {r} ELSE HoldsMeter(b)
              /\ r \notin HoldsLoad(b) /\ r \notin HoldsMeter(b)
<1>1. pc[r] = "attempt" /\ pc' = [pc EXCEPT ![r] = "sending"] /\ candidates' = candidates
  BY DEF Attempt, Go
<1>2. pc \in [Requests -> Stages] /\ Backend(r) \in Backends
  BY <1>1, Types, BackendFacts DEF RequestOK, ProxyInv
<1>3. QED
  BY <1>1, <1>2 DEF HoldsLoad, HoldsMeter, Upstream, Backend

\* MeterGuard::drop takes the request out of one, LoadGuard::drop out of the
\* other.
LEMMA DropMeterHolders ==
  ASSUME ProxyInv, NEW r \in Requests, DropMeter(r)
  PROVE  /\ Backend(r) \in Backends
         /\ \A b \in Backends :
              /\ HoldsLoad(b)' = HoldsLoad(b)
              /\ HoldsMeter(b)' = IF b = Backend(r) THEN HoldsMeter(b) \ {r} ELSE HoldsMeter(b)
              /\ r \in HoldsMeter(b) <=> b = Backend(r)
<1>1. /\ pc[r] = "meter" /\ candidates' = candidates
      /\ \E to \in {"energy", "load"} : pc' = [pc EXCEPT ![r] = to]
  BY DEF DropMeter, Go
<1>2. pc \in [Requests -> Stages] /\ Backend(r) \in Backends
  BY <1>1, Types, BackendFacts DEF RequestOK, ProxyInv, Serving, Upstream
<1>3. QED
  BY <1>1, <1>2 DEF HoldsLoad, HoldsMeter, Upstream, Backend

\* Dropping a load guard takes one request from the holders of one backend.
LEMMA DropLoadHolders ==
  ASSUME ProxyInv, NEW r \in Requests, DropLoad(r)
  PROVE  /\ Backend(r) \in Backends
         /\ \A b \in Backends :
              /\ HoldsLoad(b)' = IF b = Backend(r) THEN HoldsLoad(b) \ {r} ELSE HoldsLoad(b)
              /\ HoldsMeter(b)' = HoldsMeter(b)
              /\ r \in HoldsLoad(b) <=> b = Backend(r)
<1>1. /\ pc[r] = "load"
      /\ \E to \in {"attempt", "slot"} : pc' = [pc EXCEPT ![r] = to]
      /\ \A q \in Requests : q # r => candidates'[q] = candidates[q]
  BY Types DEF DropLoad, Go
<1>2. pc \in [Requests -> Stages] /\ Backend(r) \in Backends
  BY <1>1, Types, BackendFacts DEF RequestOK, ProxyInv, Serving
<1>3. QED
  BY <1>1, <1>2 DEF HoldsLoad, HoldsMeter, Upstream, Backend

\* The counters go on counting the requests each backend serves, and neither
\* is ever decremented below zero.
LEMMA LoadKept ==
  ASSUME ProxyInv, [Next]_vars
  PROVE  LoadCounted' /\ inflight' \in [Backends -> Nat] /\ active' \in [Backends -> Nat]
<1> DEFINE Goal == LoadCounted' /\ inflight' \in [Backends -> Nat] /\ active' \in [Backends -> Nat]
<1> USE DEF LoadCounted
<1>1. LoadCounted /\ inflight \in [Backends -> Nat] /\ active \in [Backends -> Nat]
  BY DEF ProxyInv, TypeOK
<1>2. ASSUME NEW r \in Requests, Quiet(r)
      PROVE  Goal
  BY <1>1, <1>2, QuietFacts, QuietHolders
<1>3. ASSUME NEW r \in Requests, Attempt(r)
      PROVE  Goal
  <2>1. /\ inflight' = [inflight EXCEPT ![Backend(r)] = @ + 1]
        /\ active' = [active EXCEPT ![Backend(r)] = @ + 1]
    BY <1>3 DEF Attempt
  <2>2. ASSUME NEW b \in Backends
        PROVE  /\ inflight'[b] = Cardinality(HoldsLoad(b)')
               /\ active'[b] = Cardinality(HoldsMeter(b)')
    <3>1. CASE b = Backend(r)
      <4>1. /\ Cardinality(HoldsLoad(b) \cup {r}) = Cardinality(HoldsLoad(b)) + 1
            /\ Cardinality(HoldsMeter(b) \cup {r}) = Cardinality(HoldsMeter(b)) + 1
        BY <1>3, AttemptHolders, HoldersFinite, FS_AddElement
      <4>2. QED
        BY <1>1, <1>3, <2>1, <3>1, <4>1, AttemptHolders
    <3>2. CASE b # Backend(r)
      BY <1>1, <1>3, <2>1, <3>2, AttemptHolders
    <3>3. QED
      BY <3>1, <3>2
  <2>3. QED
    BY <1>1, <1>3, <2>1, <2>2, AttemptHolders
<1>4. ASSUME NEW r \in Requests, DropMeter(r)
      PROVE  Goal
  <2>1. inflight' = inflight /\ active' = [active EXCEPT ![Backend(r)] = @ - 1]
    BY <1>4 DEF DropMeter
  <2>2. ASSUME NEW b \in Backends
        PROVE  active'[b] = Cardinality(HoldsMeter(b)') /\ active'[b] \in Nat
    <3>1. CASE b = Backend(r)
      <4>1. /\ Cardinality(HoldsMeter(b) \ {r}) = Cardinality(HoldsMeter(b)) - 1
            /\ Cardinality(HoldsMeter(b) \ {r}) \in Nat
        BY <1>4, <3>1, DropMeterHolders, HoldersFinite, FS_RemoveElement, FS_CardinalityType
      <4>2. QED
        BY <1>1, <1>4, <2>1, <3>1, <4>1, DropMeterHolders
    <3>2. CASE b # Backend(r)
      BY <1>1, <1>4, <2>1, <3>2, DropMeterHolders
    <3>3. QED
      BY <3>1, <3>2
  <2>3. QED
    BY <1>1, <1>4, <2>1, <2>2, DropMeterHolders
<1>5. ASSUME NEW r \in Requests, DropLoad(r)
      PROVE  Goal
  <2>1. active' = active /\ inflight' = [inflight EXCEPT ![Backend(r)] = @ - 1]
    BY <1>5 DEF DropLoad
  <2>2. ASSUME NEW b \in Backends
        PROVE  inflight'[b] = Cardinality(HoldsLoad(b)') /\ inflight'[b] \in Nat
    <3>1. CASE b = Backend(r)
      <4>1. /\ Cardinality(HoldsLoad(b) \ {r}) = Cardinality(HoldsLoad(b)) - 1
            /\ Cardinality(HoldsLoad(b) \ {r}) \in Nat
        BY <1>5, <3>1, DropLoadHolders, HoldersFinite, FS_RemoveElement, FS_CardinalityType
      <4>2. QED
        BY <1>1, <1>5, <2>1, <3>1, <4>1, DropLoadHolders
    <3>2. CASE b # Backend(r)
      BY <1>1, <1>5, <2>1, <3>2, DropLoadHolders
    <3>3. QED
      BY <3>1, <3>2
  <2>3. QED
    BY <1>1, <1>5, <2>1, <2>2, DropLoadHolders
<1>6. CASE Write \/ ShutDown \/ Exit \/ Exited \/ UNCHANGED vars
  BY <1>1, <1>6, Bystanders DEF HoldsLoad, HoldsMeter, Backend
<1>7. QED
  BY <1>2, <1>3, <1>4, <1>5, <1>6 DEF Next, Step, Quiet

-----------------------------------------------------------------------------
(* The accounting writer *)

\* A record that is handed over for the first time is queued or discarded, and
\* nothing else changes its fate.
LEMMA HandOver ==
  ASSUME Writer!TypeOK, Writer!OneFate,
         NEW rec \in Records, rec \notin Handed, Writer!Enqueue(rec)
  PROVE  Writer!TypeOK' /\ Writer!OneFate' /\ Handed' = Handed \cup {rec}
<1> USE DEF Writer!TypeOK, Writer!OneFate, Writer!Pending, Writer!Settled, Writer!ToSet,
            Writer!IsInjective, Handed
<1>1. QueueCap \in Nat /\ Nothing \notin Records
  BY ProxyAssumption, NothingAssumption
<1>2. queue \in Seq(Records) /\ Len(queue) \in Nat /\ DOMAIN queue = 1..Len(queue)
  OBVIOUS
<1>3. CASE Len(queue) < QueueCap
  <2>1. queue' = Append(queue, rec) /\ UNCHANGED <<discarded, writing, stored, failed>>
    BY <1>3 DEF Writer!Enqueue
  <2>2. /\ queue' \in Seq(Records) /\ Len(queue') = Len(queue) + 1
        /\ \A i \in 1..Len(queue) : queue'[i] = queue[i]
        /\ queue'[Len(queue) + 1] = rec /\ DOMAIN queue' = 1..(Len(queue) + 1)
    BY <1>2, <2>1
  <2>3. Writer!ToSet(queue)' = Writer!ToSet(queue) \cup {rec}
    BY <1>2, <2>2
  <2>4. Writer!IsInjective(queue)'
    BY <1>2, <2>2
  <2>5. QED
    BY <1>1, <1>3, <2>1, <2>2, <2>3, <2>4
<1>4. CASE ~(Len(queue) < QueueCap)
  BY <1>1, <1>4 DEF Writer!Enqueue
<1>5. QED
  BY <1>3, <1>4

\* Taking the oldest record of a queue without repetitions.
LEMMA TakeFacts ==
  ASSUME NEW S, NEW s \in Seq(S), s # <<>>, Writer!IsInjective(s)
  PROVE  /\ Tail(s) \in Seq(S) /\ Len(Tail(s)) = Len(s) - 1 /\ Head(s) \in S
         /\ Writer!IsInjective(Tail(s))
         /\ Writer!ToSet(s) = Writer!ToSet(Tail(s)) \cup {Head(s)}
         /\ Head(s) \notin Writer!ToSet(Tail(s))
<1>1. /\ Len(s) \in Nat /\ Len(s) >= 1 /\ DOMAIN s = 1..Len(s)
      /\ Tail(s) \in Seq(S) /\ Len(Tail(s)) = Len(s) - 1
      /\ Head(s) = s[1] /\ s[1] \in S
      /\ \A i \in 1..(Len(s) - 1) : Tail(s)[i] = s[i + 1]
  OBVIOUS
<1>2. DOMAIN Tail(s) = 1..(Len(s) - 1)
  BY <1>1, LenProperties
<1>3. \A i, j \in 1..Len(s) : s[i] = s[j] => i = j
  BY <1>1 DEF Writer!IsInjective
<1>4. \A i, j \in 1..(Len(s) - 1) : Tail(s)[i] = Tail(s)[j] => i = j
  BY <1>1, <1>3
<1>5. Head(s) \notin Writer!ToSet(Tail(s))
  BY <1>1, <1>2, <1>3 DEF Writer!ToSet
<1>6. Writer!ToSet(Tail(s)) \cup {Head(s)} \subseteq Writer!ToSet(s)
  BY <1>1, <1>2 DEF Writer!ToSet
<1>7. ASSUME NEW i \in 1..Len(s), i # 1
      PROVE  s[i] \in Writer!ToSet(Tail(s))
  <2>1. i - 1 \in 1..(Len(s) - 1) /\ (i - 1) + 1 = i
    BY <1>1, <1>7
  <2>2. s[i] = Tail(s)[i - 1]
    BY <1>1, <2>1
  <2>3. QED
    BY <1>2, <2>1, <2>2 DEF Writer!ToSet
<1>8. Writer!ToSet(s) \subseteq Writer!ToSet(Tail(s)) \cup {Head(s)}
  BY <1>1, <1>7 DEF Writer!ToSet
<1>9. QED
  BY <1>1, <1>2, <1>4, <1>5, <1>6, <1>8 DEF Writer!IsInjective

\* The writer thread loses and invents nothing.
LEMMA WriteKeeps ==
  ASSUME Writer!TypeOK, Writer!OneFate, Writer!Write
  PROVE  Writer!TypeOK' /\ Writer!OneFate' /\ Handed' = Handed
<1> USE DEF Writer!TypeOK, Writer!OneFate, Writer!Pending, Writer!Settled, Handed
<1>1. QueueCap \in Nat /\ Nothing \notin Records /\ Len(queue) \in Nat
  BY ProxyAssumption, NothingAssumption
<1>2. CASE Writer!Take
  <2>1. /\ writing = Nothing /\ queue # <<>> /\ writing' = Head(queue)
        /\ queue' = Tail(queue) /\ UNCHANGED <<stored, discarded, failed>>
    BY <1>2 DEF Writer!Take
  <2>2. /\ queue' \in Seq(Records) /\ Len(queue') = Len(queue) - 1 /\ writing' \in Records
        /\ Writer!IsInjective(queue')
        /\ Writer!ToSet(queue) = Writer!ToSet(queue') \cup {writing'}
        /\ writing' \notin Writer!ToSet(queue')
    BY <2>1, TakeFacts
  <2>3. writing' # Nothing
    BY <1>1, <2>2
  <2>4. QED
    BY <1>1, <2>1, <2>2, <2>3
<1>3. CASE Writer!Persist
  <2>1. Nothing \notin Writer!ToSet(queue)
    BY <1>1 DEF Writer!ToSet
  <2>2. QED
    BY <1>1, <1>3, <2>1 DEF Writer!Persist
<1>4. QED
  BY <1>2, <1>3 DEF Writer!Write

UsageRecord(r, b) == [kind |-> "usage", by |-> r, backend |-> b]
EnergyRecord(r, b) == [kind |-> "energy", by |-> r, backend |-> b]

\* The usage of this request has been handed over.
Counted(r) == usage[r] /\ pc[r] \notin {"streaming", "stalled", "usage"}

\* A usage record is new when the recorder is dropped.
LEMMA UsageIsNew ==
  ASSUME ProxyInv, NEW r \in Requests, pc[r] = "usage"
  PROVE  UsageRecord(r, Backend(r)) \in Records \ Handed
<1>1. Backend(r) \in Backends
  BY BackendFacts DEF ProxyInv, RequestOK, Serving, Upstream
<1>2. ~ \E b \in Backends : UsageRecord(r, b) \in Handed
  BY DEF ProxyInv, UsageRecorded, UsageRecord
<1>3. QED
  BY <1>1, <1>2 DEF UsageRecord, Records

\* An energy record is new when the meter owes it, also after failovers.
LEMMA EnergyIsNew ==
  ASSUME ProxyInv, NEW r \in Requests, pc[r] = "energy"
  PROVE  EnergyRecord(r, Backend(r)) \in Records \ Handed
<1>1. /\ candidates[r] \in CandidateLists
      /\ Backend(r) \in Backends /\ Backend(r) = candidates[r][1]
  BY BackendFacts DEF ProxyInv, RequestOK, Serving, Upstream
<1>2. 1 \in 1..Len(candidates[r])
  BY <1>1, CandidateFacts
<1>3. EnergyRecord(r, Backend(r)) \notin Handed
  BY <1>1, <1>2 DEF ProxyInv, EnergyOnce, EnergyRecord
<1>4. QED
  BY <1>1, <1>3 DEF EnergyRecord, Records

\* What a request hands to the writer in one step.
LEMMA HandedBy ==
  ASSUME ProxyInv, NEW r \in Requests, RequestStep(r)
  PROVE  /\ Writer!TypeOK' /\ Writer!OneFate'
         /\ \/ Handed' = Handed /\ (Counted(r)' <=> Counted(r)) /\ ~RecordEnergy(r)
            \/ /\ DropRecorder(r) /\ usage[r]
               /\ Handed' = Handed \cup {UsageRecord(r, Backend(r))}
            \/ RecordEnergy(r) /\ Handed' = Handed \cup {EnergyRecord(r, Backend(r))}
<1>1. Writer!TypeOK /\ Writer!OneFate
  BY DEF ProxyInv, TypeOK, UsageRecorded
<1>2. ASSUME UNCHANGED writerVars
      PROVE  Writer!TypeOK' /\ Writer!OneFate' /\ Handed' = Handed
  BY <1>1, <1>2 DEF writerVars, Writer!TypeOK, Writer!OneFate, Handed, Writer!Pending,
     Writer!Settled
<1>3. CASE DropRecorder(r) /\ usage[r]
  <2>1. pc[r] = "usage" /\ Writer!Enqueue(UsageRecord(r, Backend(r)))
    BY <1>3 DEF DropRecorder, Go, UsageRecord
  <2>2. QED
    BY <1>1, <1>3, <2>1, UsageIsNew, HandOver
<1>4. CASE RecordEnergy(r)
  <2>1. pc[r] = "energy" /\ Writer!Enqueue(EnergyRecord(r, Backend(r)))
    BY <1>4 DEF RecordEnergy, Go, EnergyRecord
  <2>2. QED
    BY <1>1, <1>4, <2>1, EnergyIsNew, HandOver
<1>5. CASE ~(DropRecorder(r) /\ usage[r]) /\ ~RecordEnergy(r)
  <2>0. SUFFICES UNCHANGED writerVars /\ (Counted(r)' <=> Counted(r))
    BY <1>2, <1>5
  <2>1. CASE \/ Arrive(r) \/ StartLookup(r) \/ EndLookup(r) \/ Acquire(r) \/ Wait(r)
             \/ Route(r) \/ Refuse(r)
    <3>1. UNCHANGED writerVars
      BY <2>1 DEF Arrive, StartLookup, EndLookup, Acquire, Wait, Route, Refuse
    <3>2. Counted(r)' <=> Counted(r)
      BY <2>1, Types DEF Counted, Go, Arrive, StartLookup, EndLookup, Acquire, Wait, Route, Refuse
    <3>3. QED
      BY <3>1, <3>2
  <2>2. CASE \/ Attempt(r) \/ Deliver(r) \/ ConnectFails(r) \/ RequestFails(r) \/ Respond(r)
    <3>1. UNCHANGED writerVars
      BY <2>2 DEF Attempt, Deliver, ConnectFails, RequestFails, Respond
    <3>2. Counted(r)' <=> Counted(r)
      BY <2>2, Types DEF Counted, Go, Attempt, Deliver, ConnectFails, RequestFails, Respond,
         RequestOK
    <3>3. QED
      BY <3>1, <3>2
  <2>3. CASE SeeUsage(r) \/ Stall(r) \/ Resume(r) \/ EndStream(r) \/ (DropRecorder(r) /\ ~usage[r])
    <3>1. UNCHANGED writerVars
      BY <2>3 DEF SeeUsage, Stall, Resume, EndStream, DropRecorder
    <3>2. Counted(r)' <=> Counted(r)
      BY <2>3, Types DEF Counted, Go, SeeUsage, Stall, Resume, EndStream, DropRecorder
    <3>3. QED
      BY <3>1, <3>2
  <2>4. CASE \/ DropMeter(r) \/ DropLoad(r) \/ DropSlot(r) \/ Disconnect(r)
    <3>1. UNCHANGED writerVars
      BY <2>4 DEF DropMeter, DropLoad, DropSlot, Disconnect
    <3>2. Counted(r)' <=> Counted(r)
      BY <2>4, Types DEF Counted, Go, DropMeter, DropLoad, DropSlot, Disconnect
    <3>3. QED
      BY <3>1, <3>2
  <2>5. QED
    BY <1>5, <2>1, <2>2, <2>3, <2>4 DEF RequestStep, Step
<1>6. QED
  BY <1>3, <1>4, <1>5

\* Nobody else hands anything over.
LEMMA HandedByNobody ==
  ASSUME ProxyInv, Write \/ ShutDown \/ Exit \/ Exited \/ UNCHANGED vars
  PROVE  Writer!TypeOK' /\ Writer!OneFate' /\ Handed' = Handed
<1>1. Writer!TypeOK /\ Writer!OneFate
  BY DEF ProxyInv, TypeOK, UsageRecorded
<1>2. CASE Write
  BY <1>1, <1>2, WriteKeeps DEF Write
<1>3. CASE UNCHANGED writerVars
  BY <1>1, <1>3 DEF writerVars, Writer!TypeOK, Writer!OneFate, Handed, Writer!Pending,
     Writer!Settled
<1>4. QED
  BY <1>2, <1>3 DEF ShutDown, Exit, Exited, vars, writerVars

\* The upstream's knowledge of a request only grows.
LEMMA ReceivedGrows ==
  ASSUME ProxyInv, [Next]_vars, NEW q \in Requests
  PROVE  received[q] \subseteq received'[q]
<1>1. ASSUME NEW r \in Requests, RequestStep(r)
      PROVE  received[q] \subseteq received'[q]
  <2>1. CASE q # r
    BY <1>1, <2>1, OthersUnchanged DEF ProxyInv
  <2>2. CASE Deliver(r)
    BY <2>2, Types DEF Deliver
  <2>3. CASE ~Deliver(r)
    BY <1>1, <2>3 DEF RequestStep, Step, Arrive, StartLookup, EndLookup, Acquire, Wait, Route,
       Refuse, Attempt, ConnectFails, RequestFails, Respond, SeeUsage, Stall, Resume, EndStream,
       DropRecorder, DropMeter, RecordEnergy, DropLoad, DropSlot, Disconnect
  <2>4. QED
    BY <2>2, <2>3
<1>2. QED
  BY <1>1, Bystanders DEF Next, RequestStep

\* Usage goes on being handed over exactly once.
LEMMA UsageKept ==
  ASSUME ProxyInv, [Next]_vars
  PROVE  UsageRecorded' /\ Writer!TypeOK'
<1> DEFINE HasUsage(q) == \E b \in Backends : UsageRecord(q, b) \in Handed
<1>1. /\ \A q \in Requests : HasUsage(q) <=> Counted(q)
      /\ \A rec \in Handed : rec.kind = "usage" => rec.backend \in received[rec.by]
      /\ Handed \subseteq Records
  <2>1. Handed \subseteq Records
    BY DEF ProxyInv, TypeOK, Writer!TypeOK, Handed, Writer!Pending, Writer!Settled, Writer!ToSet
  <2>2. QED
    BY <2>1 DEF ProxyInv, UsageRecorded, UsageRecord, Counted
<1>2. SUFFICES /\ Writer!TypeOK' /\ Writer!OneFate'
               /\ \A q \in Requests : HasUsage(q)' <=> Counted(q)'
               /\ \A rec \in Handed' : rec.kind = "usage" => rec.backend \in received'[rec.by]
  BY DEF UsageRecorded, UsageRecord, Counted
<1>3. ASSUME NEW r \in Requests, RequestStep(r)
      PROVE  /\ Writer!TypeOK' /\ Writer!OneFate'
             /\ \A q \in Requests : HasUsage(q)' <=> Counted(q)'
             /\ \A rec \in Handed' : rec.kind = "usage" => rec.backend \in received'[rec.by]
  <2>1. Writer!TypeOK' /\ Writer!OneFate'
    BY <1>3, HandedBy
  <2>2. \A q \in Requests : q # r => (Counted(q)' <=> Counted(q))
    BY <1>3, OthersUnchanged DEF Counted, ProxyInv
  <2>3. \A rec \in Handed : rec.by \in Requests
    BY <1>1 DEF Records
  <2>4. \A q \in Requests : received[q] \subseteq received'[q]
    BY ReceivedGrows
  <2>5. CASE Handed' = Handed /\ (Counted(r)' <=> Counted(r))
    BY <1>1, <2>1, <2>2, <2>3, <2>4, <2>5
  <2>6. CASE /\ DropRecorder(r) /\ usage[r]
             /\ Handed' = Handed \cup {UsageRecord(r, Backend(r))}
    <3>1. pc[r] = "usage" /\ pc'[r] = "meter" /\ usage' = usage
      BY <2>6, Types DEF DropRecorder, Go
    <3>2. Backend(r) \in Backends /\ Backend(r) \in received[r]
      BY <3>1, BackendFacts, Types DEF ProxyInv, RequestOK, Serving, Upstream
    <3>3. Counted(r)' /\ HasUsage(r)'
      BY <2>6, <3>1, <3>2 DEF Counted
    <3>4. ASSUME NEW q \in Requests, q # r
          PROVE  HasUsage(q)' <=> HasUsage(q)
      BY <2>6, <3>4 DEF UsageRecord
    <3>5. \A rec \in Handed' : rec.kind = "usage" => rec.backend \in received'[rec.by]
      BY <1>1, <2>3, <2>4, <2>6, <3>2 DEF UsageRecord
    <3>6. QED
      BY <1>1, <2>1, <2>2, <3>3, <3>4, <3>5
  <2>7. CASE RecordEnergy(r) /\ Handed' = Handed \cup {EnergyRecord(r, Backend(r))}
    <3>1. Counted(r)' <=> Counted(r)
      BY <2>7, Types DEF RecordEnergy, Go, Counted
    <3>2. ASSUME NEW q \in Requests
          PROVE  HasUsage(q)' <=> HasUsage(q)
      BY <2>7 DEF UsageRecord, EnergyRecord
    <3>3. \A rec \in Handed' : rec.kind = "usage" => rec.backend \in received'[rec.by]
      BY <1>1, <2>3, <2>4, <2>7 DEF EnergyRecord
    <3>4. QED
      BY <1>1, <2>1, <2>2, <3>1, <3>2, <3>3
  <2>8. QED
    BY <1>3, <2>5, <2>6, <2>7, HandedBy
<1>4. CASE Write \/ ShutDown \/ Exit \/ Exited \/ UNCHANGED vars
  BY <1>1, <1>4, Bystanders, HandedByNobody DEF Counted
<1>5. QED
  BY <1>3, <1>4 DEF Next, RequestStep

\* Once routed, a request changes its candidates only by failing over.
LEMMA LateSteps ==
  ASSUME ProxyInv, NEW r \in Requests, RequestStep(r), pc[r] \notin Early
  PROVE  /\ pc'[r] \notin Early
         /\ \/ DropLoad(r) /\ failover[r]
            \/ /\ candidates'[r] = candidates[r]
               /\ pc[r] \in {"load", "slot", "done"} => pc'[r] \in {"load", "slot", "done"}
<1> USE Types DEF Early, Go
<1>1. CASE \/ Arrive(r) \/ StartLookup(r) \/ EndLookup(r) \/ Acquire(r) \/ Wait(r)
           \/ Route(r) \/ Refuse(r)
  BY <1>1 DEF Arrive, StartLookup, EndLookup, Acquire, Wait, Route, Refuse
<1>2. CASE \/ Attempt(r) \/ Deliver(r) \/ ConnectFails(r) \/ RequestFails(r) \/ Respond(r)
           \/ SeeUsage(r) \/ Stall(r) \/ Resume(r) \/ EndStream(r)
  BY <1>2 DEF Attempt, Deliver, ConnectFails, RequestFails, Respond, SeeUsage, Stall, Resume,
     EndStream
<1>3. CASE DropRecorder(r) \/ DropMeter(r) \/ RecordEnergy(r) \/ DropSlot(r) \/ Disconnect(r)
  BY <1>3 DEF DropRecorder, DropMeter, RecordEnergy, DropSlot, Disconnect
<1>4. CASE DropLoad(r)
  BY <1>4 DEF DropLoad
<1>5. QED
  BY <1>1, <1>2, <1>3, <1>4 DEF RequestStep, Step

\* No request bills a backend twice.
LEMMA EnergyOnceKept ==
  ASSUME ProxyInv, [Next]_vars
  PROVE  EnergyOnce'
<1> DEFINE Done(q, b) ==
             /\ pc[q] \notin Early
             /\ \A i \in 1..Len(candidates[q]) :
                  candidates[q][i] = b => i = 1 /\ pc[q] \in {"load", "slot", "done"}
<1>1. \A q \in Requests, b \in Backends : EnergyRecord(q, b) \in Handed => Done(q, b)
  BY DEF ProxyInv, EnergyOnce, EnergyRecord
<1>2. SUFFICES ASSUME NEW q \in Requests, NEW b \in Backends, EnergyRecord(q, b) \in Handed'
               PROVE  Done(q, b)'
  BY DEF EnergyOnce, EnergyRecord
<1>3. ASSUME NEW r \in Requests, RequestStep(r)
      PROVE  Done(q, b)'
  <2>1. CASE RecordEnergy(r) /\ q = r /\ b = Backend(r)
    <3>1. pc[r] = "energy" /\ pc'[r] = "load" /\ candidates' = candidates
      BY <2>1, Types DEF RecordEnergy, Go
    <3>2. candidates[r] \in CandidateLists /\ b = candidates[r][1]
      BY <2>1, <3>1, BackendFacts DEF ProxyInv, RequestOK, Serving, Upstream
    <3>3. \A i \in 1..Len(candidates[r]) : candidates[r][i] = b => i = 1
      BY <3>2, CandidateFacts
    <3>4. QED
      BY <2>1, <3>1, <3>3 DEF Early
  <2>2. CASE ~(RecordEnergy(r) /\ q = r /\ b = Backend(r))
    <3>1. EnergyRecord(q, b) \in Handed
      BY <1>2, <1>3, <2>2, HandedBy DEF EnergyRecord, UsageRecord
    <3>2. Done(q, b)
      BY <1>1, <3>1
    <3>3. CASE q # r
      BY <1>3, <3>2, <3>3, OthersUnchanged DEF ProxyInv
    <3>4. CASE q = r /\ ~(DropLoad(r) /\ failover[r])
      BY <1>3, <3>2, <3>4, LateSteps
    <3>5. CASE q = r /\ DropLoad(r) /\ failover[r]
      <4>1. candidates[r] \in CandidateLists /\ Len(candidates[r]) > 1
        BY <3>5, BackendFacts DEF ProxyInv, RequestOK, Serving, DropLoad, Go
      <4>2. /\ Len(candidates'[r]) = Len(candidates[r]) - 1 /\ Len(candidates[r]) \in Nat
            /\ \A i \in 1..(Len(candidates[r]) - 1) : candidates'[r][i] = candidates[r][i + 1]
        <5>1. candidates'[r] = Tail(candidates[r])
          BY <3>5, Types DEF DropLoad
        <5>2. QED
          BY <4>1, <5>1, CandidateFacts
      <4>3. ASSUME NEW i \in 1..(Len(candidates[r]) - 1)
            PROVE  candidates[r][i + 1] # b
        <5>1. i + 1 \in 1..Len(candidates[r]) /\ i + 1 # 1
          BY <4>2
        <5>2. QED
          BY <3>2, <3>5, <5>1
      <4>4. pc'[r] \notin Early
        BY <1>3, <3>2, <3>5, LateSteps
      <4>5. QED
        BY <3>5, <4>2, <4>3, <4>4
    <3>6. QED
      BY <3>3, <3>4, <3>5
  <2>3. QED
    BY <2>1, <2>2
<1>4. CASE Write \/ ShutDown \/ Exit \/ Exited \/ UNCHANGED vars
  <2>1. EnergyRecord(q, b) \in Handed
    BY <1>2, <1>4, HandedByNobody
  <2>2. QED
    BY <1>1, <1>4, <2>1, Bystanders
<1>5. QED
  BY <1>3, <1>4 DEF Next, RequestStep

-----------------------------------------------------------------------------
(* Energy *)

\* The requests that owe or have handed over an energy record can be counted.
LEMMA BillsFinite ==
  ASSUME NEW b
  PROVE  /\ IsFiniteSet(OwesEnergy(b)) /\ Cardinality(OwesEnergy(b)) \in Nat
         /\ IsFiniteSet(HasBilled(b)) /\ Cardinality(HasBilled(b)) \in Nat
BY ProxyAssumption, FS_Subset, FS_CardinalityType DEF OwesEnergy, HasBilled

\* Only MeterGuard::drop makes a request owe an energy record, and only
\* handing it over settles that.
LEMMA BillsChange ==
  ASSUME ProxyInv, NEW r \in Requests, RequestStep(r), NEW b \in Backends
  PROVE  /\ ~RecordEnergy(r) => HasBilled(b)' = HasBilled(b)
         /\ ~RecordEnergy(r) /\ ~DropMeter(r) => OwesEnergy(b)' = OwesEnergy(b)
<1>1. ASSUME ~RecordEnergy(r)
      PROVE  HasBilled(b)' = HasBilled(b)
  BY <1>1, HandedBy DEF HasBilled, UsageRecord
<1>2. ASSUME ~RecordEnergy(r), ~DropMeter(r)
      PROVE  OwesEnergy(b)' = OwesEnergy(b)
  <2>1. \A q \in Requests : q # r => pc'[q] = pc[q] /\ candidates'[q] = candidates[q]
    BY OthersUnchanged DEF ProxyInv
  <2>2. \/ pc[r] # "energy" /\ pc'[r] # "energy"
        \/ pc'[r] = pc[r] /\ candidates'[r] = candidates[r]
    BY <1>2, Types DEF RequestStep, Step, Arrive, StartLookup, EndLookup, Acquire, Wait, Route,
       Refuse, Attempt, Deliver, ConnectFails, RequestFails, Respond, SeeUsage, Stall, Resume,
       EndStream, DropRecorder, DropLoad, DropSlot, Disconnect, Go
  <2>3. QED
    BY <2>1, <2>2 DEF OwesEnergy, Backend
<1>3. QED
  BY <1>1, <1>2

\* Whoever ends a busy interval bills it, and nobody bills it again.
LEMMA EnergyKept ==
  ASSUME ProxyInv, [Next]_vars
  PROVE  EnergyRecorded' /\ opened' \in [Backends -> Nat]
<1> DEFINE Open(b) == IF active[b] > 0 THEN 1 ELSE 0
           Billed(b) == opened[b] = Open(b) + Cardinality(OwesEnergy(b))
                                            + Cardinality(HasBilled(b))
<1>1. /\ \A b \in Metered : Billed(b)
      /\ active \in [Backends -> Nat] /\ opened \in [Backends -> Nat]
      /\ LoadCounted /\ Metered \subseteq Backends
  BY ProxyAssumption DEF ProxyInv, TypeOK, EnergyRecorded
<1>2. opened' \in [Backends -> Nat]
  <2>1. CASE \E r \in Requests : Attempt(r)
    <3>1. PICK r \in Requests : Attempt(r)
      BY <2>1
    <3>2. Backend(r) \in Backends
      BY <3>1, AttemptHolders
    <3>3. QED
      BY <1>1, <3>1, <3>2 DEF Attempt
  <2>2. CASE UNCHANGED opened
    BY <1>1, <2>2
  <2>3. QED
    BY <2>1, <2>2, Bystanders DEF Next, Step, Arrive, StartLookup, EndLookup, Acquire, Wait, Route,
       Refuse, Deliver, ConnectFails, RequestFails, Respond, SeeUsage, Stall, Resume, EndStream,
       DropRecorder, DropMeter, RecordEnergy, DropLoad, DropSlot, Disconnect
<1>3. ASSUME NEW r \in Requests, RequestStep(r), NEW b \in Metered
      PROVE  Billed(b)'
  <2>0. b \in Backends /\ Billed(b) /\ active[b] \in Nat /\ opened[b] \in Nat
    BY <1>1, <1>3
  <2>1. CASE Attempt(r)
    <3>1. /\ Cardinality(OwesEnergy(b))' = Cardinality(OwesEnergy(b))
          /\ Cardinality(HasBilled(b))' = Cardinality(HasBilled(b))
      <4>1. ~RecordEnergy(r) /\ ~DropMeter(r)
        BY <2>1 DEF Attempt, RecordEnergy, DropMeter, Go
      <4>2. QED
        BY <1>3, <2>0, <4>1, BillsChange
    <3>2. CASE b = Backend(r)
      <4>1. /\ active'[b] = active[b] + 1
            /\ opened'[b] = IF active[b] = 0 THEN opened[b] + 1 ELSE opened[b]
        BY <1>1, <2>0, <2>1, <3>2 DEF Attempt
      <4>2. QED
        BY <2>0, <3>1, <4>1, BillsFinite
    <3>3. CASE b # Backend(r)
      BY <1>1, <2>0, <2>1, <3>1, <3>3 DEF Attempt
    <3>4. QED
      BY <3>2, <3>3
  <2>2. CASE DropMeter(r)
    <3>1. /\ pc[r] = "meter" /\ candidates' = candidates /\ opened' = opened
          /\ pc' = [pc EXCEPT ![r] = IF active[Backend(r)] = 1 /\ Backend(r) \in Metered
                                     THEN "energy" ELSE "load"]
          /\ active' = [active EXCEPT ![Backend(r)] = @ - 1]
      BY <2>2 DEF DropMeter, Go
    <3>2. Cardinality(HasBilled(b))' = Cardinality(HasBilled(b))
      <4>1. ~RecordEnergy(r)
        BY <3>1 DEF RecordEnergy, Go
      <4>2. QED
        BY <1>3, <2>0, <4>1, BillsChange
    <3>3. pc \in [Requests -> Stages] /\ r \notin OwesEnergy(b)
      BY <3>1, Types DEF OwesEnergy
    <3>4. CASE b = Backend(r)
      <4>1. r \in HoldsMeter(b)
        BY <3>1, <3>4 DEF HoldsMeter, Upstream
      <4>2. active[b] # 0
        BY <1>1, <2>0, <4>1, HoldersFinite, FS_EmptySet DEF LoadCounted
      <4>3. active'[b] = active[b] - 1 /\ opened'[b] = opened[b]
        BY <1>1, <2>0, <3>1, <3>4
      <4>4. CASE active[b] = 1
        <5>1. OwesEnergy(b)' = OwesEnergy(b) \cup {r}
          BY <1>3, <3>1, <3>3, <3>4, <4>4 DEF OwesEnergy, Backend
        <5>2. Cardinality(OwesEnergy(b)') = Cardinality(OwesEnergy(b)) + 1
          BY <3>3, <5>1, BillsFinite, FS_AddElement
        <5>3. QED
          BY <2>0, <3>2, <4>3, <4>4, <5>2, BillsFinite
      <4>5. CASE active[b] # 1
        <5>1. OwesEnergy(b)' = OwesEnergy(b)
          BY <3>1, <3>3, <3>4, <4>5 DEF OwesEnergy, Backend
        <5>2. active[b] > 1
          BY <2>0, <4>2, <4>5
        <5>3. Cardinality(OwesEnergy(b))' = Cardinality(OwesEnergy(b))
          BY <5>1
        <5>4. QED
          BY <2>0, <3>2, <4>3, <5>2, <5>3, BillsFinite
      <4>6. QED
        BY <4>4, <4>5
    <3>5. CASE b # Backend(r)
      <4>1. OwesEnergy(b)' = OwesEnergy(b)
        BY <3>1, <3>3, <3>5 DEF OwesEnergy, Backend
      <4>2. active'[b] = active[b] /\ opened'[b] = opened[b]
        BY <1>1, <2>0, <3>1, <3>5
      <4>3. Cardinality(OwesEnergy(b))' = Cardinality(OwesEnergy(b))
        BY <4>1
      <4>4. QED
        BY <2>0, <3>2, <4>2, <4>3
    <3>6. QED
      BY <3>4, <3>5
  <2>3. CASE RecordEnergy(r)
    <3>1. /\ pc[r] = "energy" /\ pc' = [pc EXCEPT ![r] = "load"]
          /\ candidates' = candidates /\ active' = active /\ opened' = opened
      BY <2>3 DEF RecordEnergy, Go
    <3>2. Handed' = Handed \cup {EnergyRecord(r, Backend(r))}
      BY <1>3, <2>3, <3>1, HandedBy DEF DropRecorder, Go
    <3>3. pc \in [Requests -> Stages]
      BY Types
    <3>4. CASE b = Backend(r)
      <4>1. OwesEnergy(b)' = OwesEnergy(b) \ {r} /\ r \in OwesEnergy(b)
        BY <3>1, <3>3, <3>4 DEF OwesEnergy, Backend
      <4>2. HasBilled(b)' = HasBilled(b) \cup {r} /\ r \notin HasBilled(b)
        BY <3>1, <3>2, <3>4, EnergyIsNew DEF HasBilled, EnergyRecord
      <4>3. Cardinality(OwesEnergy(b)') = Cardinality(OwesEnergy(b)) - 1
        BY <4>1, BillsFinite, FS_RemoveElement
      <4>4. Cardinality(HasBilled(b)') = Cardinality(HasBilled(b)) + 1
        BY <4>2, BillsFinite, FS_AddElement
      <4>5. QED
        BY <2>0, <3>1, <4>3, <4>4, BillsFinite
    <3>5. CASE b # Backend(r)
      <4>1. OwesEnergy(b)' = OwesEnergy(b) /\ HasBilled(b)' = HasBilled(b)
        BY <3>1, <3>2, <3>3, <3>5 DEF OwesEnergy, HasBilled, Backend, EnergyRecord
      <4>2. /\ Cardinality(OwesEnergy(b))' = Cardinality(OwesEnergy(b))
            /\ Cardinality(HasBilled(b))' = Cardinality(HasBilled(b))
        BY <4>1
      <4>3. QED
        BY <2>0, <3>1, <4>2
    <3>6. QED
      BY <3>4, <3>5
  <2>4. CASE ~Attempt(r) /\ ~DropMeter(r) /\ ~RecordEnergy(r)
    <3>1. active' = active /\ opened' = opened
      BY <1>3, <2>4 DEF RequestStep, Step, Arrive, StartLookup, EndLookup, Acquire, Wait, Route,
         Refuse, Deliver, ConnectFails, RequestFails, Respond, SeeUsage, Stall, Resume, EndStream,
         DropRecorder, DropLoad, DropSlot, Disconnect
    <3>2. OwesEnergy(b)' = OwesEnergy(b) /\ HasBilled(b)' = HasBilled(b)
      BY <1>3, <2>0, <2>4, BillsChange
    <3>3. /\ Cardinality(OwesEnergy(b))' = Cardinality(OwesEnergy(b))
          /\ Cardinality(HasBilled(b))' = Cardinality(HasBilled(b))
      BY <3>2
    <3>4. QED
      BY <2>0, <3>1, <3>3
  <2>5. QED
    BY <2>1, <2>2, <2>3, <2>4
<1>4. ASSUME Write \/ ShutDown \/ Exit \/ Exited \/ UNCHANGED vars, NEW b \in Metered
      PROVE  Billed(b)'
  <2>1. OwesEnergy(b)' = OwesEnergy(b) /\ HasBilled(b)' = HasBilled(b)
    BY <1>4, Bystanders, HandedByNobody DEF OwesEnergy, HasBilled, Backend
  <2>2. /\ Cardinality(OwesEnergy(b))' = Cardinality(OwesEnergy(b))
        /\ Cardinality(HasBilled(b))' = Cardinality(HasBilled(b))
    BY <2>1
  <2>3. QED
    BY <1>1, <1>4, <2>2, Bystanders
<1>5. \A b \in Metered : Billed(b)'
  BY <1>3, <1>4 DEF Next, RequestStep
<1>6. QED
  BY <1>2, <1>5 DEF EnergyRecorded

-----------------------------------------------------------------------------
(* The theorems *)

\* The invariant holds when the process has started.
LEMMA ProxyInit ==
  ASSUME Init
  PROVE  ProxyInv
<1> USE ProxyAssumption, NothingAssumption DEF Init
<1>1. Writer!TypeOK /\ Writer!OneFate /\ Handed = {}
  BY DEF Writer!Init, Writer!TypeOK, Writer!OneFate, Handed, Writer!Pending, Writer!Settled,
     Writer!ToSet, Writer!IsInjective
<1>2. TypeOK
  BY <1>1 DEF TypeOK, Stages, Gate!Init
<1>3. \A r \in Requests : RequestOK(r)
  BY DEF RequestOK, Early, Serving, Admitted, Upstream, Gate!Init
<1>4. LookupsRun /\ EnergyOnce
  BY <1>1 DEF LookupsRun, EnergyOnce
<1>5. GateBounded
  <2>1. Gate!Inside = {}
    BY DEF Gate!Init, Gate!Inside
  <2>2. QED
    BY <2>1, FS_EmptySet DEF GateBounded
<1>6. ValidationBounded
  BY FS_EmptySet DEF ValidationBounded
<1>7. LoadCounted
  <2>1. \A b \in Backends : HoldsLoad(b) = {} /\ HoldsMeter(b) = {}
    BY DEF HoldsLoad, HoldsMeter, Upstream
  <2>2. QED
    BY <2>1, FS_EmptySet DEF LoadCounted
<1>8. UsageRecorded
  BY <1>1 DEF UsageRecorded
<1>9. EnergyRecorded
  <2>1. \A b \in Metered : OwesEnergy(b) = {} /\ HasBilled(b) = {}
    BY <1>1 DEF OwesEnergy, HasBilled
  <2>2. \A b \in Metered : Cardinality(OwesEnergy(b)) = 0 /\ Cardinality(HasBilled(b)) = 0
    BY <2>1, FS_EmptySet, Zenon
  <2>3. \A b \in Metered : opened[b] = 0 /\ active[b] = 0
    OBVIOUS
  <2>4. QED
    BY <2>2, <2>3 DEF EnergyRecorded
<1>10. QED
  BY <1>2, <1>3, <1>4, <1>5, <1>6, <1>7, <1>8, <1>9 DEF ProxyInv

\* Every step keeps the invariant.
LEMMA ProxyStep ==
  ASSUME ProxyInv, [Next]_vars
  PROVE  ProxyInv'
<1> USE DEF ProxyInv, TypeOK
<1>1. process' \in {"up", "stopping", "exited"}
  <2>1. process' = process \/ process' \in {"stopping", "exited"}
    BY DEF Next, vars, Write, ShutDown, Exit, Exited, Step, Arrive, StartLookup, EndLookup,
       Acquire, Wait, Route, Refuse, Attempt, Deliver, ConnectFails, RequestFails, Respond,
       SeeUsage, Stall, Resume, EndStream, DropRecorder, DropMeter, RecordEnergy, DropLoad,
       DropSlot, Disconnect
  <2>2. QED
    BY <2>1
<1>2. ASSUME NEW r \in Requests, RequestStep(r)
      PROVE  /\ pc' \in [Requests -> Stages] /\ failover' \in [Requests -> BOOLEAN]
             /\ received' \in [Requests -> SUBSET Backends] /\ usage' \in [Requests -> BOOLEAN]
             /\ candidates' \in [Requests -> CandidateLists \cup {<<>>}]
  <2> USE DEF Stages, Go
  <2>1. CASE \/ Arrive(r) \/ StartLookup(r) \/ EndLookup(r) \/ Acquire(r) \/ Wait(r)
             \/ Route(r) \/ Refuse(r)
    BY <2>1 DEF Arrive, StartLookup, EndLookup, Acquire, Wait, Route, Refuse
  <2>2. CASE Attempt(r) \/ ConnectFails(r) \/ RequestFails(r) \/ Respond(r)
    <3>1. (Len(candidates[r]) > 1) \in BOOLEAN
      OBVIOUS
    <3>2. failover' \in [Requests -> BOOLEAN]
      BY <2>2, <3>1, Zenon DEF Attempt, ConnectFails, RequestFails, Respond
    <3>3. QED
      BY <2>2, <3>2 DEF Attempt, ConnectFails, RequestFails, Respond
  <2>3. CASE Deliver(r)
    <3>1. Backend(r) \in Backends
      BY <2>3, BackendFacts DEF Deliver, RequestOK, Serving, Upstream
    <3>2. QED
      BY <2>3, <3>1 DEF Deliver
  <2>4. CASE SeeUsage(r) \/ Stall(r) \/ Resume(r) \/ EndStream(r)
    BY <2>4 DEF SeeUsage, Stall, Resume, EndStream
  <2>5. CASE DropRecorder(r) \/ DropMeter(r) \/ RecordEnergy(r) \/ DropSlot(r) \/ Disconnect(r)
    BY <2>5 DEF DropRecorder, DropMeter, RecordEnergy, DropSlot, Disconnect
  <2>6. CASE DropLoad(r)
    <3>1. ASSUME failover[r]
          PROVE  Tail(candidates[r]) \in CandidateLists
      BY <2>6, <3>1, BackendFacts, CandidateFacts DEF DropLoad, RequestOK, Serving
    <3>2. QED
      BY <2>6, <3>1 DEF DropLoad
  <2>7. QED
    BY <1>2, <2>1, <2>2, <2>3, <2>4, <2>5, <2>6 DEF RequestStep, Step
<1>3. /\ pc' \in [Requests -> Stages] /\ failover' \in [Requests -> BOOLEAN]
      /\ received' \in [Requests -> SUBSET Backends] /\ usage' \in [Requests -> BOOLEAN]
      /\ candidates' \in [Requests -> CandidateLists \cup {<<>>}]
  BY <1>2, Bystanders DEF Next, RequestStep
<1>4. TypeOK'
  BY <1>1, <1>3, PermitsKept, GateKept, LoadKept, UsageKept, EnergyKept
<1>5. QED
  BY <1>4, RequestsOK, PermitsKept, GateKept, LoadKept, UsageKept, EnergyOnceKept, EnergyKept

\* The inductive invariant holds of every behaviour of the proxy: it is what
\* the theorems below follow from.
THEOREM ProxyInvariant == Spec => []ProxyInv
<1>1. Init => ProxyInv
  BY ProxyInit
<1>2. ProxyInv /\ [Next]_vars => ProxyInv'
  BY ProxyStep
<1>3. QED
  BY <1>1, <1>2, PTL DEF Spec

\* Permits and running lookups make up api_key_validation_slots, however many
\* clients abandon their lookups (run_with_validation_slot).
THEOREM PermitsBounded == Spec => []ValidationBounded
<1>1. ProxyInv => ValidationBounded
  BY DEF ProxyInv
<1>2. QED
  BY <1>1, ProxyInvariant, PTL

\* LoadGuard and MeterGuard count exactly the requests each backend serves.
THEOREM CountersExact == Spec => []LoadCounted
<1>1. ProxyInv => LoadCounted
  BY DEF ProxyInv
<1>2. QED
  BY <1>1, ProxyInvariant, PTL

\* At most max_concurrency requests occupy the backends: every request that
\* holds a load guard still holds its slot.
THEOREM BackendsNotOverrun == Spec => []UpstreamBounded
<1>1. ASSUME ProxyInv
      PROVE  UpstreamBounded
  <2> DEFINE U == UNION {HoldsLoad(b) : b \in Backends}
  <2>1. U \subseteq Gate!Inside
    BY <1>1 DEF ProxyInv, RequestOK, Admitted, Serving, HoldsLoad, Gate!Inside
  <2>2. IsFiniteSet(Gate!Inside) /\ Cardinality(Gate!Inside) \in Nat
    BY ProxyAssumption, FS_Subset, FS_CardinalityType DEF Gate!Inside
  <2> HIDE DEF U
  <2>3. Cardinality(U) <= Cardinality(Gate!Inside) /\ Cardinality(U) \in Nat
    BY <2>1, <2>2, FS_Subset, FS_CardinalityType
  <2>4. Cardinality(U) <= Capacity
    BY <1>1, <2>2, <2>3, ProxyAssumption DEF ProxyInv, GateBounded
  <2> USE DEF U
  <2>5. QED
    BY <2>4 DEF UpstreamBounded
<1>2. QED
  BY <1>1, ProxyInvariant, PTL

\* Failover tries the next backend only when the connection failed, so at most
\* one backend ever receives a request.
THEOREM ExecutedAtMostOnce == Spec => []NeverDoubleExecuted
<1>1. ASSUME ProxyInv
      PROVE  NeverDoubleExecuted
  <2>1. ASSUME NEW r \in Requests
        PROVE  Cardinality(received[r]) <= 1
    <3>1. received[r] = {} \/ received[r] = {Backend(r)}
      BY <1>1 DEF ProxyInv, RequestOK
    <3>2. Cardinality({}) = 0 /\ Cardinality({Backend(r)}) = 1
      BY FS_EmptySet, FS_Singleton
    <3>3. QED
      BY <3>1, <3>2
  <2>2. QED
    BY <2>1 DEF NeverDoubleExecuted
<1>2. QED
  BY <1>1, ProxyInvariant, PTL

\* Usage seen in a response is handed to the writer exactly once, at the end
\* or at the disconnect (UsageRecorder::drop).
THEOREM UsageHandedOverOnce == Spec => []UsageRecorded
<1>1. ProxyInv => UsageRecorded
  BY DEF ProxyInv
<1>2. QED
  BY <1>1, ProxyInvariant, PTL

\* Each busy interval of a metered backend is billed exactly once, those of
\* failed connects included (MeterGuard::drop).
THEOREM EnergyBilled == Spec => []EnergyRecorded
<1>1. ProxyInv => EnergyRecorded
  BY DEF ProxyInv
<1>2. QED
  BY <1>1, ProxyInvariant, PTL

\* The proxy uses the admission gate as Admission.tla promises it: what the
\* handlers and their guards do to it are steps of the gate.
THEOREM ProxyRespectsGate == Spec => Gate!Spec
<1>1. Init => Gate!Init
  BY DEF Init
<1>2. ProxyInv /\ [Next]_vars => [Gate!Next]_place
  BY GateStep
<1>3. QED
  BY <1>1, <1>2, ProxyInvariant, PTL DEF Spec, Gate!Spec
=============================================================================
