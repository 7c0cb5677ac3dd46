------------------------------- MODULE Proxy -------------------------------
(***************************************************************************)
(* The life of proxied requests: proxy_handler and the accounting stream   *)
(* (crates/twl-server/src/proxy), with the API-key validation slots, the   *)
(* admission gate, the backends' load and energy counters, the accounting  *)
(* writer and shutdown.                                                    *)
(*                                                                         *)
(* A client may go away whenever the handler or the response body awaits;  *)
(* the guards it holds are then dropped one by one, in the order Rust      *)
(* drops them, while other requests run on other threads.                  *)
(*                                                                         *)
(* Stages of a request:                                                    *)
(*   idle        not yet received                                          *)
(*   validating  awaits an API-key validation permit                       *)
(*   looking     awaits the detached lookup task                           *)
(*   admission   at the fair queue (see place)                             *)
(*   body        admitted, buffering the request body                      *)
(*   attempt     at the top of the candidate loop                          *)
(*   sending     awaits the upstream, request not yet received there       *)
(*   delivered   awaits the upstream, request received there               *)
(*   streaming   the response body is being forwarded                      *)
(*   stalled     the client has stopped reading it, and nobody polls it    *)
(*   usage, meter, energy, load, slot   dropping that guard                *)
(*   done        over                                                      *)
(***************************************************************************)
EXTENDS Naturals, Sequences, FiniteSets

CONSTANTS
  Requests,         \* proxied requests
  Keyless,          \* the requests that carry no API key
  RequireApiKey,    \* require_api_key
  ValidationSlots,  \* permits of api_key_validation_slots
  Capacity,         \* max_concurrency
  Backends,         \* the configured backends
  Metered,          \* the backends with gpu_watts > 0
  QueueCap,         \* ACCOUNTING_QUEUE_CAPACITY
  Nothing

ASSUME ProxyAssumption ==
  /\ IsFiniteSet(Requests) /\ Keyless \subseteq Requests
  /\ IsFiniteSet(Backends) /\ Backends # {} /\ Metered \subseteq Backends
  /\ RequireApiKey \in BOOLEAN
  /\ ValidationSlots \in Nat \ {0} /\ Capacity \in Nat \ {0} /\ QueueCap \in Nat \ {0}

VARIABLES
  process,     \* "up", "stopping" (signal received), "exited" (main returned)
  pc,          \* the stage of each request
  permits,     \* validation permits available
  lookups,     \* requests whose detached lookup task runs, holding a permit
  place,       \* "out", "queued" or "inside" the admission gate
  candidates,  \* backends still to try, the current one first
  failover,    \* the guards being dropped are those of a failed connect
  received,    \* history: backends that received the request
  usage,       \* UsageRecorder.usage.is_some()
  inflight,    \* BackendRegistry.inflight
  active,      \* active_count of each backend's EnergyMeter
  opened,      \* history: the busy intervals each EnergyMeter has begun
  queue, writing, stored, discarded, failed   \* the accounting writer

gateVars == <<place>>
writerVars == <<queue, writing, stored, discarded, failed>>
vars == <<process, pc, permits, lookups, place, candidates, failover, received,
          usage, inflight, active, opened, queue, writing, stored, discarded, failed>>

\* Usage and energy records, identified by the request that sends them.
Records == [kind : {"usage", "energy"}, by : Requests, backend : Backends]

\* recv returns a record or blocks.
ASSUME NothingAssumption == Nothing \notin Records

Gate == INSTANCE Admission
Writer == INSTANCE AccountingWriter

\* The failover orders route_candidates may return: some of the backends,
\* the best first, none twice.
CandidateLists ==
  {c \in UNION {[1..n -> Backends] : n \in 1..Cardinality(Backends)} :
     \A i, j \in DOMAIN c : c[i] = c[j] => i = j}

Backend(r) == Head(candidates[r])

Go(r, from, to) ==
  /\ process # "exited"
  /\ pc[r] = from
  /\ pc' = [pc EXCEPT ![r] = to]

Init ==
  /\ process = "up"
  /\ pc = [r \in Requests |-> "idle"]
  /\ permits = ValidationSlots
  /\ lookups = {}
  /\ Gate!Init
  /\ candidates = [r \in Requests |-> <<>>]
  /\ failover = [r \in Requests |-> FALSE]
  /\ received = [r \in Requests |-> {}]
  /\ usage = [r \in Requests |-> FALSE]
  /\ inflight = [b \in Backends |-> 0]
  /\ active = [b \in Backends |-> 0]
  /\ opened = [b \in Backends |-> 0]
  /\ Writer!Init

-----------------------------------------------------------------------------
(* Authentication: validate_client_key_bounded *)

\* A request without a key needs no permit; it is refused or passes.
Arrive(r) ==
  /\ process = "up"
  /\ Go(r, "idle", IF r \notin Keyless THEN "validating"
                   ELSE IF RequireApiKey THEN "done" ELSE "admission")
  /\ UNCHANGED <<process, permits, lookups, gateVars, candidates, failover, received,
                 usage, inflight, active, opened, writerVars>>

\* run_with_validation_slot: the permit moves into a detached task.
StartLookup(r) ==
  /\ permits > 0
  /\ Go(r, "validating", "looking")
  /\ permits' = permits - 1
  /\ lookups' = lookups \cup {r}
  /\ UNCHANGED <<process, gateVars, candidates, failover, received,
                 usage, inflight, active, opened, writerVars>>

\* The task ends and drops its permit; a handler still waiting for it goes on
\* with a valid key, or answers 401 or 500. The task outlives its client.
EndLookup(r) ==
  /\ process # "exited"
  /\ r \in lookups
  /\ lookups' = lookups \ {r}
  /\ permits' = permits + 1
  /\ IF pc[r] = "looking"
     THEN \E next \in {"admission", "done"} : pc' = [pc EXCEPT ![r] = next]
     ELSE UNCHANGED pc
  /\ UNCHANGED <<process, gateVars, candidates, failover, received,
                 usage, inflight, active, opened, writerVars>>

-----------------------------------------------------------------------------
(* Admission and routing *)

\* Fault: a request that found the gate full goes on when it is woken, whoever
\* has come in meanwhile.
AcquireUnchecked(r) ==
  /\ Go(r, "admission", "body")
  /\ Gate!Enter(r) \/ Gate!Move(r, "queued", "inside")
  /\ UNCHANGED <<process, permits, lookups, candidates, failover, received,
                 usage, inflight, active, opened, writerVars>>

\* fair_queue.acquire: at once, after waiting, or the start of a wait.
Acquire(r) ==
  /\ Go(r, "admission", "body")
  /\ Gate!Enter(r) \/ Gate!Admit(r)
  /\ UNCHANGED <<process, permits, lookups, candidates, failover, received,
                 usage, inflight, active, opened, writerVars>>

Wait(r) ==
  /\ process # "exited" /\ pc[r] = "admission"
  /\ Gate!Queue(r)
  /\ UNCHANGED <<process, pc, permits, lookups, candidates, failover, received,
                 usage, inflight, active, opened, writerVars>>

\* to_bytes, prepare_body, route_candidates: candidates to try ...
Route(r) ==
  /\ Go(r, "body", "attempt")
  /\ \E c \in CandidateLists : candidates' = [candidates EXCEPT ![r] = c]
  /\ UNCHANGED <<process, permits, lookups, gateVars, failover, received,
                 usage, inflight, active, opened, writerVars>>

\* ... or a body too large, unreadable or timed out, or no model to route to.
Refuse(r) ==
  /\ Go(r, "body", "slot")
  /\ UNCHANGED <<process, permits, lookups, gateVars, candidates, failover, received,
                 usage, inflight, active, opened, writerVars>>

-----------------------------------------------------------------------------
(* The candidate loop *)

\* begin_load, meter.begin and the call of client.execute. The first guard of
\* a meter begins a busy interval.
Attempt(r) ==
  /\ Go(r, "attempt", "sending")
  /\ inflight' = [inflight EXCEPT ![Backend(r)] = @ + 1]
  /\ active' = [active EXCEPT ![Backend(r)] = @ + 1]
  /\ opened' = [opened EXCEPT ![Backend(r)] = IF active[Backend(r)] = 0 THEN @ + 1 ELSE @]
  /\ UNCHANGED <<process, permits, lookups, gateVars, candidates, failover, received,
                 usage, writerVars>>

\* The upstream receives the request and may execute it from now on.
Deliver(r) ==
  /\ Go(r, "sending", "delivered")
  /\ received' = [received EXCEPT ![r] = @ \cup {Backend(r)}]
  /\ UNCHANGED <<process, permits, lookups, gateVars, candidates, failover,
                 usage, inflight, active, opened, writerVars>>

\* Fault: the next attempt starts without dropping the guards of this one.
ConnectFailsLeaking(r) ==
  /\ Go(r, "sending", IF Len(candidates[r]) > 1 THEN "attempt" ELSE "meter")
  /\ candidates' = [candidates EXCEPT ![r] = IF Len(@) > 1 THEN Tail(@) ELSE @]
  /\ UNCHANGED <<process, permits, lookups, gateVars, failover, received,
                 usage, inflight, active, opened, writerVars>>

\* e.is_connect: try the next candidate, if there is one.
ConnectFails(r) ==
  /\ Go(r, "sending", "meter")
  /\ failover' = [failover EXCEPT ![r] = Len(candidates[r]) > 1]
  /\ UNCHANGED <<process, permits, lookups, gateVars, candidates, received,
                 usage, inflight, active, opened, writerVars>>

\* Fault: a failure after delivery is retried as well.
RequestFailsRetrying(r) ==
  /\ Go(r, "sending", "meter") \/ Go(r, "delivered", "meter")
  /\ failover' = [failover EXCEPT ![r] = Len(candidates[r]) > 1]
  /\ UNCHANGED <<process, permits, lookups, gateVars, candidates, received,
                 usage, inflight, active, opened, writerVars>>

\* Any other error is answered with 502: a request that cannot be built, a
\* reset or a timeout, before or after the upstream got the request.
RequestFails(r) ==
  /\ Go(r, "sending", "meter") \/ Go(r, "delivered", "meter")
  /\ UNCHANGED <<process, permits, lookups, gateVars, candidates, failover, received,
                 usage, inflight, active, opened, writerVars>>

Respond(r) ==
  /\ Go(r, "delivered", "streaming")
  /\ UNCHANGED <<process, permits, lookups, gateVars, candidates, failover, received,
                 usage, inflight, active, opened, writerVars>>

-----------------------------------------------------------------------------
(* The response: line_accounting_stream and buffered_accounting_stream *)

\* A chunk completes a line that carries usage. (A buffered response is one
\* on which this never happens.)
SeeUsage(r) ==
  /\ process # "exited" /\ pc[r] = "streaming" /\ ~usage[r]
  /\ usage' = [usage EXCEPT ![r] = TRUE]
  /\ UNCHANGED <<process, pc, permits, lookups, gateVars, candidates, failover, received,
                 inflight, active, opened, writerVars>>

\* The client stops reading, and reads again. hyper polls the body only when
\* it has room for another frame, so the idle timeout of client_body_timeouts,
\* which is checked when the body is polled, ends nothing in between.
Stall(r) ==
  /\ Go(r, "streaming", "stalled")
  /\ UNCHANGED <<process, permits, lookups, gateVars, candidates, failover, received,
                 usage, inflight, active, opened, writerVars>>

Resume(r) ==
  /\ Go(r, "stalled", "streaming")
  /\ UNCHANGED <<process, permits, lookups, gateVars, candidates, failover, received,
                 usage, inflight, active, opened, writerVars>>

\* The upstream ends; the rest of the body, or a buffered body, may hold the
\* usage. Or it fails, or sends nothing until a timeout: hyper then drops the
\* body at the error, with the usage seen so far.
EndStream(r) ==
  /\ Go(r, "streaming", "usage")
  /\ \E found \in BOOLEAN : usage' = [usage EXCEPT ![r] = @ \/ found]
  /\ UNCHANGED <<process, permits, lookups, gateVars, candidates, failover, received,
                 inflight, active, opened, writerVars>>

-----------------------------------------------------------------------------
(* Guards are dropped in this order, whatever ended the request *)

\* UsageRecorder::drop, first half: record_usage.
DropRecorder(r) ==
  /\ Go(r, "usage", "meter")
  /\ IF usage[r]
     THEN Writer!Enqueue([kind |-> "usage", by |-> r, backend |-> Backend(r)])
     ELSE UNCHANGED writerVars
  /\ UNCHANGED <<process, permits, lookups, gateVars, candidates, failover, received,
                 usage, inflight, active, opened>>

\* Fault: the count is compared before it is decremented.
DropMeterOffByOne(r) ==
  /\ Go(r, "meter", IF active[Backend(r)] = 0 /\ Backend(r) \in Metered
                    THEN "energy" ELSE "load")
  /\ active' = [active EXCEPT ![Backend(r)] = @ - 1]
  /\ UNCHANGED <<process, permits, lookups, gateVars, candidates, failover, received,
                 usage, inflight, opened, writerVars>>

\* MeterGuard::drop; the last one of a metered backend owes an energy record.
DropMeter(r) ==
  /\ Go(r, "meter", IF active[Backend(r)] = 1 /\ Backend(r) \in Metered
                    THEN "energy" ELSE "load")
  /\ active' = [active EXCEPT ![Backend(r)] = @ - 1]
  /\ UNCHANGED <<process, permits, lookups, gateVars, candidates, failover, received,
                 usage, inflight, opened, writerVars>>

RecordEnergy(r) ==
  /\ Go(r, "energy", "load")
  /\ Writer!Enqueue([kind |-> "energy", by |-> r, backend |-> Backend(r)])
  /\ UNCHANGED <<process, permits, lookups, gateVars, candidates, failover, received,
                 usage, inflight, active, opened>>

\* LoadGuard::drop; after a failed connect, on to the next candidate.
DropLoad(r) ==
  /\ Go(r, "load", IF failover[r] THEN "attempt" ELSE "slot")
  /\ inflight' = [inflight EXCEPT ![Backend(r)] = @ - 1]
  /\ IF failover[r]
     THEN candidates' = [candidates EXCEPT ![r] = Tail(@)]
     ELSE UNCHANGED candidates
  /\ failover' = [failover EXCEPT ![r] = FALSE]
  /\ UNCHANGED <<process, permits, lookups, gateVars, received, usage, active, opened,
                 writerVars>>

\* Fault: the guard is disarmed, as after a refused send, and keeps its slot.
DropSlotDisarmed(r) ==
  /\ Go(r, "slot", "done")
  /\ UNCHANGED <<process, permits, lookups, gateVars, candidates, failover, received,
                 usage, inflight, active, opened, writerVars>>

\* FairQueueGuard::drop
DropSlot(r) ==
  /\ Go(r, "slot", "done")
  /\ Gate!Leave(r)
  /\ UNCHANGED <<process, permits, lookups, candidates, failover, received,
                 usage, inflight, active, opened, writerVars>>

\* Fault: the lookup's permit lives in the handler's future.
DisconnectFreeingPermit(r) ==
  /\ Go(r, "looking", "done")
  /\ permits' = permits + 1
  /\ UNCHANGED <<process, lookups, gateVars, candidates, failover, received,
                 usage, inflight, active, opened, writerVars>>

\* Fault: usage is recorded at the end of the stream, not on drop.
DisconnectUnrecorded(r) ==
  /\ Go(r, "streaming", "meter") \/ Go(r, "stalled", "meter")
  /\ UNCHANGED <<process, permits, lookups, gateVars, candidates, failover, received,
                 usage, inflight, active, opened, writerVars>>

\* The client goes away: hyper drops the handler's future, or the response
\* body, where it awaits. A lookup already started runs on.
Disconnect(r) ==
  /\ \/ /\ Go(r, "validating", "done") \/ Go(r, "looking", "done")
        /\ UNCHANGED gateVars
     \/ Go(r, "admission", "done") /\ Gate!Abandon(r)
     \/ Go(r, "body", "slot") /\ UNCHANGED gateVars
     \/ /\ Go(r, "sending", "meter") \/ Go(r, "delivered", "meter")
        /\ UNCHANGED gateVars
     \/ /\ Go(r, "streaming", "usage") \/ Go(r, "stalled", "usage")
        /\ UNCHANGED gateVars
  /\ UNCHANGED <<process, permits, lookups, candidates, failover, received,
                 usage, inflight, active, opened, writerVars>>

-----------------------------------------------------------------------------
(* The writer thread and shutdown *)

Write ==
  /\ process # "exited"
  /\ Writer!Write
  /\ UNCHANGED <<process, pc, permits, lookups, gateVars, candidates, failover, received,
                 usage, inflight, active, opened>>

\* shutdown_signal, then graceful_shutdown(None): no new requests.
ShutDown ==
  /\ process = "up"
  /\ process' = "stopping"
  /\ UNCHANGED <<pc, permits, lookups, gateVars, candidates, failover, received,
                 usage, inflight, active, opened, writerVars>>

\* serve returns once the connections are closed, then run and main; nobody
\* joins the writer thread.
Exit ==
  /\ process = "stopping"
  /\ \A r \in Requests : pc[r] \in {"idle", "done"}
  /\ process' = "exited"
  /\ UNCHANGED <<pc, permits, lookups, gateVars, candidates, failover, received,
                 usage, inflight, active, opened, writerVars>>

Exited == process = "exited" /\ UNCHANGED vars

Step(r) ==
  \/ StartLookup(r) \/ EndLookup(r) \/ Acquire(r) \/ Wait(r)
  \/ Route(r) \/ Refuse(r)
  \/ Attempt(r) \/ Deliver(r) \/ ConnectFails(r) \/ RequestFails(r) \/ Respond(r)
  \/ EndStream(r)
  \/ DropRecorder(r) \/ DropMeter(r) \/ RecordEnergy(r) \/ DropLoad(r) \/ DropSlot(r)

Next ==
  \/ \E r \in Requests :
       Arrive(r) \/ Step(r) \/ SeeUsage(r) \/ Stall(r) \/ Resume(r) \/ Disconnect(r)
  \/ Write \/ ShutDown \/ Exit \/ Exited

Spec == Init /\ [][Next]_vars

\* Lookups end, the gate admits when there is room (FairQueue.tla), the waits
\* for a request body and for the upstream are bounded by timeouts (a body that
\* is being read is polled, so its timeout runs), guards are dropped without
\* waiting, and the writer thread runs. Nothing forces a line, a signal, or a
\* client to read, to resume or to go away.
Fairness ==
  /\ \A r \in Requests : WF_vars(Step(r))
  /\ WF_vars(Write)
  /\ WF_vars(Exit)

FairSpec == Spec /\ Fairness

-----------------------------------------------------------------------------
(* Correctness *)

Stages == {"idle", "validating", "looking", "admission", "body", "attempt", "sending",
           "delivered", "streaming", "stalled", "usage", "meter", "energy", "load", "slot", "done"}

\* Every variable has its type.
TypeOK ==
  /\ process \in {"up", "stopping", "exited"}
  /\ pc \in [Requests -> Stages]
  /\ permits \in 0..ValidationSlots
  /\ lookups \subseteq Requests
  /\ place \in [Requests -> {"out", "queued", "inside"}]
  /\ candidates \in [Requests -> CandidateLists \cup {<<>>}]
  /\ failover \in [Requests -> BOOLEAN]
  /\ received \in [Requests -> SUBSET Backends]
  /\ usage \in [Requests -> BOOLEAN]
  /\ inflight \in [Backends -> Nat]
  /\ active \in [Backends -> Nat]
  /\ opened \in [Backends -> Nat]
  /\ Writer!TypeOK

\* Who holds which guard.
Upstream == {"sending", "delivered", "streaming", "stalled", "usage", "meter"}
HoldsMeter(b) == {r \in Requests : pc[r] \in Upstream /\ Backend(r) = b}
HoldsLoad(b) ==
  {r \in Requests : pc[r] \in Upstream \cup {"energy", "load"} /\ Backend(r) = b}

\* "An HTTP disconnect cannot release capacity while the lookup still runs":
\* permits and running lookups, abandoned ones included, make up the slots.
ValidationBounded ==
  /\ permits + Cardinality(lookups) = ValidationSlots
  /\ \A r \in lookups : pc[r] \in {"looking", "done"}

\* The routing counters are exactly the requests each backend is serving,
\* through failover, errors and disconnects.
LoadCounted ==
  \A b \in Backends : /\ inflight[b] = Cardinality(HoldsLoad(b))
                      /\ active[b] = Cardinality(HoldsMeter(b))

\* At most max_concurrency requests hold a backend's load guard at any moment:
\* the slot outlives every other guard of its request. (On a disconnect the
\* byte stream of the upstream is itself dropped after the guards.)
UpstreamBounded ==
  Cardinality(UNION {HoldsLoad(b) : b \in Backends}) <= Capacity

\* "Re-issuing cannot double-execute the completion": failover never makes
\* two backends receive the same request.
NeverDoubleExecuted == \A r \in Requests : Cardinality(received[r]) <= 1

\* Records handed to the writer and not forgotten.
Handed == Writer!Pending \cup Writer!Settled

\* Usage seen before the end or the disconnect is handed over exactly once,
\* and never for a request no backend received.
UsageRecorded ==
  /\ Writer!OneFate
  /\ \A r \in Requests :
       (\E b \in Backends : [kind |-> "usage", by |-> r, backend |-> b] \in Handed)
         <=> usage[r] /\ pc[r] \notin {"streaming", "stalled", "usage"}
  /\ \A rec \in Handed : rec.kind = "usage" => rec.backend \in received[rec.by]

\* The requests that have yet to hand over an energy record of a backend, and
\* those that have.
OwesEnergy(b) == {r \in Requests : pc[r] = "energy" /\ Backend(r) = b}
HasBilled(b) ==
  {r \in Requests : [kind |-> "energy", by |-> r, backend |-> b] \in Handed}

\* Each busy interval of a metered backend is billed exactly once: the intervals
\* begun are the one still open, those about to be recorded and those handed
\* over, however the requests overlap, and also when an interval is nothing but
\* a failed connect on the way to the next candidate.
EnergyRecorded ==
  \A b \in Metered :
    opened[b] = (IF active[b] > 0 THEN 1 ELSE 0)
                + Cardinality(OwesEnergy(b)) + Cardinality(HasBilled(b))

\* Every request ends and leaves the gate, whoever fails around it.
RequestsEnd ==
  \A r \in Requests : pc[r] # "idle" ~> pc[r] = "done" /\ place[r] = "out"

\* Shutdown waits for the requests, not for ever.
ShutdownCompletes == process = "stopping" ~> process = "exited"

\* No client leaves a response unread for ever, or again and again.
ClientsRead == \A r \in Requests : <>[](pc[r] # "stalled")

\* As long as the clients read what they are sent or go away, nothing hangs:
\* requests give everything back and shutdown, which has no deadline, gets to
\* its end (proxy_handler, graceful_shutdown).
EverythingEnds == ClientsRead => RequestsEnd /\ ShutdownCompletes

\* A record that was accepted reaches the database, or fails there, as long
\* as the process runs.
RecordsSettle ==
  \A rec \in Records : rec \in Writer!Pending ~> rec \in Writer!Settled \/ process = "exited"

\* What the log line of shutdown_signal announces: "draining requests and
\* usage writes".
ShutdownDrains ==
  process = "exited" => \A rec \in Writer!Pending : rec.kind # "usage"

\* What CLIENT_IO_TIMEOUT is documented to be: the "maximum idle interval while
\* a client [...] consumes response data", so that "abandoned connections
\* eventually stop retaining admission slots".
StalledClientsEnd == \A r \in Requests : pc[r] = "stalled" ~> place[r] = "out"
=============================================================================
