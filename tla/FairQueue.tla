----------------------------- MODULE FairQueue -----------------------------
(***************************************************************************)
(* The admission queue of the proxy: crates/twl-server/src/fair_queue.rs.  *)
(*                                                                         *)
(* A request is a task that calls acquire, keeps the FairQueueGuard while  *)
(* it is served, and drops it; the task may be cancelled (its client went  *)
(* away) at the only await of acquire. What is not under the queue's mutex *)
(* is the oneshot channel between a waiter and its admitter: a waiter can  *)
(* close its receiver in the middle of somebody else's admit_waiters loop. *)
(* A waiter's sequence number is its place in the deque, which is always   *)
(* in ascending sequence order (2^64 arrivals do not happen).              *)
(***************************************************************************)
EXTENDS Integers, Sequences, FiniteSets, SequencesExt

CONSTANTS
  Requests,   \* request tasks; a finished one is reused for a new request
  Users,      \* user identities; all anonymous traffic is one of them
  UserOf,     \* the user of each request
  Capacity,   \* max_concurrency
  Enabled,    \* fair_queue.enabled
  Window,     \* the rolling window, in clock ticks
  MaxGrants,  \* bound: a user with this many admissions in the window rests
  Free        \* the mutex is not held

ASSUME FairQueueAssumption ==
  /\ IsFiniteSet(Requests)
  /\ UserOf \in [Requests -> Users]
  /\ Capacity \in Nat \ {0}
  /\ Enabled \in BOOLEAN
  /\ Window \in Nat \ {0}
  /\ MaxGrants \in Nat
  /\ Free \notin Requests

VARIABLES
  pc,         \* where each request task is, see Stages
  lock,       \* the task inside the mutex of a running release, or Free
  in_flight,  \* Inner.in_flight
  waiters,    \* Inner.waiters: requests in arrival order
  grants,     \* Inner.grants: per user, the ages of the recorded admissions
  recent      \* history: the true ages of a user's admissions in the window

vars == <<pc, lock, in_flight, waiters, grants, recent>>

(***************************************************************************)
(* idle         no request, or it finished                                 *)
(* waiting      suspended at receiver.await, channel empty                 *)
(* granted      suspended at receiver.await, a guard is in the channel     *)
(* holding      acquire returned, the task owns a guard                    *)
(* leaving      its guard's drop runs release, inside the mutex            *)
(* discarding   cancelled when granted: the guard found in the channel     *)
(*              has to be dropped before the registration                  *)
(* withdrawing  ... and is being released, inside the mutex                *)
(* closed       cancelled: receiver closed, registration not yet dropped   *)
(***************************************************************************)
Stages == {"idle", "waiting", "granted", "holding", "leaving",
           "discarding", "withdrawing", "closed"}

\* The tasks for which a live (armed) FairQueueGuard exists.
Guards == {r \in Requests : pc[r] \in {"granted", "holding", "discarding"}}

-----------------------------------------------------------------------------
(* Rolling-window bookkeeping *)

\* How many entries prune pops from the front of one user's deque: it stops
\* at the first one still in the window.
Expired(ages) ==
  CHOOSE n \in 0..Len(ages) : /\ \A i \in 1..n : ages[i] >= Window
                              /\ n < Len(ages) => ages[n + 1] < Window

Prune(ages) == SubSeq(ages, Expired(ages) + 1, Len(ages))

PruneAll == [u \in Users |-> Prune(grants[u])]

\* record_grant: prune everybody, then note an admission made just now.
Recorded(u) ==
  IF Enabled THEN [PruneAll EXCEPT ![u] = Append(@, 0)] ELSE grants

Noted(u) == IF Enabled THEN [recent EXCEPT ![u] = Append(@, 0)] ELSE recent

\* Time passes: every age grows; Window stands for "Window or more".
Older(ages) == [i \in DOMAIN ages |-> IF ages[i] < Window THEN ages[i] + 1 ELSE Window]

\* History only: what is left of a user's admissions, oldest first, once the
\* ones that have left the window are taken away.
StillRecent(ages) ==
  SubSeq(ages, 1 + Cardinality({i \in DOMAIN ages : ages[i] >= Window}), Len(ages))

-----------------------------------------------------------------------------
Init ==
  /\ pc = [r \in Requests |-> "idle"]
  /\ lock = Free
  /\ in_flight = 0
  /\ waiters = <<>>
  /\ grants = [u \in Users |-> <<>>]
  /\ recent = [u \in Users |-> <<>>]

\* Bound on the model: no arrival of a user with MaxGrants admissions in the window.
MayArrive(r) == pc[r] = "idle" /\ Len(recent[UserOf[r]]) < MaxGrants

HasRoom == in_flight < Capacity

\* acquire, first branch: a slot is free and nobody is queued.
AcquireNow(r) ==
  /\ MayArrive(r)
  /\ lock = Free
  /\ HasRoom /\ waiters = <<>>
  /\ in_flight' = in_flight + 1
  /\ pc' = [pc EXCEPT ![r] = "holding"]
  /\ grants' = Recorded(UserOf[r])
  /\ recent' = Noted(UserOf[r])
  /\ UNCHANGED <<lock, waiters>>

\* acquire, second branch: queue up and wait for the channel.
Enqueue(r) ==
  /\ MayArrive(r)
  /\ lock = Free
  /\ ~(HasRoom /\ waiters = <<>>)
  /\ waiters' = Append(waiters, r)
  /\ pc' = [pc EXCEPT ![r] = "waiting"]
  /\ UNCHANGED <<lock, in_flight, grants, recent>>

\* The task is polled, takes the guard from the channel and disarms its
\* registration.
Receive(r) ==
  /\ pc[r] = "granted"
  /\ pc' = [pc EXCEPT ![r] = "holding"]
  /\ UNCHANGED <<lock, in_flight, waiters, grants, recent>>

\* The task is dropped at receiver.await. The receiver goes first: it closes
\* the channel and, if a guard was already sent, finds itself dropping it.
Cancel(r) ==
  /\ \/ pc[r] = "waiting" /\ pc' = [pc EXCEPT ![r] = "closed"]
     \/ pc[r] = "granted" /\ pc' = [pc EXCEPT ![r] = "discarding"]
  /\ UNCHANGED <<lock, in_flight, waiters, grants, recent>>

\* Fault: the registration pops the front waiter instead of its own.
DeregisterFront(r) ==
  /\ pc[r] = "closed"
  /\ lock = Free
  /\ waiters' = IF waiters = <<>> THEN waiters ELSE Tail(waiters)
  /\ pc' = [pc EXCEPT ![r] = "idle"]
  /\ UNCHANGED <<lock, in_flight, grants, recent>>

\* WaiterRegistration::drop: remove the waiter if it is still queued.
Deregister(r) ==
  /\ pc[r] = "closed"
  /\ lock = Free
  /\ waiters' = RemoveFirst(waiters, r)
  /\ pc' = [pc EXCEPT ![r] = "idle"]
  /\ UNCHANGED <<lock, in_flight, grants, recent>>

\* FairQueueGuard::drop -> release, up to the admit_waiters loop.
Release(r) ==
  /\ lock = Free
  /\ \/ pc[r] = "holding" /\ pc' = [pc EXCEPT ![r] = "leaving"]
     \/ pc[r] = "discarding" /\ pc' = [pc EXCEPT ![r] = "withdrawing"]
  /\ lock' = r
  /\ in_flight' = in_flight - 1
  /\ UNCHANGED <<waiters, grants, recent>>

\* The loop condition of admit_waiters.
MoreToAdmit == HasRoom /\ waiters # <<>>

\* Fault: usage counted without pruning what left the window.
SelectedUnpruned ==
  IF Enabled
  THEN LET usage(i) == Len(grants[UserOf[waiters[i]]])
       IN  CHOOSE i \in 1..Len(waiters) : \A j \in 1..Len(waiters) :
             usage(i) < usage(j) \/ (usage(i) = usage(j) /\ i <= j)
  ELSE 1

\* The deque index admit_waiters removes: the fewest admissions in the
\* window, the earliest arrival among equals.
Selected ==
  IF Enabled
  THEN LET usage(i) == Len(Prune(grants[UserOf[waiters[i]]]))
       IN  CHOOSE i \in 1..Len(waiters) : \A j \in 1..Len(waiters) :
             usage(i) < usage(j) \/ (usage(i) = usage(j) /\ i <= j)
  ELSE 1

\* An iteration of admit_waiters whose send succeeds.
AdmitWaiter(r) ==
  /\ lock = r /\ MoreToAdmit
  /\ LET w == waiters[Selected]
     IN  /\ pc[w] = "waiting"
         /\ pc' = [pc EXCEPT ![w] = "granted"]
         /\ grants' = Recorded(UserOf[w])
         /\ recent' = Noted(UserOf[w])
  /\ waiters' = RemoveAt(waiters, Selected)
  /\ in_flight' = in_flight + 1
  /\ UNCHANGED lock

\* Fault: the refused guard's slot is not given back.
SkipClosedLeak(r) ==
  /\ lock = r /\ MoreToAdmit
  /\ pc[waiters[Selected]] # "waiting"
  /\ waiters' = RemoveAt(waiters, Selected)
  /\ in_flight' = in_flight + 1
  /\ grants' = IF Enabled THEN PruneAll ELSE grants
  /\ UNCHANGED <<pc, lock, recent>>

\* Fault: the entry of the closed waiter stays in the deque.
SkipClosedKept(r) ==
  /\ lock = r /\ MoreToAdmit
  /\ pc[waiters[Selected]] # "waiting"
  /\ grants' = IF Enabled THEN PruneAll ELSE grants
  /\ UNCHANGED <<pc, lock, in_flight, waiters, recent>>

\* An iteration that finds the receiver closed: the guard that came back is
\* disarmed, the slot returned by hand, the sender dropped.
SkipClosed(r) ==
  /\ lock = r /\ MoreToAdmit
  /\ pc[waiters[Selected]] # "waiting"
  /\ waiters' = RemoveAt(waiters, Selected)
  /\ grants' = IF Enabled THEN PruneAll ELSE grants
  /\ UNCHANGED <<pc, lock, in_flight, recent>>

\* Fault: admit_waiters makes one attempt instead of looping.
FinishReleaseEarly(r) ==
  /\ lock = r
  /\ lock' = Free
  /\ pc' = [pc EXCEPT ![r] = IF @ = "leaving" THEN "idle" ELSE "closed"]
  /\ UNCHANGED <<in_flight, waiters, grants, recent>>

\* The loop ends and the mutex is unlocked.
FinishRelease(r) ==
  /\ lock = r /\ ~MoreToAdmit
  /\ lock' = Free
  /\ pc' = [pc EXCEPT ![r] = IF @ = "leaving" THEN "idle" ELSE "closed"]
  /\ UNCHANGED <<in_flight, waiters, grants, recent>>

Tick ==
  /\ \E u \in Users : recent[u] # <<>>
  /\ grants' = [u \in Users |-> Older(grants[u])]
  /\ recent' = [u \in Users |-> StillRecent(Older(recent[u]))]
  /\ UNCHANGED <<pc, lock, in_flight, waiters>>

InRelease(r) == AdmitWaiter(r) \/ SkipClosed(r) \/ FinishRelease(r)

Next ==
  \/ \E r \in Requests :
       AcquireNow(r) \/ Enqueue(r) \/ Receive(r) \/ Cancel(r)
         \/ Deregister(r) \/ Release(r) \/ InRelease(r)
  \/ Tick

Spec == Init /\ [][Next]_vars

(***************************************************************************)
(* Clients arrive and give up when they like. A task that was woken is     *)
(* polled; drops run to their end; an admitted request ends (the proxy's   *)
(* I/O timeouts see to that); the clock ticks.                             *)
(***************************************************************************)
Fairness ==
  /\ \A r \in Requests : /\ WF_vars(Receive(r)) /\ WF_vars(Deregister(r))
                         /\ WF_vars(Release(r)) /\ WF_vars(InRelease(r))
  /\ WF_vars(Tick)

FairSpec == Spec /\ Fairness

-----------------------------------------------------------------------------
(* Correctness *)

\* Every variable has its type; ages never exceed the window.
TypeOK ==
  /\ pc \in [Requests -> Stages]
  /\ lock \in Requests \cup {Free}
  /\ in_flight \in Nat
  /\ waiters \in Seq(Requests)
  /\ grants \in [Users -> Seq(0..Window)]
  /\ recent \in [Users -> Seq(0..Window)]

\* The slot counter is the number of guards alive, wherever they are: owned by
\* a task, in a channel nobody has polled yet, or in one that was closed with
\* the guard inside. It never exceeds the capacity, so the assertion in
\* release cannot fail and no cancellation leaks or duplicates a slot.
SlotAccounting ==
  /\ in_flight = Cardinality(Guards)
  /\ in_flight <= Capacity

\* Outside the mutex nobody is queued while a slot is free: a cancellation
\* that does not run admit_waiters never leaves a slot idle.
WorkConserving == lock = Free => waiters = <<>> \/ in_flight = Capacity

\* The comment on the unreachable! in acquire: a live waiter's sender is in
\* the deque until a guard is sent, once, and the deque holds no entry of a
\* request that is not waiting or about to deregister.
SendersAlive ==
  /\ \A r \in Requests : pc[r] = "waiting" => Contains(waiters, r)
  /\ \A i \in 1..Len(waiters) : pc[waiters[i]] \in {"waiting", "closed"}
  /\ \A i, j \in 1..Len(waiters) : waiters[i] = waiters[j] => i = j

\* Only the task that runs release is inside the mutex across steps.
MutexOwner ==
  /\ lock # Free => pc[lock] \in {"leaving", "withdrawing"}
  /\ \A r \in Requests : pc[r] \in {"leaving", "withdrawing"} => lock = r

\* The inductive invariant: slots, queue and mutex agree with where the tasks are.
QueueInv == TypeOK /\ MutexOwner /\ SlotAccounting /\ WorkConserving /\ SendersAlive

\* Whoever is let in from the queue has, among the waiters still there, the
\* fewest true admissions in the rolling window and arrived first among
\* equals; with fairness off it is simply the first.
FairSelection ==
  [][\A i \in 1..Len(waiters) :
       (pc[waiters[i]] = "waiting" /\ pc'[waiters[i]] = "granted") =>
         \A j \in 1..Len(waiters) \ {i} :
           pc[waiters[j]] = "waiting" =>
             LET n(k) == Len(recent[UserOf[waiters[k]]])
             IN  n(i) < n(j) \/ (n(i) = n(j) /\ i < j)]_vars

\* What a request outside the queue sees of its place.
Place == [r \in Requests |->
            CASE pc[r] \in {"idle", "leaving", "withdrawing", "closed"} -> "out"
              [] pc[r] = "waiting" -> "queued"
              [] OTHER -> "inside"]

Gate == INSTANCE Admission WITH place <- Place

\* The queue implements the abstract gate, starvation freedom included.
ImplementsAdmission == Gate!FairSpec
=============================================================================
