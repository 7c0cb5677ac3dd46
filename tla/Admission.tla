----------------------------- MODULE Admission -----------------------------
(***************************************************************************)
(* What the admission gate of the proxy promises, without saying how: at   *)
(* most Capacity requests are inside, a request queues only while every    *)
(* slot is taken, and a queued request that does not give up gets in.      *)
(* FairQueue.tla is the code's queue, shown to implement this.             *)
(***************************************************************************)
EXTENDS Naturals, FiniteSets

CONSTANTS
  Requests,   \* proxy requests that pass the gate, over and over
  Capacity    \* concurrent slots

VARIABLE place   \* where each request is: "out", "queued" or "inside"

Inside == {r \in Requests : place[r] = "inside"}

Move(r, from, to) ==
  /\ place[r] = from
  /\ place' = [place EXCEPT ![r] = to]

Init == place = [r \in Requests |-> "out"]

\* A request walks straight in while there is room.
Enter(r) == Cardinality(Inside) < Capacity /\ Move(r, "out", "inside")

\* It waits only when all slots are taken.
Queue(r) == Cardinality(Inside) = Capacity /\ Move(r, "out", "queued")

Admit(r) == Cardinality(Inside) < Capacity /\ Move(r, "queued", "inside")

Abandon(r) == Move(r, "queued", "out")

Leave(r) == Move(r, "inside", "out")

Next ==
  \E r \in Requests : Enter(r) \/ Queue(r) \/ Admit(r) \/ Abandon(r) \/ Leave(r)

Spec == Init /\ [][Next]_place

\* No queued request waits for ever: it is let in or gives up.
NobodyStarves == \A r \in Requests : place[r] = "queued" ~> place[r] # "queued"

FairSpec == Spec /\ NobodyStarves
=============================================================================
