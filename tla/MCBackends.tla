----------------------------- MODULE MCBackends -----------------------------
(***************************************************************************)
(* The backend registry in a small instance: two watchdogs over a catalog  *)
(* of three models, or three requests for one model with three candidates. *)
(* load_balancing in the configuration decides which of the two the order  *)
(* of candidates depends on: the rotation counters, which live in the      *)
(* catalog, or the backends' load.                                         *)
(***************************************************************************)
EXTENDS Placement, ModelCatalog, TLC

CONSTANTS m1, m2, m3, p

ASSUME LoadAssumption == PlacementAssumption

MCScore == (p :> <<2, 3, 1>>)

Entry(m, raw) == [id |-> m, raw |-> raw]

\* m3 is hidden by the filter of backend 1; the last list repeats an id.
MCListings == {<<Entry(m1, "old"), Entry(m2, "old")>>,
               <<Entry(m2, "new"), Entry(m3, "old"), Entry(m2, "old")>>}
MCStatic == <<<<Entry(m1, "static"), Entry(m3, "static")>>, <<Entry(m1, "static")>>>>
MCFilter == <<{m1, m2}, {m1, m2, m3}>>
MCKind == <<{}, {m2}>>
MCModels == {m1, m2, m3}

VARIABLE balance  \* "rotation" or "load"

ASSUME WatchedAssumption == CatalogAssumption

BackendsInit ==
  /\ balance \in {"rotation", "load"}
  /\ Init /\ CatalogInit
  /\ balance = "load" => \A b \in Polled : upstream[b] = None

BackendsNext ==
  /\ UNCHANGED balance
  /\ \/ balance = "rotation" /\ CatalogNext /\ UNCHANGED vars
     \/ balance = "load" /\ Next /\ UNCHANGED catalogVars

\* Every watchdog is a loop the runtime schedules; poll_once always ends.
BackendsSpec ==
  /\ BackendsInit
  /\ [][BackendsNext]_<<vars, balance, catalogVars>>
  /\ \A b \in Polled : WF_catalogVars(balance = "rotation" /\ Task(b))

\* When the upstreams stop changing the catalog comes to show the ids they
\* publish, and nothing for one that is away, after any number of lost polls
\* and outages in between (watchdog.rs).
CatalogComesToAgree == balance = "rotation" => CatalogSettles
=============================================================================
