---------------------------- MODULE ModelCatalog ----------------------------
(***************************************************************************)
(* The model catalog of crates/twl-backends/src/lib.rs and the tasks of    *)
(* crates/twl-server/src/watchdog.rs that keep it up to date.              *)
(*                                                                         *)
(* One task per polled backend asks the upstream for its models, compares  *)
(* the ids with the ones it saw last, and replaces the backend's part of   *)
(* the shared catalog by read-copy-update: load the catalog, build a new   *)
(* one, install it if the loaded one is still the current one, else again. *)
(* Requests route on the catalog at any moment. Upstreams are external:    *)
(* they change their lists, go away, and answer late.                      *)
(***************************************************************************)
EXTENDS Integers, Sequences, FiniteSets, SequencesExt

CONSTANTS
  Size,       \* number of backends, numbered 1..Size in configuration order
  Models,     \* model ids
  Raws,       \* the rest of a model's JSON object; "override" is one whose
              \* type model_types has set
  Listings,   \* the lists an upstream may publish: sequences of [id, raw]
  Static,     \* per backend, the configured models as such a sequence
  Polled,     \* the backends with models_poll_secs
  Filter,     \* per backend, the ids its model_filter allows
  Kind,       \* per backend, model_types: the ids whose type is overridden
  FlatPassthrough, \* routing_mode = RoutingMode::FlatPassthrough
  Wrap,       \* the rotation counter counts modulo this: 2^32 in the code
  MaxFaults   \* bound on upstream changes and polls lost

Backends == 1..Size

\* A model, by its id and the rest of its JSON object.
CatalogEntry == [id : Models, raw : Raws]

\* What the configuration gives, and what parses as a list of models.
CatalogAssumption ==
  /\ Size \in Nat \ {0} /\ Polled \subseteq Backends
  /\ Static \in [Backends -> Seq(CatalogEntry)] /\ Listings \subseteq Seq(CatalogEntry)
  /\ "override" \in Raws
  /\ FlatPassthrough => Size = 1
  /\ Wrap \in Nat \ {0} /\ MaxFaults \in Nat

VARIABLES
  catalog,   \* [entries: per backend a sequence of [id, raw],
             \*  routing: model id -> sequence of candidate backends]
  rotation,  \* the AtomicU32 of each routable model
  task,      \* per backend, the watchdog task
  upstream,  \* external: what each backend would answer, None for nothing
  faults,    \* counts changes of upstreams and lost polls
  placed     \* history: for each model, the last round-robin placement as
             \* <<candidates, first>>, <<>> if none since it became routable

catalogVars == <<catalog, rotation, task, upstream, faults, placed>>

None == <<>>  \* Option: no last_ids yet; of an answer: unreachable, a
              \* non-2xx status, or a body that does not parse
Some(x) == <<x>>

\* What an upstream may answer.
Answers == {None} \cup {Some(list) : list \in Listings}

Ids(list) == [i \in DOMAIN list |-> list[i].id]

-----------------------------------------------------------------------------
(* Building a catalog.                                                     *)

\* apply_type_override: the configured kind wins over the upstream's.
ApplyTypeOverride(b, e) == IF e.id \in Kind[b] THEN [e EXCEPT !.raw = "override"] ELSE e

\* filter and retain: what is at the positions that stay, in its order.
Retain(list, stay) ==
  [n \in 1..Cardinality(stay) |->
     list[CHOOSE i \in stay : Cardinality({j \in stay : j < i}) = n - 1]]

\* deduplicate_backend_entries: the first entry of each id stays.
Deduplicate(list) ==
  Retain(list, {i \in DOMAIN list : \A j \in 1..(i - 1) : list[j].id # list[i].id})

\* The entries of backend b for a list: model_allowed, override, deduplicate.
BackendEntries(b, list) ==
  LET allowed == Retain(list, {i \in DOMAIN list : list[i].id \in Filter[b]})
  IN  Deduplicate([i \in DOMAIN allowed |-> ApplyTypeOverride(b, allowed[i])])

Lists(entries, b, m) == \E i \in DOMAIN entries[b] : entries[b][i].id = m

\* build_routing for one model: backends in order, each appended to the
\* candidates at its first entry and, being the last of them, not again.
CandidatesOf(entries, m) ==
  LET upto[b \in 0..Size] ==
        IF b = 0 THEN <<>>
        ELSE IF Lists(entries, b, m) THEN Append(upto[b - 1], b) ELSE upto[b - 1]
  IN  upto[Size]

\* build_routing
BuildRouting(entries) ==
  [m \in {x \in Models : \E b \in Backends : Lists(entries, b, x)} |-> CandidatesOf(entries, m)]

\* A catalog whose part for backend b is new.
WithBackend(cat, b, new) ==
  LET entries == [cat.entries EXCEPT ![b] = new]
  IN  [entries |-> entries, routing |-> BuildRouting(entries)]

\* Fault: a rebuild starts every rotation again.
CarryReset(routing) == [m \in DOMAIN routing |-> 0]

\* The counters after a rebuild: shared for the models that remain.
Carry(routing) ==
  [m \in DOMAIN routing |-> IF m \in DOMAIN rotation THEN rotation[m] ELSE 0]

\* model_entries: every listed model once, from the first backend listing it.
ModelEntries(cat) ==
  Deduplicate(FlattenSeq([b \in Backends |-> cat.entries[b]]))

Asleep(last) == [pc |-> "asleep", last |-> last]

\* BackendRegistry::new seeds the catalog from the configured models.
CatalogInit ==
  /\ LET entries == [b \in Backends |-> BackendEntries(b, Static[b])]
     IN  catalog = [entries |-> entries, routing |-> BuildRouting(entries)]
  /\ rotation = [m \in DOMAIN catalog.routing |-> 0]
  /\ task = [b \in Polled |-> Asleep(None)]
  /\ upstream \in [Polled -> Answers]
  /\ faults = 0
  /\ placed = [m \in DOMAIN catalog.routing |-> <<>>]

-----------------------------------------------------------------------------
(* The watchdog task of backend b.                                         *)

\* The sleep is over: poll_once sends its request.
Poll(b) ==
  /\ task[b].pc = "asleep"
  /\ task' = [task EXCEPT ![b] = [pc |-> "polling", last |-> @.last]]
  /\ UNCHANGED <<catalog, rotation, upstream, faults, placed>>

\* poll_once returns what the upstream lists at that moment, or None.
Answer(b) ==
  /\ task[b].pc = "polling"
  /\ task' = [task EXCEPT ![b] = [pc |-> "answered", last |-> @.last, answer |-> upstream[b]]]
  /\ UNCHANGED <<catalog, rotation, upstream, faults, placed>>

\* The ten seconds of poll_once are over, or the connection breaks.
Timeout(b) ==
  /\ task[b].pc = "polling" /\ faults < MaxFaults
  /\ task' = [task EXCEPT ![b] = [pc |-> "answered", last |-> @.last, answer |-> None]]
  /\ faults' = faults + 1
  /\ UNCHANGED <<catalog, rotation, upstream, placed>>

\* The entries an answer stands for: an unreachable backend has none.
ListOf(answer) == IF answer = None THEN <<>> ELSE answer[1]

\* Fault: an unreachable backend keeps its models.
DecideKeeping(b) ==
  /\ task[b].pc = "answered"
  /\ LET new == ListOf(task[b].answer)
     IN  task' = [task EXCEPT ![b] =
           IF task[b].answer = None \/ task[b].last = Some(Ids(new)) THEN Asleep(@.last)
           ELSE [pc |-> "building", last |-> Some(Ids(new)),
                 new |-> BackendEntries(b, new), seen |-> catalog]]
  /\ UNCHANGED <<catalog, rotation, upstream, faults, placed>>

\* Unchanged ids end the round; else set_backend_models filters the entries
\* and rcu loads the catalog. last_ids is the task's own, set before or after.
Decide(b) ==
  /\ task[b].pc = "answered"
  /\ LET new == ListOf(task[b].answer)
     IN  task' = [task EXCEPT ![b] =
           IF task[b].last = Some(Ids(new)) THEN Asleep(@.last)
           ELSE [pc |-> "building", last |-> Some(Ids(new)),
                 new |-> BackendEntries(b, new), seen |-> catalog]]
  /\ UNCHANGED <<catalog, rotation, upstream, faults, placed>>

Install(cat) ==
  /\ catalog' = cat
  /\ rotation' = Carry(cat.routing)
  /\ placed' = [m \in DOMAIN cat.routing |-> IF m \in DOMAIN placed THEN placed[m] ELSE <<>>]

\* Fault: load, build and store, without the compare of rcu.
SwapBlindly(b) ==
  /\ task[b].pc = "building"
  /\ Install(WithBackend(task[b].seen, b, task[b].new))
  /\ task' = [task EXCEPT ![b] = Asleep(@.last)]
  /\ UNCHANGED <<upstream, faults>>

\* ArcSwap::rcu: the closure's catalog is installed if the one it was built
\* from is still the current one; else it runs again on the current one.
Swap(b) ==
  /\ task[b].pc = "building"
  /\ IF task[b].seen = catalog
       THEN /\ Install(WithBackend(task[b].seen, b, task[b].new))
            /\ task' = [task EXCEPT ![b] = Asleep(@.last)]
       ELSE /\ task' = [task EXCEPT ![b].seen = catalog]
            /\ UNCHANGED <<catalog, rotation, placed>>
  /\ UNCHANGED <<upstream, faults>>

-----------------------------------------------------------------------------

\* External: the upstream lists other models, goes away or comes back.
Deploy(b, answer) ==
  /\ faults < MaxFaults /\ upstream[b] # answer
  /\ upstream' = [upstream EXCEPT ![b] = answer]
  /\ faults' = faults + 1
  /\ UNCHANGED <<catalog, rotation, task, placed>>

\* route_candidates: <<>> for UnknownModel (MissingModel never gets here).
RouteCandidates(m) ==
  IF m \in DOMAIN catalog.routing THEN catalog.routing[m]
  ELSE IF FlatPassthrough THEN <<1>> ELSE <<>>

\* strategy_placement of RoundRobin for a model with several candidates:
\* fetch_add, then rotate_left.
RouteRoundRobin(m) ==
  /\ m \in DOMAIN catalog.routing /\ Len(RouteCandidates(m)) > 1
  /\ LET cands == RouteCandidates(m)
         pos == rotation[m] % Len(cands)
     IN  placed' = [placed EXCEPT ![m] = <<cands, cands[pos + 1]>>]
  /\ rotation' = [rotation EXCEPT ![m] = (@ + 1) % Wrap]
  /\ UNCHANGED <<catalog, task, upstream, faults>>

Task(b) == Poll(b) \/ Answer(b) \/ Decide(b) \/ Swap(b)

CatalogNext ==
  \/ \E b \in Polled :
       \/ Task(b) \/ Timeout(b)
       \/ \E answer \in Answers : Deploy(b, answer)
  \/ \E m \in Models : RouteRoundRobin(m)

CatalogSpec == CatalogInit /\ [][CatalogNext]_catalogVars

-----------------------------------------------------------------------------

\* A model is routable exactly to the backends that list and may serve it,
\* each once and in configuration order, the models of /v1/models are the
\* routable ones, each once, and each has its rotation counter.
RoutingAgrees ==
  LET shown == Ids(ModelEntries(catalog))
  IN  /\ \A m \in Models :
           LET cands == IF m \in DOMAIN catalog.routing THEN catalog.routing[m] ELSE <<>>
           IN  /\ ToSet(cands) = {b \in Backends : Lists(catalog.entries, b, m) /\ m \in Filter[b]}
               /\ \A i, j \in DOMAIN cands : i < j => cands[i] < cands[j]
               /\ (cands # <<>>) = (m \in ToSet(shown))
      /\ IsInjective(shown)
      /\ DOMAIN rotation = DOMAIN catalog.routing

\* What a task between two updates believes its backend to list is what the
\* catalog holds for it: no update of one watchdog is undone by another's
\* (set_backend_models: "concurrent watchdog updates cannot lose one another").
NoUpdateLost ==
  \A b \in Polled :
    task[b].pc # "building" =>
      LET believed == IF task[b].last = None THEN Ids(Static[b]) ELSE task[b].last[1]
      IN  ToSet(Ids(catalog.entries[b])) = ToSet(believed) \cap Filter[b]

\* Every update is in the catalog, and in its entries and its routing alike
\* (set_backend_models, build_routing).
UpdatesKept == NoUpdateLost /\ RoutingAgrees

\* Round robin goes on over rebuilds: while a model's candidates stay the
\* same two placements in a row start at different backends (RoutingEntry's
\* shared rotation). Where the counter has come round to zero this needs their
\* number to divide its range.
RotationAdvances ==
  [][\A m \in Models :
       /\ RouteRoundRobin(m) /\ placed[m] # <<>> /\ placed'[m][1] = placed[m][1]
       /\ rotation[m] = 0 => Wrap % Len(placed[m][1]) = 0
       => placed'[m][2] # placed[m][2]]_catalogVars

\* When the upstreams stop changing the catalog comes to show the ids they
\* publish, and nothing for one that is away, after any number of lost polls
\* and outages in between.
CatalogSettles ==
  \A b \in Polled :
    <>[](Ids(catalog.entries[b]) = Ids(BackendEntries(b, ListOf(upstream[b]))))
=============================================================================
