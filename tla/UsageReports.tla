---------------------------- MODULE UsageReports ----------------------------
(***************************************************************************)
(* Reports over the usage tables and their retention:                      *)
(* crates/twl-store/src/usage.rs (queries and pruning),                    *)
(* crates/twl-server/src/routes.rs (dashboard, today, yesterday),          *)
(* crates/twl-server/src/metrics.rs,                                       *)
(* crates/twl-server/src/localtime.rs and retention.rs.                    *)
(*                                                                         *)
(* A response is made of several queries, each on its own snapshot of the  *)
(* database; records arrive, rows are pruned, accounts are deleted and     *)
(* midnight passes between them. The counters of a group are the sums over *)
(* its rows, so a group is modelled as the set of its rows' ids. Time is   *)
(* in hours of a short day, a five-minute bucket is one hour, and the time *)
(* zone tells the local date and hour of every instant.                    *)
(***************************************************************************)
EXTENDS Integers, FiniteSets, FiniteSetsExt, Sequences

CONSTANTS
  Users, Admins,   \* accounts, and those that are administrators
  Owner,           \* API key |-> the account that created it
  NoKey, NoUser,   \* an unauthenticated call, a viewer without login
  Models,
  Hosts,           \* where the server runs: [zone, public_usage, metrics_token,
                   \* retention], the last in hours, 0 without pruning; a time
                   \* zone is a sequence of [date, hour], one per instant
  HoursPerDay,     \* also the number of buckets of a day
  MaxDays,         \* bound on the days of the dashboard's window
  Windows,         \* the values of the query parameter days
  DaysAgo,         \* today is 0, yesterday 1
  NoToken,         \* no metrics_token
  MaxClock,        \* bound on the clock
  MaxRecords       \* bound on the records, of usage and of energy

\* Time zones as they are: dates do not fall, the first instant of a date has
\* its earliest hour, and a date that is skipped, of those a report can be
\* about, is followed by a midnight within MaxDays.
TimeZone(z) ==
  LET opens(i) == \A k \in DOMAIN z : k < i => z[k].date < z[i].date
      found(date) == \E i \in DOMAIN z : z[i].date = date
      skipped(date) ==
        \E i \in DOMAIN z : /\ z[i].hour = 0 /\ z[i].date \in (date + 1)..(date + MaxDays)
                            /\ \A k \in DOMAIN z : k < i => z[k].date < date
  IN  /\ z \in Seq([date : Nat, hour : 0..(HoursPerDay - 1)]) /\ MaxClock <= Len(z)
      /\ \A i, j \in DOMAIN z : i <= j => z[i].date <= z[j].date
      /\ \A i, j \in DOMAIN z : opens(i) /\ z[j].date = z[i].date => z[i].hour <= z[j].hour
      /\ \A t \in 1..MaxClock, ago \in -1..(MaxDays - 1) :
           found(z[t].date - ago) \/ skipped(z[t].date - ago)

ASSUME UsageReportsAssumption ==
  /\ Admins \subseteq Users /\ NoUser \notin Users /\ NoKey \notin DOMAIN Owner
  /\ HoursPerDay \in Nat \ {0} /\ MaxDays \in Nat \ {0}
  /\ Windows \subseteq Int /\ DaysAgo \subseteq 0..(MaxDays - 1)
  /\ MaxClock \in Nat \ {0} /\ MaxRecords \in Nat
  /\ \A h \in Hosts : h.retention \in Nat /\ TimeZone(h.zone)

VARIABLES
  host,    \* the configuration and the time zone, which never change
  clock,   \* now_unix_secs
  serial,  \* the last id given: AUTOINCREMENT, for both tables
  rows,    \* token_usage: [id, ts, model, key]
  energy,  \* energy: [id, ts]
  users,   \* the accounts that are left; attribution goes with its account
  pruner,  \* the retention task: [pc, cutoff]
  req      \* one report request

vars == <<host, clock, serial, rows, energy, users, pruner, req>>

zone == host.zone
Token == host.metrics_token
Retention == host.retention

Keys == DOMAIN Owner
None == <<>>

-----------------------------------------------------------------------------
(* Local time.                                                             *)

\* DATE(ts, 'unixepoch', 'localtime') and chrono's Local
DateOf(ts) == zone[ts].date

\* from_local_datetime(..).earliest(): the first instant with that local time
Instants(date, hour) == {t \in DOMAIN zone : zone[t].date = date /\ zone[t].hour = hour}

\* date_to_start_timestamp: the first full hour the date has; a date that is
\* skipped altogether starts with the next midnight there is. Time moves in whole
\* hours here, so a date whose first local time is not a full hour, and which
\* therefore starts late in the code, does not occur.
DayStart(date) ==
  LET hours == {h \in 0..(HoursPerDay - 1) : Instants(date, h) # {}}
      next == {d \in (date + 1)..(date + MaxDays) : Instants(d, 0) # {}}
  IN  IF hours # {} THEN Min(Instants(date, Min(hours)))
      ELSE IF next # {} THEN Min(Instants(Min(next), 0))
      ELSE (date + MaxDays) * HoursPerDay

-----------------------------------------------------------------------------
(* Queries.                                                                *)

\* GROUP BY: every group with the rows in it
GroupBy(rs, group(_)) ==
  [g \in {group(r) : r \in rs} |-> {r.id : r \in {x \in rs : group(x) = g}}]

\* api_key_attribution: the account of a row, NoUser without one
AttributedTo(r) ==
  IF r.key # NoKey /\ Owner[r.key] \in users THEN Owner[r.key] ELSE NoUser

\* The rows of a scope, None for all and <<user>> for one account's
InScope(scope) == {r \in rows : scope = None \/ AttributedTo(r) = scope[1]}

Since(ts, scope) == {r \in InScope(scope) : r.ts >= ts}

\* stats and stats_for_user
Stats(since, scope) == LET model(r) == r.model IN GroupBy(Since(since, scope), model)

\* daily and daily_for_user
Daily(since, scope) ==
  LET day(r) == <<DateOf(r.ts), r.model>> IN GroupBy(Since(since, scope), day)

\* daily_energy
DailyEnergy(since) ==
  LET day(e) == DateOf(e.ts) IN GroupBy({e \in energy : e.ts >= since}, day)

\* stats_by_user: one group per account, one for calls without a key, one for
\* each key whose account is gone
StatsByUser(since) ==
  LET label(r) == IF r.key = NoKey THEN <<"generic">>
                  ELSE IF AttributedTo(r) = NoUser THEN <<"deleted", r.key>>
                  ELSE <<"user", AttributedTo(r)>>
  IN  GroupBy(Since(since, None), label)

\* stats_by_key_for_user
StatsByKey(since, scope) == LET key(r) == <<"key", r.key>> IN GroupBy(Since(since, scope), key)

\* MIN((ts - start) / 300, 287)
Bucket(ts, start) == Min({ts - start, HoursPerDay - 1})

\* fill_288_buckets
Fill(sparse) ==
  [b \in 0..(HoursPerDay - 1) |-> IF b \in DOMAIN sparse THEN sparse[b] ELSE {}]

\* today_buckets and today_buckets_for_user
DayBuckets(start, end, scope) ==
  LET bucket(r) == Bucket(r.ts, start)
  IN  Fill(GroupBy({r \in Since(start, scope) : r.ts < end}, bucket))

-----------------------------------------------------------------------------
(* Requests.                                                               *)

\* Fault: the parameter is honoured for everyone.
ResolveScopeTrusting(viewer, param) ==
  IF viewer = NoUser THEN None
  ELSE IF param # NoUser THEN <<param>>
  ELSE IF viewer \in Admins THEN None ELSE <<viewer>>

\* resolve_usage_scope
ResolveUsageScope(viewer, param) ==
  IF viewer = NoUser THEN None
  ELSE IF viewer \notin Admins THEN <<viewer>>
  ELSE IF param # NoUser THEN <<param>> ELSE None

Idle == [pc |-> "idle"]

\* What a viewer may expect: the rows that are there with their account.
Snapshot == {<<r, AttributedTo(r)>> : r \in rows}

\* The first half of dashboard_api. With public_usage the routes have no
\* authentication layer, so no viewer is known.
AskDashboard(viewer, param, window) ==
  LET days == IF window < 1 THEN 1 ELSE IF window > MaxDays THEN MaxDays ELSE window
      date == DateOf(clock) - (days - 1)
  IN  /\ req.pc = "idle"
      /\ (viewer = NoUser) = host.public_usage
      /\ viewer # NoUser => viewer \in users
      /\ req' = [pc |-> "stats", kind |-> "dashboard", viewer |-> viewer,
                 scope |-> ResolveUsageScope(viewer, param), date |-> date,
                 start |-> DayStart(date), before |-> Snapshot,
                 out |-> [s \in {} |-> None]]
      /\ UNCHANGED <<host, clock, serial, rows, energy, users, pruner>>

\* today_api, yesterday_api and the first half of day_buckets_response
AskDay(viewer, param, daysAgo) ==
  LET date == DateOf(clock) - daysAgo
  IN  /\ req.pc = "idle"
      /\ (viewer = NoUser) = host.public_usage
      /\ viewer # NoUser => viewer \in users
      /\ req' = [pc |-> "buckets", kind |-> "day", viewer |-> viewer,
                 scope |-> ResolveUsageScope(viewer, param), date |-> date,
                 start |-> DayStart(date), end |-> DayStart(date + 1), before |-> Snapshot,
                 out |-> [s \in {} |-> None]]
      /\ UNCHANGED <<host, clock, serial, rows, energy, users, pruner>>

\* The first half of metrics_handler: its own token opens it and nothing else
\* does; it reports all there is.
AskMetrics(token) ==
  /\ req.pc = "idle"
  /\ req' = [pc |-> IF Token # NoToken /\ token = Token THEN "stats" ELSE "failed",
             kind |-> "metrics", viewer |-> NoUser, scope |-> None, date |-> 0, start |-> 0,
             before |-> Snapshot, out |-> [s \in {} |-> None]]
  /\ UNCHANGED <<host, clock, serial, rows, energy, users, pruner>>

\* One run_db: the result is kept and the handler goes on.
Put(section, result, next) ==
  /\ req' = [req EXCEPT !.pc = next,
                        !.out = [s \in DOMAIN @ \cup {section} |->
                                   IF s = section THEN result ELSE @[s]]]
  /\ UNCHANGED <<host, clock, serial, rows, energy, users, pruner>>

QueryStats ==
  /\ req.pc = "stats"
  /\ Put("models", Stats(req.start, req.scope),
         IF req.kind = "metrics" THEN "energy" ELSE "daily")

\* Fault: every query works out its own window.
QueryDailyAnew ==
  /\ req.pc = "daily"
  /\ Put("days", Daily(DayStart(DateOf(clock)), req.scope), "energy")

QueryDaily == req.pc = "daily" /\ Put("days", Daily(req.start, req.scope), "energy")

\* Energy is nobody's: an account's view has none.
QueryEnergy ==
  /\ req.pc = "energy"
  /\ Put("energy_days", IF req.scope = None THEN DailyEnergy(req.start) ELSE [d \in {} |-> {}],
         IF host.public_usage \/ req.kind = "metrics" THEN "done" ELSE "keys")

QueryKeys ==
  /\ req.pc = "keys"
  /\ Put("keys", IF req.scope = None THEN StatsByUser(req.start)
                 ELSE StatsByKey(req.start, req.scope), "done")

QueryBuckets ==
  req.pc = "buckets" /\ Put("buckets", DayBuckets(req.start, req.end, req.scope), "done")

\* run_db fails, in the pool, the query or a sum that overflows: the handler
\* returns the error at once.
QueryFails ==
  /\ req.pc \in {"stats", "daily", "energy", "keys", "buckets"}
  /\ req' = [req EXCEPT !.pc = "failed", !.out = [s \in {} |-> None]]
  /\ UNCHANGED <<host, clock, serial, rows, energy, users, pruner>>

Answer ==
  /\ req.pc \in {"done", "failed"}
  /\ req' = Idle
  /\ UNCHANGED <<host, clock, serial, rows, energy, users, pruner>>

-----------------------------------------------------------------------------
(* Writers and the clock.                                                  *)

\* UsageStore::record
Record(model, key) ==
  /\ serial < MaxRecords
  /\ serial' = serial + 1
  /\ rows' = rows \cup {[id |-> serial', ts |-> clock, model |-> model, key |-> key]}
  /\ UNCHANGED <<host, clock, energy, users, pruner, req>>

\* record_energy
RecordEnergy ==
  /\ serial < MaxRecords
  /\ serial' = serial + 1
  /\ energy' = energy \cup {[id |-> serial', ts |-> clock]}
  /\ UNCHANGED <<host, clock, rows, users, pruner, req>>

\* delete_user_guarded: the foreign key's cascade takes the attribution.
DeleteUser(u) ==
  /\ u \in users /\ Admins \cap (users \ {u}) # {}
  /\ users' = users \ {u}
  /\ UNCHANGED <<host, clock, serial, rows, energy, pruner, req>>

Tick ==
  /\ clock < MaxClock
  /\ clock' = clock + 1
  /\ UNCHANGED <<host, serial, rows, energy, users, pruner, req>>

-----------------------------------------------------------------------------
(* The retention task.                                                     *)

Sleep == [pc |-> "sleep", cutoff |-> 0]

\* cutoff_timestamp, at start-up and after every sleep. A sleep is a day of
\* tokio's clock, which the wall clock need not follow: it may last any time.
PruneBegin ==
  /\ pruner.pc = "sleep"
  /\ pruner' = [pc |-> "usage", cutoff |-> clock - Retention]
  /\ UNCHANGED <<host, clock, serial, rows, energy, users, req>>

\* The first statement of prune_older_than
PruneUsage ==
  /\ pruner.pc = "usage"
  /\ rows' = {r \in rows : r.ts >= pruner.cutoff}
  /\ pruner' = [pruner EXCEPT !.pc = "energy"]
  /\ UNCHANGED <<host, clock, serial, energy, users, req>>

\* The second one
PruneEnergy ==
  /\ pruner.pc = "energy"
  /\ energy' = {e \in energy : e.ts >= pruner.cutoff}
  /\ pruner' = Sleep
  /\ UNCHANGED <<host, clock, serial, rows, users, req>>

\* Fault: an error ends the task.
PruneFailsForGood ==
  /\ pruner.pc \in {"usage", "energy"}
  /\ pruner' = [pc |-> "off", cutoff |-> 0]
  /\ UNCHANGED <<host, clock, serial, rows, energy, users, req>>

\* Either statement fails: what is done stays, the rest waits a day.
PruneFails ==
  /\ pruner.pc \in {"usage", "energy"}
  /\ pruner' = Sleep
  /\ UNCHANGED <<host, clock, serial, rows, energy, users, req>>

-----------------------------------------------------------------------------

\* spawn_pruner: no task without retention
Init ==
  /\ host \in Hosts
  /\ clock = 1 /\ serial = 0 /\ rows = {} /\ energy = {} /\ users = Users
  /\ pruner = [pc |-> IF Retention = 0 THEN "off" ELSE "sleep", cutoff |-> 0]
  /\ req = Idle

Ask ==
  \/ \E viewer, param \in Users \cup {NoUser} :
       \/ \E window \in Windows : AskDashboard(viewer, param, window)
       \/ \E daysAgo \in DaysAgo : AskDay(viewer, param, daysAgo)
  \/ \E token \in {NoToken, Token} : AskMetrics(token)

Query == QueryStats \/ QueryDaily \/ QueryEnergy \/ QueryKeys \/ QueryBuckets

Prune == PruneBegin \/ PruneUsage \/ PruneEnergy \/ PruneFails

Next ==
  \/ Ask \/ Query \/ QueryFails \/ Answer
  \/ \E m \in Models, k \in Keys \cup {NoKey} : Record(m, k)
  \/ RecordEnergy
  \/ \E u \in Users : DeleteUser(u)
  \/ Tick
  \/ Prune

Spec == Init /\ [][Next]_vars

\* Time passes. The task runs when it is awake, and a statement that is tried
\* again and again does not always fail.
LiveSpec ==
  /\ Spec
  /\ WF_vars(Tick) /\ WF_vars(PruneBegin)
  /\ SF_vars(PruneUsage) /\ SF_vars(PruneEnergy)

-----------------------------------------------------------------------------

Reported(section) == UNION {section[g] : g \in DOMAIN section}
Once(section) ==
  \A g, h \in DOMAIN section : g # h => section[g] \cap section[h] = {}

\* The rows the viewer may count on: there before the request and still there,
\* of an account that kept them, on the dates asked for.
Due(dates) ==
  {b[1].id : b \in {x \in req.before :
     /\ x[1] \in rows /\ DateOf(x[1].ts) \in dates
     /\ req.scope # None => x[2] = req.scope[1] /\ AttributedTo(x[1]) = x[2]}}

\* Rows of other dates that were there when the request came
Foreign(dates) == {b[1].id : b \in {x \in req.before : DateOf(x[1].ts) \notin dates}}

\* Every section of a dashboard, or of the metrics, covers the same dates, the
\* ones of the moment the request came, whatever happens between the queries:
\* no row is left out or counted twice, and none from before the window
\* appears.
SectionsAgreeOnWindow ==
  req.pc = "done" /\ req.kind \in {"dashboard", "metrics"} =>
    LET dates == {d \in {zone[i].date : i \in DOMAIN zone} : d >= req.date} IN
    \A s \in DOMAIN req.out \ {"energy_days"} :
      /\ Due(dates) \subseteq Reported(req.out[s])
      /\ Reported(req.out[s]) \cap Foreign(dates) = {}
      /\ Once(req.out[s])

\* The buckets of a day hold every row of that local date once, on days with a
\* missing or a repeated hour too, and no row of another date.
BucketsCoverTheDay ==
  req.pc = "done" /\ req.kind = "day" =>
    /\ Due({req.date}) \subseteq Reported(req.out["buckets"])
    /\ Reported(req.out["buckets"]) \cap Foreign({req.date}) = {}
    /\ Once(req.out["buckets"])

\* A report covers the dates it is about and nothing else, in all of its parts
\* (dashboard_api, metrics_handler, day_buckets_response).
ReportsCoverTheirDates == SectionsAgreeOnWindow /\ BucketsCoverTheDay

\* An account that is no administrator sees its own usage only, no energy, and
\* the public dashboard and the metrics name no account.
OnlyOwnUsage ==
  req.pc = "done" =>
    /\ req.viewer \notin Admins \cup {NoUser} =>
         \A s \in DOMAIN req.out : \A id \in Reported(req.out[s]) :
           /\ s # "energy_days"
           /\ \A b \in req.before : b[1].id = id => b[2] = req.viewer
    /\ req.viewer = NoUser => "keys" \notin DOMAIN req.out

\* Usage is removed only when it is older than the retention period.
PrunedOnlyWhenExpired ==
  [][/\ \A r \in rows \ rows' : r.ts + Retention < clock
     /\ \A e \in energy \ energy' : e.ts + Retention < clock]_vars

\* Usage and energy older than the retention period are removed in the end,
\* also when a statement fails on the way.
ExpiredIsPruned ==
  <>[](Retention > 0 => \A x \in rows \cup energy : x.ts + Retention >= MaxClock)

\* Retention takes what is expired, all of it and nothing else, although its
\* two statements are no transaction and either may fail (spawn_pruner).
RetentionExact == PrunedOnlyWhenExpired /\ ExpiredIsPruned
=============================================================================
