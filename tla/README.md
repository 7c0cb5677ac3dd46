# TokenWeasel: TLA+ models, checks and proofs

TokenWeasel is a reverse proxy for LLM backends that authenticates clients,
schedules their requests fairly over a limited number of slots, fails over
between backends, accounts for tokens and GPU energy, and reports both on a
dashboard with accounts of its own. This directory models the server, checks the
models with TLC on small instances, and proves all of the safety properties with
TLAPS for all instances. All source paths below are relative to `src/crates/`.

## The system

| Component | State it keeps | Operations | Who it talks to |
|---|---|---|---|
| Proxy handler (`twl-server/src/proxy/mod.rs`) | per request: its stage, its guards; a semaphore of API-key lookups | validate key, acquire slot, read body, route, attempt and fail over, respond | everything below |
| Fair queue (`twl-server/src/fair_queue.rs`) | slot count, waiters, admissions per user in a rolling window | acquire, release, cancel | proxy handler; one-shot channels to waiters |
| Headers and bodies (`proxy/headers.rs`, `proxy/body.rs`) | the prefix hash of a conversation, otherwise none | filter headers, inject `include_usage`, hash the opening | proxy handler, backends |
| Accounting stream (`proxy/stream.rs`), usage parsing and pricing (`twl-provider/src/usage.rs`, `twl-pricing`) | parse buffer, usage seen | push chunk, parse event, merge, flush, drop | upstream bytes, writer, the guards it owns |
| Energy meter (`twl-backends/src/energy.rs`) | active count, start of the busy interval | begin, drop, report | accounting writer |
| Accounting writer (`twl-server/src/sink.rs`) | bounded channel, one thread | try_send, recv, insert | usage store |
| Backend registry (`twl-backends/src/lib.rs`) | catalog, routing map, rotation and in-flight counters | route, begin_load, set_backend_models | proxy handler, watchdog |
| Watchdog (`twl-server/src/watchdog.rs`) | last seen model ids per backend | poll, update or clear the catalog | registry |
| Login throttle (`twl-server/src/ratelimit.rs`) | failures and block per client | check, record_failure, record_success | login handler |
| Identity store, accounts, API keys, sessions (`twl-store/src/identity.rs`, `twl-auth`, `twl-server/src/handlers/`, `auth.rs`, `session_store.rs`) | users, keys, attribution; sessions in memory | bootstrap, login, create, delete, change and reset password, revoke, purge | SQLite |
| Usage store, reports, retention (`twl-store/src/usage.rs`, `routes.rs`, `metrics.rs`, `localtime.rs`, `retention.rs`) | usage and energy rows | insert, query, prune | writer, dashboard, Prometheus |
| Configuration (`twl-config/src/config.rs`) | none | merge command line, environment and file; validate | everything at start |
| TLS files (`twl-server/src/tls.rs`) | certificate and key on disk | load or generate | server |
| Server (`twl-server/src/server.rs`, `twl/src/main.rs`) | process phase | start, signal, graceful shutdown, exit | all |

What is hard: a client can disconnect at every await, so a request's guards
(API-key permit, queue slot, load, meter, usage recorder) are dropped on many
paths, one after the other, while other threads run; the queue hands slots
through channels that are not under its mutex; retries must not execute a
completion twice; placement reads counters other requests are changing; two
watchdogs update one catalog; a password is verified outside the transaction
that replaces it; a report is made of several snapshots; accounting is
asynchronous and bounded; shutdown and crashes cut across all of it.
`PROJECT.json` lists each such hazard at its line.

## Modules

| Module | Models | State and actions |
|---|---|---|
| `Admission` | what the admission gate promises | `place` of each request; Enter, Queue, Admit, Abandon, Leave; `NobodyStarves` |
| `FairQueue` | `fair_queue.rs` | `in_flight`, `waiters`, `grants` are the fields of `Inner`; `pc` is where each task is; `lock` is the mutex while a release runs its `admit_waiters` loop one iteration at a time |
| `EnergyMeter` | `energy.rs` | `active_count`, `busy_since` are `State`; `End` is the part of drop under the mutex, `Report` the part after it |
| `AccountingWriter` | `sink.rs` and the inserts of `usage.rs` | `queue`, `writing` and the fate of each record; Enqueue (try_send), Take (recv), Persist |
| `Proxy` | `proxy/mod.rs`, the drop order of `stream.rs`, shutdown in `server.rs` | a stage per request, `permits` and detached `lookups`, `candidates`, `inflight`, `active`; one action per step between two awaits or two guard drops |
| `Forwarding` | `headers.rs`, `body.rs`, what `mod.rs` sends and answers, `apikey.rs`, the response layers of `server.rs` | the turns of a conversation; Turn, Attempt, BuildFails, ExecuteFails, Respond. A header map gives each name the sequence of its lines |
| `AccountingStream` | the buffers of `stream.rs` | `buf`, `discarding`, `overflowed`, `usage`; PushLine, PushBody, PushOpaque, Finish, Cut |
| `UsageParsing` | `usage.rs` of the provider crate, `accumulate_usage`, pricing, the per-model sums of `usage.rs` of the store and the grand total of `routes.rs` | a provider's true counts beside what is parsed from the containers of its events; Begin, Token, End, BrokenEvent, DropRecorder; `Stats`, `Cost`, `GrandTotal` of the rows |
| `ModelCatalog` | catalog and round robin of `lib.rs`, `watchdog.rs` | `catalog`, `rotation`, a `task` per watchdog: sleep, poll, compare, build, swap |
| `Placement` | least-loaded sort, prefix affinity, load counters of `lib.rs` | `inflight`, and each request's sort or scan, one comparison of counters at a time |
| `IdentityStore` | `identity.rs`, `schema.sql` | the tables; one operator per transaction |
| `Accounts` | `handlers/`, `twl-auth`, `auth.rs`, `session_store.rs`, the bootstrap | `req` (what each request has read and not yet written), `cookies`, `store`; the tables of `IdentityStore` |
| `LoginThrottle` | `ratelimit.rs`, its calls in `handlers/session.rs` | `map`, overlapping attempts between check and record, each with the hops it came by and the headers it arrived with |
| `UsageReports` | queries of `usage.rs`, `routes.rs`, `metrics.rs`, `localtime.rs`, `retention.rs` | rows, clock, one report at a time in its queries, the pruner in its two statements |
| `Config` | `config.rs` | the sources, and the configuration or the refusal they resolve to |
| `TlsFiles` | `tls.rs` | `cert`, `key` on disk, the program's place between its writes |
| `MC*` | the instances TLC checks | `MCBackends` puts `ModelCatalog` beside `Placement`, `MCStartup` starts `TlsFiles` on what `Config` accepts, `MCExchange` puts `Forwarding`, `AccountingStream` and `UsageParsing` side by side |
| `FairQueueProofs`, `ProxyProofs`, `AccountsProofs`, `LoginThrottleProofs`, `UsageReportsProofs` | theorems about the module each is named after | no state of their own |
| `BackendsProofs` | theorems about `Placement`, `ModelCatalog` and `EnergyMeter` | |
| `ExchangeProofs` | theorems about `Forwarding`, `AccountingStream` and `UsageParsing` | |
| `StartupProofs` | theorems about `Config` and `TlsFiles` | |

`Proxy` composes the parts: it INSTANCEs `Admission` for the gate, because
`FairQueue` is shown to implement it, and `AccountingWriter` for the channel and
its thread. The energy meter appears in `Proxy` as its counter and the record
the last guard owes; where intervals lie is the business of `EnergyMeter`.
Which line carries usage, and hence when a recorder holds some, is open in
`Proxy`, and settled in `AccountingStream` and `UsageParsing`. `candidates` is
any order of any of the backends; which order it is comes from `ModelCatalog`
and `Placement`. `Accounts` EXTENDS the tables of `IdentityStore`.

Modules that are checked or proved about together have specifications of
different names: `CatalogSpec`, `MeterSpec`, `ParsingSpec`, `ForwardingSpec` and
`TlsSpec` beside the `Spec` of the others.

In `FairQueue` time is a set of ages: an admission's age grows with `Tick` up to
`Window`, which stands for "out of the window". `recent` is a history variable,
the true admissions in the window, against which selection is judged. Only the
release loop needs the explicit mutex: the other critical sections are single
actions. Cancellation is split where the code splits it: the receiver closes
(`Cancel`), a guard found in the channel is released (`Release` from
`discarding`), the registration is removed (`Deregister`).

In `Proxy` a request arrives once. `Deliver` marks the point from which the
upstream may execute the request; reqwest reports a connect error only before
it. A buffered response is a stream on which `SeeUsage` never happens. A client
may stop reading (`Stall`) and read again (`Resume`); nothing polls the response
in between. `opened` is history, the busy intervals of each backend's meter.

`Placement` reads the counters as the code does: an insertion sort whose
comparisons each read two atomics, and for prefixes a sum and then a scan.
`sort_by_key` inserts for up to 20 elements, so `PlacementAssumption` has at most
20 backends; for more, keys that change during the sort may even make it panic.
`calm` is history, whether a counter has changed since the placement began: an
undisturbed placement must choose the right backend, a disturbed one must still
name each candidate once.

In `Accounts` a handler is two or three actions: the middleware reads, the
password is verified on the blocking pool, the transaction writes. `born`,
`spender` and `typed` are history: which account an id stood for, whose key
paid, and which password opened a session.

`UsageReports` keeps rows and not sums: a group of a report is the set of rows
in it. A time zone is a sequence of local dates and hours, one per instant, so
that days with missing and repeated hours and skipped dates are ordinary values.

In `Config` and `Forwarding` a behaviour resolves one set of sources, or forwards
one conversation; the inputs are themes in the MC modules, each a small product
of the values that matter to one resolver or filter.

`Fault` operators (`SkipClosedLeak`, `DropMeterOffByOne`, ...) are what the code
would be with a plausible mistake in it. Each property is shown to notice one.

`LoginThrottle` takes apart what a request's way (`Hops`), the addresses the
proxies on it could add (`Chain`) and the two headers as they are read have to
do with each other: the line read is any first part of the chain, because a
proxy may add a line of its own or none, and X-Real-IP is anything. `Named` says
when these headers do name whoever talks to the outermost trusted proxy.

## What the runs check

| Run | Instance | Properties |
|---|---|---|
| `fair_queue` | 3 requests of 2 users, 1 slot, window 2 | `SlotAccounting`, `WorkConserving`, `SendersAlive`, `FairSelection`, `ImplementsAdmission` (refinement of `Admission` with starvation freedom) |
| `energy_meter` | 3 requests, 5 ticks, 3 reports | `CoversBusyTime`, `NoDoubleCounting` |
| `proxy` | 3 requests (1 keyless), 1 metered backend, 2 slots, 1 lookup permit, channel of 1 | `LoadCounted`, `EnergyRecorded` |
| `proxy_failover` | 2 requests, keys required, 1 slot, 2 backends, one not metered | `ValidationBounded`, `UpstreamBounded`, `NeverDoubleExecuted`, `UsageRecorded`, `EverythingEnds`, `RecordsSettle` |
| `proxy_shutdown` | 2 requests, 1 backend | `ShutdownDrains` is violated |
| `proxy_stalled` | as `proxy_failover` | `StalledClientsEnd` is violated |
| `accounts` | 2 requests over and over, 2 names, 3 passwords (one too short), 1 session id; 3 accounts, 2 keys, 3 hashes ever | `AdminRemains`, `AttributionExact`, `SessionsProvePassword`, `NoLostReset` |
| `backends` | 2 polled backends, 3 models, 2 outages or lost polls; or 3 requests on 3 candidates | `UpdatesKept`, `RotationAdvances`, `CatalogComesToAgree`; `EveryCandidateOnce`, `RightBackendFirst` |
| `login_throttle` | 2 clients, 2 trusted proxies and an untrusted one, 5 paths through them, 3 things a client writes before the chain, 3 X-Real-IPs; 2 overlapping attempts, a table of 2 | `TableBounded`, `KeyIsClient`, `EvictionOrder`, `NeverLockedForEver` |
| `startup` | nine themes of sources, with variables that are no Unicode, symbolic and hard links; 4 certificate pairs | `AcceptedIsUsable`, `SettingsHonoured`, `FingerprintKept` |
| `usage_reports` | days of 2 hours, 4 instants, 4 hosts, 2 records, an administrator, a user and a stranger | `ReportsCoverTheirDates`, `OnlyOwnUsage`, `RetentionExact` |
| `exchange` | 60 request headers with up to two lines a name, 75 answers, 20 bodies, 2 backends, one with an illegal key; conversations of 3 turns. All texts of up to 8 bytes in all chunkings. Two responses of any of 8 dialects or broken | `OnlyWhatShouldCross`, `ConversationKeepsHash`; `TypeOK`, `RecordsWhatWasSent`; `RecordedIsExact`, `RowsAddUp` |

The properties are stated beside the actions they are about. In short: no
cancellation leaks or duplicates a slot, and none leaves a slot idle beside a
queue; the user with the fewest admissions in the window goes first and nobody
starves; billed intervals are exactly the busy time, and each interval a proxied
request opens, on a failed attempt too, is billed once; abandoned lookups keep
their permit; at most `max_concurrency` requests occupy backends, because the
slot is the last guard dropped; failover never executes a request twice and
leaves the counters exact; usage seen is handed over exactly once on every path;
the chunking of a response is invisible in what is recorded, and in every
dialect it is what the provider counted. An administrator always remains, usage
stays with the account whose key paid, and a session outlives no password. No
catalog update is lost, and the catalog comes to agree with the upstreams. The
throttle forgets only the least blocked client of a full table and locks nobody
out for ever. What the configuration accepts is usable and honours its sources.
The parts of a report agree on their dates, in odd time zones too.

Several properties are conjunctions of named parts, for example
`OnlyWhatShouldCross` of what may cross the proxy as header, as page and as
body, and `RightBackendFirst` of exact counters, the least-loaded order and the
bounded affinity.

Two runs are findings.

`proxy_shutdown`: `shutdown_signal` logs "draining requests and usage writes",
but only the requests are waited for: nobody joins the writer thread, and `main`
can return with usage records in the channel.

`proxy_stalled`: `CLIENT_IO_TIMEOUT` is the "maximum idle interval while a client
[...] consumes response data", by which "abandoned connections eventually stop
retaining admission slots" (`server.rs:40-43`). The timer is in the response
body and is looked at when the body is polled; hyper polls it only while it has
room for another frame. A client that keeps its connection and reads nothing is
never polled for, so it keeps its slot, and the shutdown, which has no deadline,
waits for it. This is why `EverythingEnds` has the hypothesis `ClientsRead`: no
client stays stalled, and none stalls again and again.

### Observations

Further places where a comment or a document says more than the code does, or
where the properties had to be stated with an exception. The models follow the
code; no run repeats them.

- `server.rs:395` keeps an unchanged password from being hashed anew "so a plain
  restart does not re-hash and invalidate the user's sessions"; the session store
  is in memory, so a restart ends them anyway (`Stop` in `Accounts`).
- The watchdog compares ids only (`watchdog.rs:42`): new metadata under
  unchanged ids does not reach the catalog. `CatalogComesToAgree` therefore
  speaks of ids.
- `state.rs:47` calls the throttle a "per-account login lockout tracker", and
  the refusal says "account temporarily locked"; the key is the client's address
  (`KeyIsClient`).
- `ratelimit.rs:48-54` promises that malformed forwarding headers "safely fall
  back". They fall back to X-Real-IP, which a proxy that only appends to
  X-Forwarded-For passes on as the client wrote it; the key is then arbitrary.
  `KeyIsClient` has the hypothesis `Named`.
- `TLS.md` says a later start reuses the pair when both files exist. A start
  that dies between its writes beside a leftover file leaves two files that are
  no pair, and later starts fail to load them until someone removes one.
  `FingerprintKept` is about pairs that have been served.
- `config.rs:129-131` says "symlink aliases cannot bypass the check" that
  certificate and key are different files. A link to a file that does not exist
  yet, or a path through a linked directory, is compared by its name alone, and
  hard links are different canonical paths; `TlsFilesDistinct` names both
  exceptions.
- `config.rs:719-724` and its like read a variable that is set but no Unicode as
  one that is not set: DB_PATH, BIND_ADDR, UPSTREAM_URL, the TLS_* and the secrets;
  MAX_CONCURRENCY alone refuses it. `SettingsHonoured` speaks of readable values.
- The bytes of a backend's `api_key` are not validated (`config.rs:1115-1136`).
  One that is no legal header value is skipped with a warning at every request
  (`mod.rs:199`), and a client's own Authorization then goes on to that backend.
- `extract_client_key` looks at the first line of Authorization and of
  x-api-key, and `forward_response_headers` at the first Content-Type; all lines
  are forwarded. `CredentialsStayApart` speaks of keys that were taken, and of
  requests in which a key is on a first line; `ActiveContentSandboxed` of pages
  whose first Content-Type says so.
- A SUM that overflows an i64 fails the report; `grand_total_tokens`
  (`routes.rs:262`) is added up unchecked over the models, and wraps in a release
  build. A cost that is not finite counts as nothing. `RowsAddUp` says what holds
  up to there.

### Bounds

`MaxGrants` keeps a user with that many admissions in the window from arriving.
Three requests on one slot allow a full gate, a queue of two and a cancellation
of either; more slots and requests are covered by the proofs. Three meters
overlap in every way two intervals and a report in between can. `QueueCap` 1
makes the channel full as soon as a second record comes. `MaxLine` 3 with texts
of 8 bytes has lines below, at and above the limit, an oversized line spread
over chunks and lines on both sides of it. `MaxUsers` 3 with two names allows a
name to be taken again after a deletion, `MaxKeys` 2 a key after a revoked one.
`MaxFaults` 2 allows an outage while a poll's answer is on its way, and a change
after it. `Wrap` 4 lets the rotation counter wrap. With a number of candidates
that does not divide 2^32 the placements on the two sides of a wrap can start
alike; `RotationAdvances` leaves out just that step. `CAP` 2 is less than the number of addresses that try
to log in, `MAX_BACKOFF` 3 is reached; with two trusted proxies in a row the walk
over the chain passes one, and with an untrusted one before a trusted one it
stops at it. `MaxClock` 4 with days of two hours has
two midnights. `MaxPrompt` 1 and `MaxOutput` 2 tell each kind of token and a
running total from a sum; `MaxInt` 9 makes saturation, failing SUMs and wrapping
totals happen, and nine output tokens of the dearest model are beyond `MaxCost` 40. Symmetry is used
for identical requests, names and passwords in safety runs only.

### Fairness

Weak fairness, with one exception. In `FairQueue`: a woken task is polled, guard
drops run to their end, an admitted request releases its slot, the clock ticks.
In `Proxy`: every request takes its next step, the writer thread runs, the server
notices that it may exit. Waits for the upstream end because of the 10 s connect
and 300 s read timeouts of its client (`build_client`), waits for a request body
because of its idle timeout (`client_body_timeouts`): a body that is being read is
polled, so its timer runs. A response goes on only while the client reads it:
`Stall` and `Resume` are not fair, nothing ends a stalled response but the client,
and liveness is claimed under `ClientsRead`. An upstream that streams for ever is
assumed away. Arrivals, disconnects, usage lines and the shutdown signal are not
fair either. In `FairQueue`, requests that are cancelled while another task holds
the mutex deregister only under a fair mutex, so nothing is claimed about how soon
they do.
In `MCBackends`: every watchdog task runs; a poll ends because of its timeout. In
`LoginThrottle`: time passes, nothing more. In `UsageReports`: time passes and the
pruner wakes up; its two statements are strongly fair, because a failed one is
tried again on the next round and the database does not fail always.

## What is proved

All theorems hold for every value of the constants that satisfies the ASSUMEs.

Each proof has the same shape: an inductive invariant, one lemma per action or
group of actions that it is kept, and the properties as consequences. An action
property follows from the invariant before the step.

`FairQueueProofs`:
- `QueueInvariant`: `Spec => []QueueInv`. Slot accounting is not inductive by
  itself: that a send finds a live receiver, or is undone exactly, needs to know
  that the deque contains each waiting request once and nothing but waiting and
  closing ones (`SendersAlive`), that only the releasing task is inside the
  mutex (`MutexOwner`), and that arrivals queue only when the gate is full
  (`WorkConserving`). The conjunction is inductive; one lemma per action.
- `TypesKept`, `SlotsAccountedFor`, `NoIdleSlot`, `SenderNeverLost`: its
  consequences. The last one is why the `unreachable!` in `acquire` is.
- `WindowCounts`: `Spec => []WindowTrue`. The code prunes a user's deque only
  when it looks at it, so the deque is in general longer than the window. What
  is invariant is that ages fall along the deque and that pruning it now gives
  exactly the true admissions of the window, whenever it was last pruned.
- `SelectionIsFair`: hence the scan in `admit_waiters` compares true counts, and
  picks the waiter whose user has the fewest, the earliest among equals.
- `QueueImplementsGate`: every step maps to a step of `Admission` or a stutter,
  using that `Selected` is always an index of the deque.

`ProxyProofs`:
- `ProxyInvariant`: `Spec => []ProxyInv`. Per request, `RequestOK` says what it
  holds and what the upstream has seen at each stage; above all, that a request
  on its way to another candidate has been received by nobody, and that the only
  backend that has received a request is the one whose guards it holds. Beside
  it, the gate is never overfull, a handler waiting for a lookup has one running,
  and a request that has billed a backend is done with it (`EnergyOnce`), so it
  never hands over the same record twice. The intervals a meter has opened are
  counted off against the one that is open, the one the last guard owes and those
  handed over (`EnergyRecorded` is inductive beside the rest).
- `PermitsBounded`, `CountersExact`, `BackendsNotOverrun`, `ExecutedAtMostOnce`,
  `UsageHandedOverOnce`, `EnergyBilled`: the safety properties of both proxy
  runs. `BackendsNotOverrun` maps the requests at backends into those inside the
  gate: the order of the guards in the code is what makes that map total.
- `ProxyRespectsGate`: `Spec => Gate!Spec`, so what is proved of the gate
  carries over, and the `Admission` instance in `Proxy` is used only by its
  rules.

`AccountsProofs`:
- `AccountsInvariant`: `Spec => []AccountsInv`. Attribution needs that ids and
  times of creation are never given twice (`BornOnce`), that keys and
  attributions name accounts that exist (`KeysOwned`), and, of calls under way
  whose key may be revoked and whose account may be deleted before the record is
  written, that the key still pays for the account it was looked up for or for
  nobody (`PaidBy`). Sessions and logins under way hold a hash that the typed
  password opens.
- `AdministratorRemains`, `UsageAttributedExactly`, `SessionsStayProved`,
  `ResetNeverUndone`: its consequences, the last an action property.

`LoginThrottleProofs`:
- `TableWithinBounds`: the table stays within `CAP`, since eviction makes room
  for one before an entry is added, and no block exceeds the back-off of its
  failures.
- `EvictionInOrder`: a failure makes room by forgetting a blocked client only
  when the table is full and every other client is blocked at least as long.
- `ClientsKnownByAddress`: by a walk from the right over the forwarding header,
  whatever was written to the left of the address the outermost trusted proxy
  added, through any number of trusted proxies; and whatever X-Real-IP holds,
  where the header is read whole.

`UsageReportsProofs`:
- `ReportsInvariant`: `Spec => []ReportsInv`. Rows do not change and ids are not
  reused, so what a report took down at its start (`before`) can be compared
  with what each later query finds (`BeforeOK`); its first and last instant
  bound exactly its dates, in every zone whose dates never fall (`WindowOK`);
  each section has what is due and nothing foreign (`SectionOK`).
- `ReportsExact`, `NothingForeignShown`: its consequences.
- `RetentionTakesOnlyExpired`: both statements of the pruner delete only what is
  older than the retention, because the cutoff was taken before them and the
  clock does not fall.

`BackendsProofs`:
- `PlacementInvariant`: `Spec => []PlacementInv`. Whatever the counters do,
  insertion keeps the order a permutation. Of an undisturbed placement more is
  known: the prefix already sorted is in order but for the element on its way
  down (`SortedSoFar`), the running total is the sum so far, and all backends
  the scan has passed are at the bound (`FullBefore`). That the scan then finds
  one is the pigeonhole: were all loads at least the bound, their sum would be
  at least the total plus one. This is where a factor of at least one is used.
  Rendezvous order exists because counting the candidates above each one ranks
  them without ties.
- `CandidatesOnce`, `PlacementIsRight`: its consequences.
- `CatalogInvariant`: `CatalogSpec => []CatalogInv`. That no update is lost is not
  inductive: while a task builds, its belief runs ahead of the catalog. What is:
  the catalog has for each backend exactly the allowed ids of the list its
  watchdog last took over (`Taken`), or the watchdog is building and holds
  entries with exactly those ids (`TaskOK`). A swap that succeeds was built from
  the current catalog and so replaces the part of its own backend only.
- `NoWatchdogUpdateIsLost`: hence `UpdatesKept`. Its other half is about the
  loops: filter and retain keep order and ids, `build_routing` lists exactly
  the backends that list a model, in order and once, and `/v1/models` has each
  routable model once.
- `RotationGoesOn`: the last placement of a model started where its counter
  stood one step ago, modulo the number of its candidates, over any rebuild
  (`Pointed`); two neighbours modulo a number greater than one differ.
- `MeterInvariant`: `MeterSpec => []MeterInv`. Disjointness needs that closed
  intervals end before the open one starts (`InOrder`) and that an interval is
  open exactly while guards live (`CountsGuards`).
- `BillsAllBusyTime`, `BillsNothingTwice`: billing is exact, even though a
  report may be overtaken by those of later intervals.

`ExchangeProofs`:
- `StreamBuffersAreBounded`, `StreamRecordsWhatWasSent`, from `StreamInv`: after
  any chunks, the usage is what the complete lines that fit have said, merged
  (`LinesRead`), and the buffer is the unterminated rest, or, while an oversized
  line is skipped, any part of it without a newline. The work is in lemmas on
  how the line ends of a text lie when a chunk is appended, and in merging: the
  code merges one usage after the other, the property takes the largest of each
  field of all; that these agree is shown end by end.
- `UsageIsExact`, `UsageAddsUp`, from `ParsingInv`: what is counted in the middle
  of a response is one of the interim values of its dialect, and its last event
  turns each of these into the exact one. Recorded rows are sane, whatever a
  broken provider sends; and then the price is linear, so that a sum of prices
  is the price of the sums: if the SUMs fit an i64, and as long as the price is
  finite, because every part and every row is then finite too and no clamp is
  reached. For a row with more cached than input tokens it would not be. The
  grand total is the sum of all rows whatever the order of the models, since each
  row is in the sum of exactly one.
- `ForwardingIsSafe`, `ConversationIsSticky`, from `ForwardingInv`: what is sent
  to a candidate is built from the client's headers and that candidate's own,
  so nothing is left of an earlier attempt, and a name is filtered with all of
  its lines; each turn's hash is a function of
  the conversation up to it, and the first message of a role stays the first.

`StartupProofs`:
- `AcceptedConfigIsUsable`, `ConfiguredSettingsAreHonoured`: `ConfigInv` says that
  an accepted configuration is the result of the resolvers on the sources, all
  of whose checks passed; the properties follow resolver by resolver.
- `FingerprintIsKept`: a pair that was served is whole on disk, and the program
  writes only where it found a file missing, until the operator touches one
  (`FilesInv`).

The assumptions are those of the modules. They are types of the constants,
mostly: finite sets of requests, positive capacities. The others: `Nothing` is
not a record (`Proxy`); proxies and clients have different addresses, and what a
client writes into X-Forwarded-For is a sequence of addresses and garbage
(`LoginThrottle`); local dates do not fall, and the zone covers the clock
(`UsageReports`); rendezvous scores of different backends differ, because
FxHasher is one to one in its last word, and the overload factor is at least
one, which `resolve_load_balancing` enforces, and there are at most 20 backends
(`PlacementAssumption`); a flat
passthrough has one backend (`CatalogAssumption`; both are hypotheses of the
theorems of `BackendsProofs`, which `MCBackends` has TLC evaluate); the counts of
a response a provider is honest about do not saturate an i64, and prices are
numbers of either sign and any size (`UsageParsing`); a backend's configured
credentials are nobody else's or cannot be sent, and the keys of this proxy and the session cookie
arrive in the headers they are sent in (`Forwarding`); the parsers return usage
or none, and none for an empty line (`AccountingStream`); the sources have the
types that clap, the environment and serde give them (`SourcesAssumption` of
`Config`).

Induction over data is done by hand: a set of numbers without a least
counterexample is empty (`LeastNatural`), which makes recursive functions and the
folds of the models accessible, one lemma per fold.

Only model-checked, all because they need fairness or ENABLED:
- liveness: `EverythingEnds`, `RecordsSettle`, `ShutdownDrains` and `StalledClientsEnd`
  (violated),
  `CatalogComesToAgree`, `NeverLockedForEver`, and in `ImplementsAdmission` the
  fairness of the gate, hence starvation freedom. Its safety part is
  `QueueImplementsGate`;
- the second half of `RetentionExact`, that what has expired is pruned. Its first
  half is `RetentionTakesOnlyExpired`.

## Not modelled

- The web front end: rendering in the browser, no state of the server.
- Static files, the health check, binding of sockets and the assembly of
  routers: no state, or I/O alone. Which layers a route has is in `Forwarding`
  and `Accounts`.
- The text of reports, metrics and error bodies; logging and the redaction of
  secrets in Debug output.
- Sums over the rows of a report other than the per-model totals, whose
  overflow is in `UsageParsing`. In `UsageReports` a failing query is an action.
- In `UsageReports` time moves in whole hours. `localtime.rs:26-32` looks for the
  first hour of a date that exists, so a date that starts within an hour starts
  late in the code; `DayStart` does not tell the two apart. The daily energy of a
  report, which has rows of its own, is left out of the agreement on dates in
  `ReportsCoverTheirDates`.
- JSON, URL and PEM syntax: an input is what it parses to, or malformed.
- Cryptography: a password hash is the password with its salt, a pair of
  certificate and key is a number.

## Plan

1. Models: done for every component that keeps state.
2. Proofs: done for every safety property the runs check.
3. `Proxy` routing through `Placement` instead of over any order of candidates,
   if TLC can bear the product.
