---------------------------- MODULE StartupProofs ----------------------------
(***************************************************************************)
(* Proofs about what a start reads and writes: the resolution of the       *)
(* configuration (Config), for every set of sources, and the certificate   *)
(* files (TlsFiles), for every number of pairs.                            *)
(***************************************************************************)
EXTENDS Config, TlsFiles, FiniteSetTheorems, TLAPS

-----------------------------------------------------------------------------
(* The certificate files.                                                  *)

Writing == {"cert", "cert_open", "key", "key_open"}

\* What TlsFiles' actions keep: a pair is being written only after the files
\* were touched by the operator or before one was ever served, and the
\* certificate on disk is the pair's while its key is written.
FilesInv ==
  /\ kept # 0 => kept \in Pairs /\ cert = kept /\ key = kept
  /\ pc \in Writing => kept = 0 /\ pair \in Pairs
  /\ pc \in {"key", "key_open"} => cert = pair
  /\ pc \in {"down", "loading", "serving"} \cup Writing

\* The states before the first start satisfy FilesInv.
LEMMA FilesInit == TlsInit => FilesInv
BY DEF TlsInit, FilesInv, Writing

\* Every step of load_or_generate, of the operator and of a crash keeps
\* FilesInv.
LEMMA FilesStep == FilesInv /\ [TlsNext]_tlsVars => FilesInv'
<1> SUFFICES ASSUME FilesInv, [TlsNext]_tlsVars PROVE FilesInv'
  OBVIOUS
<1> USE DEF FilesInv, Writing
<1>0. Absent = 0 /\ 0 \notin Pairs
  BY TlsFilesAssumption DEF Absent, Pairs
<1>1. CASE Start
  BY <1>0, <1>1 DEF Start, Generate
<1>2. CASE FromPemFile
  BY <1>0, <1>2 DEF FromPemFile, Whole
<1>3. CASE TruncateCert
  BY <1>3 DEF TruncateCert
<1>4. CASE WriteCert
  BY <1>4 DEF WriteCert
<1>5. CASE TruncateKey
  BY <1>5 DEF TruncateKey
<1>6. CASE WriteKey
  BY <1>6 DEF WriteKey
<1>7. CASE Stop
  BY <1>7 DEF Stop
<1>8. CASE Supply
  BY <1>8 DEF Supply
<1>9. CASE TakeAway
  BY <1>9 DEF TakeAway
<1>10. CASE UNCHANGED tlsVars
  BY <1>10 DEF tlsVars
<1> QED
  BY <1>1, <1>2, <1>3, <1>4, <1>5, <1>6, <1>7, <1>8, <1>9, <1>10 DEF TlsNext

\* Over any number of starts, crashes in the middle of a write included, a
\* pair that was served is what both files hold until the operator touches one
\* (load_or_generate).
THEOREM FingerprintIsKept == TlsSpec => []FingerprintKept
<1>1. FilesInv => FingerprintKept
  BY DEF FilesInv, FingerprintKept
<1> QED
  BY <1>1, FilesInit, FilesStep, PTL DEF TlsSpec

-----------------------------------------------------------------------------
(* Options.                                                                *)

\* A present value is not absent and can be taken out again.
LEMMA SomeFacts == ASSUME NEW x PROVE Some(x) # None /\ Get(Some(x)) = x
BY DEF Some, None, Get

\* A validation that succeeded returns the value, and its condition held.
LEMMA CheckFacts ==
  ASSUME NEW ok \in BOOLEAN, NEW x, Check(ok, x) # None
  PROVE  ok /\ Get(Check(ok, x)) = x
BY SomeFacts DEF Check

-----------------------------------------------------------------------------
(* The invariant of Config::resolve.                                       *)

PartsOf(s, f) == Parts(s.cli, s.env, f)

\* The file is one the parser returned, and an accepted configuration has
\* every part, each as its resolver returned it.
ConfigInv ==
  /\ src \in Sources
  /\ phase \in {"start", "loaded", "accepted", "rejected"}
  /\ file = EmptyFile \/ file = Or(Loaded(src), EmptyFile)
  /\ Accepted =>
       /\ ModeAllowed(src.cli, src.env, file)
       /\ \A k \in DOMAIN PartsOf(src, file) : PartsOf(src, file)[k] # None
       /\ C = [k \in DOMAIN PartsOf(src, file) |-> Get(PartsOf(src, file)[k])]

\* Nothing is loaded and nothing accepted at the start.
LEMMA ConfigInit == Init => ConfigInv
BY DEF Init, ConfigInv, Accepted

\* Loading the file and resolving it keep ConfigInv.
LEMMA ConfigStep == ConfigInv /\ [Next]_vars => ConfigInv'
<1> SUFFICES ASSUME ConfigInv, [Next]_vars PROVE ConfigInv'
  OBVIOUS
<1>1. CASE Load
  BY <1>1 DEF Load, ConfigInv, Accepted
<1>2. CASE Resolve
  <2> DEFINE parts == PartsOf(src, file)
             ok == /\ ModeAllowed(src.cli, src.env, file)
                   /\ \A k \in DOMAIN parts : parts[k] # None
             full == [k \in DOMAIN parts |-> Get(parts[k])]
  <2>1. /\ phase' = IF ok THEN "accepted" ELSE "rejected"
        /\ config' = IF ok THEN Some(full) ELSE None
        /\ src' = src /\ file' = file
    BY <1>2 DEF Resolve, PartsOf
  <2>2. PartsOf(src', file') = parts
    BY <2>1
  <2>3. Accepted' => ok /\ C' = full
    <3>1. SUFFICES ASSUME Accepted' PROVE ok /\ C' = full
      OBVIOUS
    <3> HIDE DEF ok, full
    <3>2. phase' = "accepted"
      BY <3>1 DEF Accepted
    <3>3. ok
      BY <3>2, <2>1
    <3>4. C' = Get(config')
      BY DEF C
    <3> QED
      BY <3>3, <3>4, <2>1, SomeFacts
  <2> QED
    BY <2>1, <2>2, <2>3 DEF ConfigInv
<1>3. CASE UNCHANGED vars
  BY <1>3 DEF vars, ConfigInv, Accepted, C
<1> QED
  BY <1>1, <1>2, <1>3 DEF Next

\* An accepted configuration's parts, one by one
LEMMA AcceptedParts ==
  ASSUME ConfigInv, Accepted
  PROVE  /\ ModeAllowed(src.cli, src.env, file)
         /\ ResolveRetentionDays(file) # None
         /\ C.retention_days = Get(ResolveRetentionDays(file))
         /\ BackendsOf(src.cli, src.env, file) # None
         /\ C.backends = Get(BackendsOf(src.cli, src.env, file))
         /\ ResolveLoadBalancing(file) # None
         /\ C.load_balancing = Get(ResolveLoadBalancing(file))
         /\ ResolveMaxConcurrency(src.cli.max_concurrency, src.env.MAX_CONCURRENCY,
                                  file.max_concurrency) # None
         /\ C.max_concurrency
              = Get(ResolveMaxConcurrency(src.cli.max_concurrency, src.env.MAX_CONCURRENCY,
                                          file.max_concurrency))
         /\ ResolveTls(src.cli, src.env, file) # None
         /\ C.tls = Get(ResolveTls(src.cli, src.env, file))
         /\ ResolveFairQueue(file) # None
         /\ C.fair_queue = Get(ResolveFairQueue(file))
         /\ C.bind = ResolveBind(src.cli, src.env, file)
         /\ C.db_path = ResolveString(src.cli.db, src.env.DB_PATH, file.db_path, "proxydb.db")
         /\ C.flat_passthrough = (file.backends = None)
<1> DEFINE parts == PartsOf(src, file)
<1>1. /\ ModeAllowed(src.cli, src.env, file)
      /\ \A k \in DOMAIN parts : parts[k] # None
      /\ C = [k \in DOMAIN parts |-> Get(parts[k])]
  BY DEF ConfigInv
<1>2. \A k \in DOMAIN parts : parts[k] # None /\ C[k] = Get(parts[k])
  <2> HIDE DEF parts
  <2> QED
    BY <1>1
<1>3. /\ {"retention_days", "backends", "load_balancing", "max_concurrency", "tls", "fair_queue",
          "bind", "db_path", "flat_passthrough"} \subseteq DOMAIN parts
      /\ parts.retention_days = ResolveRetentionDays(file)
      /\ parts.backends = BackendsOf(src.cli, src.env, file)
      /\ parts.load_balancing = ResolveLoadBalancing(file)
      /\ parts.max_concurrency
           = ResolveMaxConcurrency(src.cli.max_concurrency, src.env.MAX_CONCURRENCY,
                                   file.max_concurrency)
      /\ parts.tls = ResolveTls(src.cli, src.env, file)
      /\ parts.fair_queue = ResolveFairQueue(file)
      /\ parts.bind = Some(ResolveBind(src.cli, src.env, file))
      /\ parts.db_path
           = Some(ResolveString(src.cli.db, src.env.DB_PATH, file.db_path, "proxydb.db"))
      /\ parts.flat_passthrough = Some(file.backends = None)
  BY DEF PartsOf, Parts
<1> HIDE DEF parts
<1>4. /\ Get(Some(ResolveBind(src.cli, src.env, file))) = ResolveBind(src.cli, src.env, file)
      /\ Get(Some(ResolveString(src.cli.db, src.env.DB_PATH, file.db_path, "proxydb.db")))
           = ResolveString(src.cli.db, src.env.DB_PATH, file.db_path, "proxydb.db")
      /\ Get(Some(file.backends = None)) = (file.backends = None)
  BY SomeFacts
<1> QED
  BY <1>1, <1>2, <1>3, <1>4

-----------------------------------------------------------------------------
(* What each resolver promises of an accepted value.                       *)

\* The file of a behaviour is one the parser returned.
LEMMA FileIsParsed ==
  ASSUME ConfigInv
  PROVE  /\ FileParsed(file)
         /\ IsUrlOption(src.cli.upstream) /\ IsUrlOption(Var(src.env.UPSTREAM_URL))
         /\ Var(src.env.TLS_ENABLED) # None => IsOption(Get(Var(src.env.TLS_ENABLED)))
         /\ src.env.MAX_CONCURRENCY # None => IsOption(Get(src.env.MAX_CONCURRENCY))
<1>1. FileParsed(EmptyFile)
  BY DEF FileParsed, IsUrlOption, EmptyFile
<1> QED
  BY <1>1, SourcesAssumption DEF ConfigInv

\* resolve_max_concurrency returns a legal number of permits, the one of the
\* highest source that gives any.
LEMMA ConcurrencyFacts ==
  ASSUME NEW cli, NEW env, NEW cfg,
         ResolveMaxConcurrency(cli, env, cfg) # None
  PROVE  LET n == Get(ResolveMaxConcurrency(cli, env, cfg)) IN
         /\ n \in 1..MaxPermits
         /\ cli # None => n = Get(cli)
         /\ cli = None /\ env # None => Get(env) # None /\ n = Get(Get(env))
         /\ cli = None /\ env = None /\ cfg # None => n = Get(cfg)
<1>1. 32 \in 1..MaxPermits
  BY ConfigAssumption
<1> QED
  BY <1>1, SomeFacts DEF ResolveMaxConcurrency, Check

\* resolve_fair_queue refuses an empty window.
LEMMA FairQueueFacts ==
  ASSUME NEW f, FileParsed(f), ResolveFairQueue(f) # None
  PROVE  Get(ResolveFairQueue(f)).window_seconds > 0
<1> DEFINE window == Or(f.window_seconds, 1800)
           queue == [enabled |-> Or(f.fair_enabled, FALSE), window_seconds |-> window]
<1>1. window \in Nat
  BY DEF FileParsed, Or
<1>2. window # 0 /\ Get(ResolveFairQueue(f)) = queue
  BY SomeFacts DEF Check, ResolveFairQueue
<1>3. queue.window_seconds = window
  OBVIOUS
<1> HIDE DEF queue, window
<1> QED
  BY <1>1, <1>2, <1>3

\* The retention period in seconds fits an i64.
LEMMA RetentionFacts ==
  ASSUME NEW f, ResolveRetentionDays(f) # None
  PROVE  Get(ResolveRetentionDays(f)) * SecondsPerDay <= MaxInt
BY CheckFacts DEF ResolveRetentionDays

\* The overload factor is at least 1.0.
LEMMA LoadBalancingFacts ==
  ASSUME NEW f, ResolveLoadBalancing(f) # None
  PROVE  Get(ResolveLoadBalancing(f)).overload_factor >= 4
<1> DEFINE factor == Or(f.overload_factor, 5)
           balancing == [strategy |-> Or(f.strategy, "least-loaded"), overload_factor |-> factor]
<1>1. factor >= 4 /\ Get(ResolveLoadBalancing(f)) = balancing
  BY SomeFacts DEF Check, ResolveLoadBalancing
<1>2. balancing.overload_factor = factor
  OBVIOUS
<1> HIDE DEF balancing, factor
<1> QED
  BY <1>1, <1>2

\* resolve_tls takes certificate and key from the highest source, and they
\* compare as two paths when TLS is on; whether it is on is what the highest
\* source says that can be read.
LEMMA TlsFacts ==
  ASSUME NEW cli, NEW env, NEW f, ResolveTls(cli, env, f) # None
  PROVE  LET tls == Get(ResolveTls(cli, env, f)) IN
         /\ tls.cert = ResolveString(cli.cert, env.TLS_CERT_PATH, f.cert_path, DefaultCert)
         /\ tls.key = ResolveString(cli.key, env.TLS_KEY_PATH, f.key_path, DefaultKey)
         /\ tls.enabled => ~SamePath(tls.cert, tls.key)
         /\ cli.tls # None => tls.enabled = Get(cli.tls)
         /\ cli.tls = None /\ Var(env.TLS_ENABLED) # None =>
              Get(Var(env.TLS_ENABLED)) # None /\ tls.enabled = Get(Get(Var(env.TLS_ENABLED)))
         /\ cli.tls = None /\ Var(env.TLS_ENABLED) = None /\ f.tls_enabled # None =>
              tls.enabled = Get(f.tls_enabled)
<1> DEFINE enabled ==
             IF cli.tls # None THEN cli.tls
             ELSE IF Var(env.TLS_ENABLED) # None THEN Get(env.TLS_ENABLED)
             ELSE Some(Or(f.tls_enabled, TRUE))
           c == ResolveString(cli.cert, env.TLS_CERT_PATH, f.cert_path, DefaultCert)
           k == ResolveString(cli.key, env.TLS_KEY_PATH, f.key_path, DefaultKey)
           hostnames == IF f.hostnames \in {None, Some(<<>>)} THEN <<"localhost">>
                        ELSE Get(f.hostnames)
           tls == [enabled |-> Get(enabled), cert |-> c, key |-> k, hostnames |-> hostnames]
           valid == Get(enabled) => /\ c.norm # "" /\ k.norm # ""
                                    /\ "" \notin ToSet(hostnames)
<1>1. ResolveTls(cli, env, f)
        = IF enabled = None THEN None ELSE Check(valid /\ ValidateDistinctPaths(tls), tls)
  BY DEF ResolveTls
<1>2. tls.cert = c /\ tls.key = k /\ tls.enabled = Get(enabled)
  OBVIOUS
<1>3. Var(env.TLS_ENABLED) # None => Var(env.TLS_ENABLED) = env.TLS_ENABLED
  BY DEF Var
<1>4. /\ cli.tls # None => enabled = cli.tls
      /\ cli.tls = None /\ Var(env.TLS_ENABLED) # None => enabled = Get(Var(env.TLS_ENABLED))
      /\ cli.tls = None /\ Var(env.TLS_ENABLED) = None /\ f.tls_enabled # None =>
           Get(enabled) = Get(f.tls_enabled)
  BY <1>3, SomeFacts DEF Or
<1> HIDE DEF valid, tls, c, k, hostnames, enabled
<1>5. enabled # None /\ ValidateDistinctPaths(tls) /\ Get(ResolveTls(cli, env, f)) = tls
  BY <1>1, CheckFacts DEF ValidateDistinctPaths
<1>6. tls.enabled => ~SamePath(tls.cert, tls.key)
  BY <1>5 DEF ValidateDistinctPaths
<1>7. /\ tls.cert = ResolveString(cli.cert, env.TLS_CERT_PATH, f.cert_path, DefaultCert)
      /\ tls.key = ResolveString(cli.key, env.TLS_KEY_PATH, f.key_path, DefaultKey)
  BY <1>2 DEF c, k
<1> QED
  BY <1>2, <1>4, <1>5, <1>6, <1>7

\* Which headers and key an accepted entry has, and what BackendRegistry and the
\* watchdog rely on
LEMMA BackendFacts ==
  ASSUME NEW entry, ResolveBackend(entry) # None
  PROVE  LET b == Get(ResolveBackend(entry))
             written == Or(entry.headers, <<>>)
         IN  /\ b.poll # None => Get(b.poll) >= 1
             /\ b.gpu_watts >= 0
             /\ IsInjective([i \in DOMAIN written |-> written[i].name])
             /\ b.api_key # None => \A i \in DOMAIN written : written[i].name # "authorization"
<1> DEFINE upstream == IF entry.upstream = None THEN None ELSE ValidateUpstream(Get(entry.upstream))
           fromEnv == IF entry.key_env = None THEN None ELSE Get(entry.key_env)
           k == First(entry.api_key, fromEnv)
           written == Or(entry.headers, <<>>)
           headers == ResolveBackendHeaders(written)
           watts == Or(entry.gpu_watts, 0)
           filter == Or(entry.model_filter, <<"any">>)
           b == [upstream |-> Get(upstream), api_key |-> k, headers |-> Get(headers),
                 gpu_watts |-> watts, poll |-> entry.poll,
                 models |-> Or(entry.models, <<>>), model_filter |-> entry.model_filter]
           rest == /\ upstream # None
                   /\ ~(entry.api_key # None /\ entry.key_env # None)
                   /\ entry.key_env # None => NonEmpty(fromEnv) # None
                   /\ filter # <<>> /\ "" \notin ToSet(filter) /\ IsInjective(filter)
           ok == /\ rest
                 /\ ValidateGpuWatts(watts) # None
                 /\ PollOk(entry)
                 /\ headers # None
                 /\ ~(k # None /\ "authorization" \in Get(headers))
<1>1. ResolveBackend(entry) = IF ok THEN Some(b) ELSE None
  BY DEF ResolveBackend
<1>2. b.poll = entry.poll /\ b.gpu_watts = watts /\ b.api_key = k
  OBVIOUS
<1> HIDE DEF b, upstream, fromEnv, k, filter, rest, watts, written
<1>3. /\ Get(ResolveBackend(entry)) = b
      /\ ValidateGpuWatts(watts) # None /\ PollOk(entry) /\ headers # None
      /\ ~(k # None /\ "authorization" \in Get(headers))
  BY <1>1, SomeFacts
<1>4. watts >= 0
  BY <1>3, SomeFacts DEF Check, ValidateGpuWatts
<1>5. /\ IsInjective([i \in DOMAIN written |-> written[i].name])
      /\ Get(headers) = {written[i].name : i \in DOMAIN written}
  <2> DEFINE injective == IsInjective([i \in DOMAIN written |-> written[i].name])
             legal == \A i \in DOMAIN written : written[i].ok
             names == {written[i].name : i \in DOMAIN written}
  <2>1. headers = Check(legal /\ injective, names)
    BY DEF ResolveBackendHeaders
  <2>2. injective \in BOOLEAN
    BY DEF IsInjective
  <2> HIDE DEF injective, legal, names, headers
  <2>3. legal /\ injective /\ Get(headers) = names
    BY <2>1, <2>2, <1>3, SomeFacts DEF Check
  <2> QED
    BY <2>3 DEF injective, names
<1> HIDE DEF headers
<1>6. k # None => \A i \in DOMAIN written : written[i].name # "authorization"
  BY <1>3, <1>5
<1>7. written = Or(entry.headers, <<>>)
  BY DEF written
<1> QED
  BY <1>2, <1>3, <1>4, <1>5, <1>6, <1>7 DEF PollOk

-----------------------------------------------------------------------------
(* Backends of an accepted configuration.                                  *)

\* The two modes: the array, entry by entry, or one polled backend
LEMMA BackendsFacts ==
  ASSUME ConfigInv, Accepted
  PROVE  /\ file.backends = None =>
              /\ ResolveUpstream(src.cli.upstream, src.env.UPSTREAM_URL, file.upstream) # None
              /\ ValidateGpuWatts(Or(file.gpu_watts, 0)) # None
              /\ C.backends
                   = <<FlatBackend(Get(ResolveUpstream(src.cli.upstream, src.env.UPSTREAM_URL,
                                                       file.upstream)),
                                   Get(ValidateGpuWatts(Or(file.gpu_watts, 0))))>>
         /\ file.backends # None =>
              LET entries == Get(file.backends) IN
              /\ entries # <<>> /\ entries \in Seq(ToSet(entries))
              /\ C.backends = [i \in DOMAIN entries |-> Get(ResolveBackend(entries[i]))]
              /\ \A i \in DOMAIN entries : ResolveBackend(entries[i]) # None
<1>1. /\ BackendsOf(src.cli, src.env, file) # None
      /\ C.backends = Get(BackendsOf(src.cli, src.env, file))
  BY AcceptedParts
<1>2. CASE file.backends = None
  <2> DEFINE watts == ValidateGpuWatts(Or(file.gpu_watts, 0))
             upstream == ResolveUpstream(src.cli.upstream, src.env.UPSTREAM_URL, file.upstream)
             b == <<FlatBackend(Get(upstream), Get(watts))>>
  <2>1. BackendsOf(src.cli, src.env, file)
          = IF watts = None \/ upstream = None THEN None ELSE Some(b)
    BY <1>2 DEF BackendsOf
  <2> HIDE DEF b, watts, upstream
  <2>2. watts # None /\ upstream # None /\ C.backends = b
    BY <1>1, <2>1, SomeFacts
  <2> QED
    BY <1>2, <2>2 DEF b, watts, upstream
<1>3. CASE file.backends # None
  <2> DEFINE entries == Get(file.backends)
             resolved == [i \in DOMAIN entries |-> ResolveBackend(entries[i])]
             ok == entries # <<>> /\ \A i \in DOMAIN entries : resolved[i] # None
             bs == [i \in DOMAIN entries |-> Get(resolved[i])]
  <2>1. BackendsOf(src.cli, src.env, file) = Check(ok, bs)
    BY <1>3 DEF BackendsOf, ResolveBackends
  <2>2. ok /\ C.backends = bs
    <3> HIDE DEF bs, ok
    <3>1. ok \in BOOLEAN
      BY DEF ok
    <3> QED
      BY <1>1, <2>1, <3>1, CheckFacts
  <2>3. bs = [i \in DOMAIN entries |-> Get(ResolveBackend(entries[i]))]
    OBVIOUS
  <2>4. entries \in Seq(ToSet(entries))
    BY <1>3, FileIsParsed DEF FileParsed
  <2> QED
    BY <1>3, <2>2, <2>3, <2>4
<1> QED
  BY <1>2, <1>3

\* Nothing start-up builds from an accepted configuration fails.
LEMMA BuildableHolds == ConfigInv => Buildable
<1> SUFFICES ASSUME ConfigInv, Accepted
             PROVE  /\ Len(C.backends) >= 1 /\ (C.flat_passthrough => Len(C.backends) = 1)
                    /\ C.max_concurrency \in 1..MaxPermits
                    /\ C.fair_queue.window_seconds > 0
                    /\ C.retention_days * SecondsPerDay <= MaxInt
                    /\ C.load_balancing.overload_factor >= 4
                    /\ \A i \in DOMAIN C.backends :
                         /\ C.backends[i].poll # None => Get(C.backends[i].poll) >= 1
                         /\ C.backends[i].gpu_watts >= 0
  BY DEF Buildable
<1>1. C.max_concurrency \in 1..MaxPermits
  BY AcceptedParts, ConcurrencyFacts
<1>2. C.fair_queue.window_seconds > 0
  BY AcceptedParts, FileIsParsed, FairQueueFacts
<1>3. C.retention_days * SecondsPerDay <= MaxInt
  BY AcceptedParts, RetentionFacts
<1>4. C.load_balancing.overload_factor >= 4
  BY AcceptedParts, LoadBalancingFacts
<1>5. CASE file.backends = None
  <2> DEFINE watts == ValidateGpuWatts(Or(file.gpu_watts, 0))
             upstream == ResolveUpstream(src.cli.upstream, src.env.UPSTREAM_URL, file.upstream)
             b == FlatBackend(Get(upstream), Get(watts))
  <2>1. watts # None /\ C.backends = <<b>>
    BY <1>5, BackendsFacts
  <2>2. Get(watts) >= 0
    BY <2>1, SomeFacts DEF ValidateGpuWatts, Check
  <2>3. b.poll = Some(30) /\ b.gpu_watts = Get(watts)
    BY DEF FlatBackend
  <2> HIDE DEF b, watts
  <2>4. Len(C.backends) = 1 /\ DOMAIN C.backends = {1} /\ C.backends[1] = b
    BY <2>1
  <2>5. Get(b.poll) >= 1
    BY <2>3, SomeFacts
  <2> QED
    BY <1>1, <1>2, <1>3, <1>4, <2>2, <2>3, <2>4, <2>5
<1>6. CASE file.backends # None
  <2> DEFINE entries == Get(file.backends)
  <2>1. /\ entries # <<>> /\ entries \in Seq(ToSet(entries))
        /\ C.backends = [i \in DOMAIN entries |-> Get(ResolveBackend(entries[i]))]
        /\ \A i \in DOMAIN entries : ResolveBackend(entries[i]) # None
    BY <1>6, BackendsFacts
  <2> HIDE DEF entries
  <2>2. Len(entries) \in Nat /\ Len(entries) >= 1 /\ DOMAIN entries = 1..Len(entries)
    BY <2>1
  <2>3. Len(C.backends) = Len(entries)
    BY <2>1, <2>2
  <2>4. ~C.flat_passthrough
    BY <1>6, AcceptedParts
  <2>5. ASSUME NEW i \in DOMAIN C.backends
        PROVE  /\ C.backends[i].poll # None => Get(C.backends[i].poll) >= 1
               /\ C.backends[i].gpu_watts >= 0
    <3>1. i \in DOMAIN entries /\ C.backends[i] = Get(ResolveBackend(entries[i]))
      BY <2>1
    <3> QED
      BY <3>1, <2>1, BackendFacts
  <2> QED
    BY <1>1, <1>2, <1>3, <1>4, <2>2, <2>3, <2>4, <2>5
<1> QED
  BY <1>5, <1>6

\* Certificate and key are two files, unless links hide that they are one.
LEMMA TlsFilesDistinctHolds == ConfigInv => TlsFilesDistinct
<1> SUFFICES ASSUME ConfigInv, Accepted, C.tls.enabled, OneFile(C.tls.cert, C.tls.key)
             PROVE  \/ C.tls.cert.inode # None /\ C.tls.cert.target # C.tls.key.target
                    \/ /\ C.tls.cert.inode = None
                       /\ \/ C.tls.cert.target # C.tls.cert.norm
                          \/ C.tls.key.target # C.tls.key.norm
  BY DEF TlsFilesDistinct
<1>1. ~SamePath(C.tls.cert, C.tls.key)
  BY AcceptedParts, TlsFacts
<1>2. C.tls.cert.norm # C.tls.key.norm
  BY <1>1 DEF SamePath
<1>3. CASE C.tls.cert.inode = None
  BY <1>2, <1>3 DEF OneFile
<1>4. CASE C.tls.cert.inode # None
  BY <1>1, <1>4, SomeFacts DEF OneFile, SamePath, Canonical
<1> QED
  BY <1>3, <1>4

\* The bearer token and the configured headers never meet in one name.
LEMMA OneValuePerHeaderHolds == ConfigInv => OneValuePerHeader
<1> SUFFICES ASSUME ConfigInv, Accepted, file.backends # None, NEW i \in DOMAIN C.backends,
                    NEW j \in DOMAIN Or(Get(file.backends)[i].headers, <<>>)
             PROVE  LET written == Or(Get(file.backends)[i].headers, <<>>)
                        sent(name) == Cardinality({n \in DOMAIN written : written[n].name = name})
                                      + (IF name = "authorization" /\ C.backends[i].api_key # None
                                           THEN 1 ELSE 0)
                    IN  sent(written[j].name) = 1
  BY DEF OneValuePerHeader
<1> DEFINE entry == Get(file.backends)[i]
           written == Or(entry.headers, <<>>)
           alike == {n \in DOMAIN written : written[n].name = written[j].name}
           token == IF written[j].name = "authorization" /\ C.backends[i].api_key # None
                      THEN 1 ELSE 0
<1>1. ResolveBackend(entry) # None /\ C.backends[i] = Get(ResolveBackend(entry))
  BY BackendsFacts
<1>2. /\ IsInjective([n \in DOMAIN written |-> written[n].name])
      /\ C.backends[i].api_key # None => written[j].name # "authorization"
  BY <1>1, BackendFacts
<1>3. alike = {j}
  BY <1>2 DEF IsInjective
<1>4. Cardinality(alike) = 1
  BY <1>3, FS_Singleton
<1>5. token = 0
  BY <1>2
<1> HIDE DEF alike, token
<1>6. Cardinality(alike) + token = 1
  BY <1>4, <1>5
<1> QED
  BY <1>6 DEF alike, token

\* Whatever the command line, the environment and the file say, what
\* Config::resolve accepts is usable: BackendRegistry::new, the semaphores, the
\* fair queue and the retention job do not fail on it, certificate and key are
\* two files unless they are hard links or a link leads to a file that is not
\* there yet, and a backend has one value per header.
THEOREM AcceptedConfigIsUsable == Spec => []AcceptedIsUsable
<1>1. ConfigInv => AcceptedIsUsable
  BY BuildableHolds, TlsFilesDistinctHolds, OneValuePerHeaderHolds DEF AcceptedIsUsable
<1> QED
  BY <1>1, ConfigInit, ConfigStep, PTL DEF Spec

-----------------------------------------------------------------------------
(* Precedence.                                                             *)

\* resolve_string takes the highest source that is there and can be read.
LEMMA StringFacts ==
  ASSUME NEW cli, NEW env, NEW cfg, NEW default
  PROVE  LET value == ResolveString(cli, env, cfg, default) IN
         IF cli # None THEN value = Get(cli)
         ELSE IF Var(env) # None THEN value = Get(Var(env))
         ELSE cfg # None => value = Get(cfg)
BY DEF ResolveString, First, Or

\* A complete address of the environment is the one bound unless the command
\* line gives a part; then, or without one, each part is the highest source's.
LEMMA BindFacts ==
  ASSUME NEW cli, NEW env, NEW f
  PROVE  LET bind == ResolveBind(cli, env, f)
             addr == NonEmpty(Var(env.BIND_ADDR))
             onCli == cli.host # None \/ cli.port # None
         IN  IF addr # None /\ ~onCli
               THEN bind.addr = addr
               ELSE /\ bind.addr = None
                    /\ Get(bind.host) = Or(First(cli.host, f.host), "127.0.0.1")
                    /\ Get(bind.port) = Or(First(cli.port, f.port), 3000)
<1> DEFINE host == Or(First(cli.host, f.host), "127.0.0.1")
           port == Or(First(cli.port, f.port), 3000)
           whole == [addr |-> Var(env.BIND_ADDR), host |-> None, port |-> None]
           parts == [addr |-> None, host |-> Some(host), port |-> Some(port)]
           addr == NonEmpty(Var(env.BIND_ADDR))
           onCli == cli.host # None \/ cli.port # None
<1>1. ResolveBind(cli, env, f) = IF addr # None /\ ~onCli THEN whole ELSE parts
  BY DEF ResolveBind
<1>2. addr # None => addr = Var(env.BIND_ADDR)
  BY DEF NonEmpty
<1>3. /\ whole.addr = Var(env.BIND_ADDR)
      /\ parts.addr = None /\ parts.host = Some(host) /\ parts.port = Some(port)
  OBVIOUS
<1>4. Get(Some(host)) = host /\ Get(Some(port)) = port
  BY SomeFacts
<1> HIDE DEF whole, parts, addr, onCli, host, port
<1>5. IF addr # None /\ ~onCli
        THEN ResolveBind(cli, env, f).addr = addr
        ELSE /\ ResolveBind(cli, env, f).addr = None
             /\ Get(ResolveBind(cli, env, f).host) = host
             /\ Get(ResolveBind(cli, env, f).port) = port
  BY <1>1, <1>2, <1>3, <1>4
<1> QED
  BY <1>5 DEF addr, onCli, host, port

\* The highest source wins, for every setting that has all of them.
LEMMA HigherSourceWinsHolds == ConfigInv => HigherSourceWins
<1> DEFINE wins(cli, env, cfg, value) ==
             IF cli # None THEN value = Get(cli)
             ELSE IF env # None THEN value = Get(env)
             ELSE cfg # None => value = Get(cfg)
           parsedWins(cli, env, cfg, value) ==
             IF cli = None /\ env # None THEN Get(env) = Some(value)
             ELSE wins(cli, None, cfg, value)
           addr == NonEmpty(Var(src.env.BIND_ADDR))
           onCli == src.cli.host # None \/ src.cli.port # None
<1> SUFFICES ASSUME ConfigInv, Accepted
             PROVE  /\ wins(src.cli.db, Var(src.env.DB_PATH), file.db_path, C.db_path)
                    /\ wins(src.cli.cert, Var(src.env.TLS_CERT_PATH), file.cert_path, C.tls.cert)
                    /\ wins(src.cli.key, Var(src.env.TLS_KEY_PATH), file.key_path, C.tls.key)
                    /\ parsedWins(src.cli.tls, Var(src.env.TLS_ENABLED), file.tls_enabled,
                                  C.tls.enabled)
                    /\ parsedWins(src.cli.max_concurrency, src.env.MAX_CONCURRENCY,
                                  file.max_concurrency, C.max_concurrency)
                    /\ IF addr # None /\ ~onCli
                         THEN C.bind.addr = addr
                         ELSE /\ C.bind.addr = None
                              /\ wins(src.cli.host, None, file.host, Get(C.bind.host))
                              /\ wins(src.cli.port, None, file.port, Get(C.bind.port))
  BY DEF HigherSourceWins
<1>1. wins(src.cli.db, Var(src.env.DB_PATH), file.db_path, C.db_path)
  BY AcceptedParts, StringFacts
<1>2. /\ wins(src.cli.cert, Var(src.env.TLS_CERT_PATH), file.cert_path, C.tls.cert)
      /\ wins(src.cli.key, Var(src.env.TLS_KEY_PATH), file.key_path, C.tls.key)
  <2>1. /\ C.tls.cert = ResolveString(src.cli.cert, src.env.TLS_CERT_PATH, file.cert_path,
                                      DefaultCert)
        /\ C.tls.key = ResolveString(src.cli.key, src.env.TLS_KEY_PATH, file.key_path,
                                     DefaultKey)
    BY AcceptedParts, TlsFacts
  <2> QED
    BY <2>1, StringFacts
<1>3. parsedWins(src.cli.tls, Var(src.env.TLS_ENABLED), file.tls_enabled, C.tls.enabled)
  <2> DEFINE e == Var(src.env.TLS_ENABLED)
  <2>1. /\ src.cli.tls # None => C.tls.enabled = Get(src.cli.tls)
        /\ src.cli.tls = None /\ e # None => Get(e) # None /\ C.tls.enabled = Get(Get(e))
        /\ src.cli.tls = None /\ e = None /\ file.tls_enabled # None =>
             C.tls.enabled = Get(file.tls_enabled)
    BY AcceptedParts, TlsFacts
  <2>2. e # None => IsOption(Get(e))
    BY FileIsParsed
  <2> HIDE DEF e
  <2>3. src.cli.tls = None /\ e # None => Get(e) = Some(C.tls.enabled)
    BY <2>1, <2>2 DEF IsOption
  <2> QED
    BY <2>1, <2>3 DEF e
<1>4. parsedWins(src.cli.max_concurrency, src.env.MAX_CONCURRENCY, file.max_concurrency,
                 C.max_concurrency)
  <2> DEFINE e == src.env.MAX_CONCURRENCY
  <2>1. /\ src.cli.max_concurrency # None => C.max_concurrency = Get(src.cli.max_concurrency)
        /\ src.cli.max_concurrency = None /\ e # None =>
             Get(e) # None /\ C.max_concurrency = Get(Get(e))
        /\ src.cli.max_concurrency = None /\ e = None /\ file.max_concurrency # None =>
             C.max_concurrency = Get(file.max_concurrency)
    BY AcceptedParts, ConcurrencyFacts
  <2>2. e # None => IsOption(Get(e))
    BY FileIsParsed
  <2> HIDE DEF e
  <2>3. src.cli.max_concurrency = None /\ e # None => Get(e) = Some(C.max_concurrency)
    BY <2>1, <2>2 DEF IsOption
  <2> QED
    BY <2>1, <2>3 DEF e
<1>5. IF addr # None /\ ~onCli
        THEN C.bind.addr = addr
        ELSE /\ C.bind.addr = None
             /\ wins(src.cli.host, None, file.host, Get(C.bind.host))
             /\ wins(src.cli.port, None, file.port, Get(C.bind.port))
  <2>1. C.bind = ResolveBind(src.cli, src.env, file)
    BY AcceptedParts
  <2>2. IF addr # None /\ ~onCli
          THEN C.bind.addr = addr
          ELSE /\ C.bind.addr = None
               /\ Get(C.bind.host) = Or(First(src.cli.host, file.host), "127.0.0.1")
               /\ Get(C.bind.port) = Or(First(src.cli.port, file.port), 3000)
    BY <2>1, BindFacts
  <2> HIDE DEF addr, onCli
  <2> QED
    BY <2>2 DEF Or, First
<1> QED
  BY <1>1, <1>2, <1>3, <1>4, <1>5

\* An upstream that was given is the one backend's.
LEMMA NoUpstreamDroppedHolds == ConfigInv => NoUpstreamDropped
<1> DEFINE given == First(src.cli.upstream, First(Var(src.env.UPSTREAM_URL), file.upstream))
<1> SUFFICES ASSUME ConfigInv, Accepted, given # None
             PROVE  C.flat_passthrough /\ C.backends[1].upstream.base = Get(given).base
  BY DEF NoUpstreamDropped
<1>1. file.backends = None
  BY AcceptedParts DEF ModeAllowed, First
<1>2. C.flat_passthrough
  BY <1>1, AcceptedParts
<1>3. IsUrlOption(given)
  BY FileIsParsed DEF FileParsed, First
<1> DEFINE url == Get(given)
           cut == [url EXCEPT !.slash = FALSE]
           upstream == ResolveUpstream(src.cli.upstream, src.env.UPSTREAM_URL, file.upstream)
           watts == ValidateGpuWatts(Or(file.gpu_watts, 0))
<1>4. upstream # None /\ C.backends = <<FlatBackend(Get(upstream), Get(watts))>>
  BY <1>1, BackendsFacts
<1>5. upstream = Check(url.valid, cut)
  BY DEF ResolveUpstream, ValidateUpstream, ResolveString, Or
<1>6. cut.base = url.base
  BY <1>3 DEF IsUrlOption
<1> HIDE DEF cut, url, upstream, watts, given
<1>7. Get(upstream) = cut
  BY <1>4, <1>5, SomeFacts DEF Check
<1>8. C.backends[1].upstream = Get(upstream)
  BY <1>4 DEF FlatBackend
<1> QED
  BY <1>2, <1>6, <1>7, <1>8 DEF url

\* Whatever the sources say, the highest one that sets a value in readable form
\* decides it, one that cannot be parsed or a MAX_CONCURRENCY that is no Unicode
\* is refused, and no upstream is dropped in favour of a backends array
\* (Config::resolve).
THEOREM ConfiguredSettingsAreHonoured == Spec => []SettingsHonoured
<1>1. ConfigInv => SettingsHonoured
  BY HigherSourceWinsHolds, NoUpstreamDroppedHolds DEF SettingsHonoured
<1> QED
  BY <1>1, ConfigInit, ConfigStep, PTL DEF Spec

=============================================================================
