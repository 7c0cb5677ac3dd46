------------------------------- MODULE Config -------------------------------
(***************************************************************************)
(* Resolution of the configuration: crates/twl-config/src/config.rs.       *)
(*                                                                         *)
(* Three sources are merged, the command line, the environment and a JSON  *)
(* file, each validated where it is read. Every resolver below returns an  *)
(* option: None stands for the ConfigError of the code. What later parts   *)
(* of the program do with an accepted configuration, and would panic on,   *)
(* is in the properties.                                                   *)
(*                                                                         *)
(* A URL is [valid, base, slash]: valid sums up parsing, scheme, host, and *)
(* the absence of query and fragment. A path is [norm, target, inode]: the *)
(* lexical normal form, the name that is left when the file system has     *)
(* followed every symbolic link, and the file there, None if there is      *)
(* none; without a link target is norm. Numbers are scaled down, strings   *)
(* are short.                                                              *)
(***************************************************************************)
EXTENDS Integers, Sequences, FiniteSets, SequencesExt

CONSTANTS
  Sources,       \* the [cli, env, disk] to resolve
  NotUnicode,    \* an environment variable's value that is no Unicode
  MaxPermits,    \* tokio's Semaphore::MAX_PERMITS, scaled
  SecondsPerDay, \* scaled
  MaxInt         \* i64::MAX, scaled; the default of 90 days is below it

ASSUME ConfigAssumption ==
  /\ MaxPermits \in Nat /\ MaxPermits >= 32
  /\ SecondsPerDay \in Nat \ {0}
  /\ MaxInt \in Nat /\ MaxInt >= 90 * SecondsPerDay

VARIABLES
  src,     \* the sources
  phase,   \* "start", "loaded", "accepted" or "rejected"
  file,    \* the ConfigFile, EmptyFile when there is none
  config   \* the Config, once accepted

vars == <<src, phase, file, config>>

None == <<>>
Some(x) == <<x>>
Get(option) == option[1]
Or(option, default) == IF option = None THEN default ELSE Get(option)
\* Option::or_else
First(a, b) == IF a = None THEN b ELSE a
\* filter(|s| !s.is_empty())
NonEmpty(option) == IF option = Some("") THEN None ELSE option
Check(ok, value) == IF ok THEN Some(value) ELSE None

\* DashboardConfig::default
Cards == <<"cost", "energy", "tokens", "requests", "io", "cache_hit">>
Graphs == <<"today", "over_time">>

\* ConfigFile's fields; every one is optional.
EmptyFile ==
  [host |-> None, port |-> None, upstream |-> None, db_path |-> None,
   max_concurrency |-> None, gpu_watts |-> None, backends |-> None,
   dashboard_user |-> None, dashboard_password |-> None, public_usage |-> None,
   require_api_key |-> None, strategy |-> None, overload_factor |-> None,
   fair_enabled |-> None, window_seconds |-> None, cards |-> None, graphs |-> None,
   max_rows |-> None, trusted_proxies |-> None, retention_days |-> None, tls_enabled |-> None,
   cert_path |-> None, key_path |-> None, hostnames |-> None, metrics_token |-> None]

-----------------------------------------------------------------------------
(* One resolver per setting.                                               *)

\* std::env::var(..).ok(): what is no Unicode is passed over like a variable
\* that is not set.
Var(value) == IF value = Some(NotUnicode) THEN None ELSE value

\* resolve_string
ResolveString(cli, env, cfg, default) == Or(First(cli, First(Var(env), cfg)), default)

\* resolve_max_concurrency: the environment's value is Some(None) when it is
\* there and no number, or no Unicode: this one variable is not passed over.
ResolveMaxConcurrency(cli, env, cfg) ==
  LET validate(n) == Check(n \in 1..MaxPermits, n) IN
  IF cli # None THEN validate(Get(cli))
  ELSE IF env # None THEN (IF Get(env) = None THEN None ELSE validate(Get(Get(env))))
  ELSE IF cfg # None THEN validate(Get(cfg))
  ELSE Some(32)

\* validate_upstream: trailing slashes go.
ValidateUpstream(url) == Check(url.valid, [url EXCEPT !.slash = FALSE])

DefaultUrl == [valid |-> TRUE, base |-> "127.0.0.1:8080", slash |-> FALSE]

\* resolve_upstream
ResolveUpstream(cli, env, cfg) == ValidateUpstream(ResolveString(cli, env, cfg, DefaultUrl))

\* resolve_bind: any command-line part makes BIND_ADDR, a complete address, be
\* ignored; an empty BIND_ADDR counts as none.
ResolveBind(cli, env, f) ==
  IF cli.host = None /\ cli.port = None /\ NonEmpty(Var(env.BIND_ADDR)) # None
    THEN [addr |-> Var(env.BIND_ADDR), host |-> None, port |-> None]
    ELSE [addr |-> None,
          host |-> Some(Or(First(cli.host, f.host), "127.0.0.1")),
          port |-> Some(Or(First(cli.port, f.port), 3000))]

\* resolve_dashboard_auth
ResolveDashboardAuth(env, f) ==
  LET user == Or(First(Var(env.DASHBOARD_USER), f.dashboard_user), "admin")
      password == NonEmpty(First(Var(env.DASHBOARD_PASSWORD), f.dashboard_password))
  IN  IF password = None THEN None ELSE Some(<<user, Get(password)>>)

\* resolve_metrics_token: None is the error, Some(None) no token. A short
\* token is "short".
ResolveMetricsToken(env, f) ==
  LET token == NonEmpty(First(Var(env.METRICS_TOKEN), f.metrics_token))
  IN  Check(token # Some("short"), token)

\* validate_gpu_watts: JSON has no infinity.
ValidateGpuWatts(watts) == Check(watts >= 0, watts)

\* resolve_load_balancing: the factor in quarters, 4 is 1.0.
ResolveLoadBalancing(f) ==
  LET factor == Or(f.overload_factor, 5) IN
  Check(factor >= 4, [strategy |-> Or(f.strategy, "least-loaded"), overload_factor |-> factor])

\* resolve_fair_queue
ResolveFairQueue(f) ==
  LET window == Or(f.window_seconds, 1800) IN
  Check(window # 0, [enabled |-> Or(f.fair_enabled, FALSE), window_seconds |-> window])

\* resolve_retention_days
ResolveRetentionDays(f) ==
  LET days == Or(f.retention_days, 90)
  IN  Check(days <= MaxInt /\ days * SecondsPerDay <= MaxInt, days)

\* resolve_dashboard: known identifiers, each once; a proxy that is no IP
\* address is "bad".
ResolveDashboard(f) ==
  LET cards == Or(f.cards, Cards)
      graphs == Or(f.graphs, Graphs)
      trusted == Or(f.trusted_proxies, <<>>)
  IN  Check(/\ ToSet(cards) \subseteq ToSet(Cards) /\ IsInjective(cards)
            /\ ToSet(graphs) \subseteq ToSet(Graphs) /\ IsInjective(graphs)
            /\ f.max_rows # None => Get(f.max_rows) >= 1
            /\ "bad" \notin ToSet(trusted),
            [cards |-> cards, graphs |-> graphs, max_rows |-> f.max_rows, trusted |-> trusted])

\* comparable_tls_path: canonicalize, which needs the file to be there
Canonical(path) == IF path.inode = None THEN None ELSE Some(path.target)

\* The comparison of validate_distinct_paths
SamePath(a, b) ==
  a.norm = b.norm \/ (Canonical(a) # None /\ Canonical(a) = Canonical(b))

\* Fault: only the names of the two files are compared.
ValidateNamesOnly(tls) == tls.enabled => tls.cert.norm # tls.key.norm

ValidateDistinctPaths(tls) == tls.enabled => ~SamePath(tls.cert, tls.key)

\* The two files of a first start, to be made where they are named
DefaultCert == [norm |-> "tls/cert.pem", target |-> "tls/cert.pem", inode |-> None]
DefaultKey == [norm |-> "tls/key.pem", target |-> "tls/key.pem", inode |-> None]

\* resolve_tls: TLS_ENABLED is Some(None) when it is neither true nor false.
\* What is validated only matters when TLS is on.
ResolveTls(cli, env, f) ==
  LET enabled ==
        IF cli.tls # None THEN cli.tls
        ELSE IF Var(env.TLS_ENABLED) # None THEN Get(env.TLS_ENABLED)
        ELSE Some(Or(f.tls_enabled, TRUE))
      cert == ResolveString(cli.cert, env.TLS_CERT_PATH, f.cert_path, DefaultCert)
      key == ResolveString(cli.key, env.TLS_KEY_PATH, f.key_path, DefaultKey)
      hostnames == IF f.hostnames \in {None, Some(<<>>)} THEN <<"localhost">>
                   ELSE Get(f.hostnames)
      tls == [enabled |-> Get(enabled), cert |-> cert, key |-> key, hostnames |-> hostnames]
  IN  IF enabled = None THEN None
      ELSE Check(/\ Get(enabled) => /\ cert.norm # "" /\ key.norm # ""
                                    /\ "" \notin ToSet(hostnames)
                 /\ ValidateDistinctPaths(tls), tls)

-----------------------------------------------------------------------------
(* The backends array. A header is [text, name, ok]: its name as written,  *)
(* the lower-case name, and whether name and value are legal.              *)

\* resolve_backend_headers: canonical names, no two alike
ResolveBackendHeaders(headers) ==
  Check(/\ \A i \in DOMAIN headers : headers[i].ok
        /\ IsInjective([i \in DOMAIN headers |-> headers[i].name]),
        {headers[i].name : i \in DOMAIN headers})

\* models_poll_secs is at least one second, and there is a source of models.
PollOk(entry) ==
  /\ entry.poll # None => Get(entry.poll) >= 1
  /\ entry.poll # None \/ entry.models # None

\* One entry of resolve_backends. key_env is the variable api_key_env names:
\* Some(None) if it is not set or no Unicode. The bytes of a key are not looked
\* at; what becomes of one that is no header value is Forwarding's.
ResolveBackend(entry) ==
  LET upstream == IF entry.upstream = None THEN None ELSE ValidateUpstream(Get(entry.upstream))
      fromEnv == IF entry.key_env = None THEN None ELSE Get(entry.key_env)
      key == First(entry.api_key, fromEnv)
      headers == ResolveBackendHeaders(Or(entry.headers, <<>>))
      filter == Or(entry.model_filter, <<"any">>)
  IN  IF /\ upstream # None
         /\ ~(entry.api_key # None /\ entry.key_env # None)
         /\ entry.key_env # None => NonEmpty(fromEnv) # None
         /\ ValidateGpuWatts(Or(entry.gpu_watts, 0)) # None
         /\ PollOk(entry)
         /\ headers # None
         /\ ~(key # None /\ "authorization" \in Get(headers))
         /\ filter # <<>> /\ "" \notin ToSet(filter) /\ IsInjective(filter)
      THEN Some([upstream |-> Get(upstream), api_key |-> key, headers |-> Get(headers),
                 gpu_watts |-> Or(entry.gpu_watts, 0), poll |-> entry.poll,
                 models |-> Or(entry.models, <<>>), model_filter |-> entry.model_filter])
      ELSE None

\* resolve_backends
ResolveBackends(entries) ==
  LET resolved == [i \in DOMAIN entries |-> ResolveBackend(entries[i])]
  IN  Check(entries # <<>> /\ \A i \in DOMAIN entries : resolved[i] # None,
            [i \in DOMAIN entries |-> Get(resolved[i])])

\* The backend of flat mode: a polled llama.cpp server.
FlatBackend(upstream, watts) ==
  [upstream |-> upstream, api_key |-> None, headers |-> {}, gpu_watts |-> watts,
   poll |-> Some(30), models |-> <<>>, model_filter |-> None]

\* Fault: the command line's upstream is let through beside the array.
ModeAllowedFileOnly(cli, env, f) ==
  f.backends # None => f.upstream = None /\ f.gpu_watts = None

\* A backends array excludes the flat settings, from every source.
ModeAllowed(cli, env, f) ==
  f.backends # None =>
    /\ f.upstream = None /\ f.gpu_watts = None
    /\ cli.upstream = None /\ Var(env.UPSTREAM_URL) = None

\* The backends of either mode
BackendsOf(cli, env, f) ==
  IF f.backends # None THEN ResolveBackends(Get(f.backends))
  ELSE LET watts == ValidateGpuWatts(Or(f.gpu_watts, 0))
           upstream == ResolveUpstream(cli.upstream, env.UPSTREAM_URL, f.upstream)
       IN  IF watts = None \/ upstream = None THEN None
           ELSE Some(<<FlatBackend(Get(upstream), Get(watts))>>)

-----------------------------------------------------------------------------

\* resolve_config_path and load_config_file: a named file must be there, the
\* implicit one may be missing, and either must parse. disk maps a path to
\* None, or Some(None) for a text that does not parse, or Some(Some(file)).
Loaded(s) ==
  LET named == First(s.cli.config, Var(s.env.CONFIG_PATH))
      content == s.disk[Or(named, "config.json")]
  IN  IF content = None
        THEN IF named = None THEN Some(EmptyFile) ELSE None
        ELSE Get(content)

\* What the parsers of the command line and of the JSON file promise of their
\* results: URLs in parts, unsigned seconds, and an array; and of the two variables
\* that are parsed: Some(x), or None for what is not understood.
IsOption(option) == option = None \/ option = Some(Get(option))
IsUrlOption(option) == option # None => "base" \in DOMAIN Get(option)
FileParsed(f) ==
  /\ IsUrlOption(f.upstream)
  /\ f.window_seconds # None => Get(f.window_seconds) \in Nat
  /\ f.backends # None => Get(f.backends) \in Seq(ToSet(Get(f.backends)))

ASSUME SourcesAssumption ==
  \A s \in Sources :
    /\ IsUrlOption(s.cli.upstream) /\ IsUrlOption(Var(s.env.UPSTREAM_URL))
    /\ Var(s.env.TLS_ENABLED) # None => IsOption(Get(Var(s.env.TLS_ENABLED)))
    /\ s.env.MAX_CONCURRENCY # None => IsOption(Get(s.env.MAX_CONCURRENCY))
    /\ FileParsed(Or(Loaded(s), EmptyFile))

Init ==
  /\ src \in Sources
  /\ phase = "start" /\ file = EmptyFile /\ config = None

\* The first part of Config::resolve
Load ==
  /\ phase = "start"
  /\ LET loaded == Loaded(src) IN
     /\ phase' = IF loaded = None THEN "rejected" ELSE "loaded"
     /\ file' = Or(loaded, EmptyFile)
  /\ UNCHANGED <<src, config>>

\* The parts of the configuration, each resolved or an error
Parts(cli, env, f) ==
  [retention_days  |-> ResolveRetentionDays(f),
   backends        |-> BackendsOf(cli, env, f),
   load_balancing  |-> ResolveLoadBalancing(f),
   dashboard       |-> ResolveDashboard(f),
   max_concurrency |-> ResolveMaxConcurrency(cli.max_concurrency, env.MAX_CONCURRENCY,
                                             f.max_concurrency),
   tls             |-> ResolveTls(cli, env, f),
   fair_queue      |-> ResolveFairQueue(f),
   metrics_token   |-> ResolveMetricsToken(env, f),
   bind            |-> Some(ResolveBind(cli, env, f)),
   db_path         |-> Some(ResolveString(cli.db, env.DB_PATH, f.db_path, "proxydb.db")),
   dashboard_auth  |-> Some(ResolveDashboardAuth(env, f)),
   public_usage    |-> Some(Or(f.public_usage, FALSE)),
   require_api_key |-> Some(Or(f.require_api_key, TRUE)),
   flat_passthrough |-> Some(f.backends = None)]

\* The rest of it: every resolver must succeed.
Resolve ==
  /\ phase = "loaded"
  /\ LET parts == Parts(src.cli, src.env, file)
         ok == /\ ModeAllowed(src.cli, src.env, file)
               /\ \A k \in DOMAIN parts : parts[k] # None
     IN  /\ phase' = IF ok THEN "accepted" ELSE "rejected"
         /\ config' = IF ok THEN Some([k \in DOMAIN parts |-> Get(parts[k])]) ELSE None
  /\ UNCHANGED <<src, file>>

Next == Load \/ Resolve

Spec == Init /\ [][Next]_vars

-----------------------------------------------------------------------------

C == Get(config)
Accepted == phase = "accepted"

\* What start-up builds from an accepted configuration: BackendRegistry::new's
\* assertions, the semaphores' permits, the fair queue's window, the watchdog's
\* sleep, the retention period in seconds, and the placement's factor that must
\* leave a backend under the bound.
Buildable ==
  Accepted =>
    /\ Len(C.backends) >= 1 /\ (C.flat_passthrough => Len(C.backends) = 1)
    /\ C.max_concurrency \in 1..MaxPermits
    /\ C.fair_queue.window_seconds > 0
    /\ C.retention_days * SecondsPerDay <= MaxInt
    /\ C.load_balancing.overload_factor >= 4
    /\ \A i \in DOMAIN C.backends :
         /\ C.backends[i].poll # None => Get(C.backends[i].poll) >= 1
         /\ C.backends[i].gpu_watts >= 0

\* The precedence of Config::resolve, "CLI > env > config file > defaults",
\* for every setting that has all the sources. A variable that is set but not
\* Unicode counts as not set, BIND_ADDR also when it is empty; BIND_ADDR yields
\* to a host or a port of the command line, both parts of it. Where a value is
\* parsed (TLS_ENABLED, MAX_CONCURRENCY, there what is no Unicode too), one that
\* is set, decides and is unusable is never passed over for a lower source.
HigherSourceWins ==
  Accepted =>
    LET wins(cli, env, cfg, value) ==
          IF cli # None THEN value = Get(cli)
          ELSE IF env # None THEN value = Get(env)
          ELSE cfg # None => value = Get(cfg)
        parsedWins(cli, env, cfg, value) ==
          IF cli = None /\ env # None THEN Get(env) = Some(value) ELSE wins(cli, None, cfg, value)
        cli == src.cli
        env == src.env
        addr == NonEmpty(Var(env.BIND_ADDR))
        onCli == cli.host # None \/ cli.port # None
    IN  /\ wins(cli.db, Var(env.DB_PATH), file.db_path, C.db_path)
        /\ wins(cli.cert, Var(env.TLS_CERT_PATH), file.cert_path, C.tls.cert)
        /\ wins(cli.key, Var(env.TLS_KEY_PATH), file.key_path, C.tls.key)
        /\ parsedWins(cli.tls, Var(env.TLS_ENABLED), file.tls_enabled, C.tls.enabled)
        /\ parsedWins(cli.max_concurrency, env.MAX_CONCURRENCY, file.max_concurrency,
                      C.max_concurrency)
        /\ IF addr # None /\ ~onCli
             THEN C.bind.addr = addr
             ELSE /\ C.bind.addr = None
                  /\ wins(cli.host, None, file.host, Get(C.bind.host))
                  /\ wins(cli.port, None, file.port, Get(C.bind.port))

\* A backends array and the flat settings never meet in one accepted
\* configuration: no upstream that is given (a variable in Unicode, if it is the
\* environment's) is silently dropped.
NoUpstreamDropped ==
  Accepted =>
    LET given == First(src.cli.upstream, First(Var(src.env.UPSTREAM_URL), file.upstream)) IN
    given # None => /\ C.flat_passthrough
                    /\ C.backends[1].upstream.base = Get(given).base

\* Whether writing one path is writing the other: both are one file, or the
\* one that is made will be found under both.
OneFile(a, b) ==
  IF a.inode = None /\ b.inode = None THEN a.target = b.target ELSE a.inode = b.inode

\* The certificate is never written over the private key or read from its file,
\* also when one path is a symbolic link to the other. What the comparison of
\* names cannot see are two hard links to one file, and a file not there yet
\* that one of the paths reaches through a symbolic link (validate_distinct_paths).
TlsFilesDistinct ==
  Accepted /\ C.tls.enabled =>
    LET cert == C.tls.cert
        key == C.tls.key
        hardLinks == cert.inode # None /\ cert.target # key.target
        linkToMissing == /\ cert.inode = None
                         /\ cert.target # cert.norm \/ key.target # key.norm
    IN  OneFile(cert, key) => hardLinks \/ linkToMissing

\* A backend is sent one value per header: Backend::new puts the provider's
\* bearer token and the configured headers side by side, and names compare
\* without case.
OneValuePerHeader ==
  Accepted /\ file.backends # None =>
    \A i \in DOMAIN C.backends :
      LET written == Or(Get(file.backends)[i].headers, <<>>)
          sent(name) == Cardinality({j \in DOMAIN written : written[j].name = name})
                        + (IF name = "authorization" /\ C.backends[i].api_key # None
                             THEN 1 ELSE 0)
      IN  \A j \in DOMAIN written : sent(written[j].name) = 1

\* Of an accepted configuration (Config::resolve): the constructors of start-up
\* do not panic on it; certificate and key are two files, as far as paths tell;
\* and every header of a backend has one value.
AcceptedIsUsable == Buildable /\ TlsFilesDistinct /\ OneValuePerHeader

\* What someone configured in readable form is in effect, or was overridden by a
\* source of higher precedence, or is refused (Config::resolve).
SettingsHonoured == HigherSourceWins /\ NoUpstreamDropped

=============================================================================
