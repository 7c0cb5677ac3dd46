----------------------------- MODULE MCStartup -----------------------------
(***************************************************************************)
(* The way to a serving process: the configuration is resolved and, when   *)
(* it is accepted with TLS, the certificate files are loaded or made, over *)
(* any number of starts. Sources of the configuration: around a base where *)
(* nothing is set, one theme at a time is varied over all of its sources.  *)
(***************************************************************************)
EXTENDS Config, TlsFiles

Opt(S) == {None} \cup {Some(x) : x \in S}

BaseCli == [config |-> None, host |-> None, port |-> None, upstream |-> None, db |-> None,
            max_concurrency |-> None, tls |-> None, cert |-> None, key |-> None]

BaseEnv == [CONFIG_PATH |-> None, UPSTREAM_URL |-> None, DB_PATH |-> None,
            MAX_CONCURRENCY |-> None, BIND_ADDR |-> None, DASHBOARD_USER |-> None,
            DASHBOARD_PASSWORD |-> None, METRICS_TOKEN |-> None, TLS_ENABLED |-> None,
            TLS_CERT_PATH |-> None, TLS_KEY_PATH |-> None]

OnDisk(f) == [p \in {"config.json", "named.json"} |->
                IF p = "config.json" THEN Some(Some(f)) ELSE None]

Src(cli, env, f) == [cli |-> cli, env |-> env, disk |-> OnDisk(f)]

\* Which file is read, and whether it is there and parses
ConfigFiles ==
  LET contents == {None, Some(None), Some(Some(EmptyFile)),
                   Some(Some([EmptyFile EXCEPT !.db_path = Some("other.db")]))}
  IN  {[cli |-> [BaseCli EXCEPT !.config = c], env |-> [BaseEnv EXCEPT !.CONFIG_PATH = e],
        disk |-> [p \in {"config.json", "named.json"} |-> IF p = "config.json" THEN d ELSE n]] :
        c \in Opt({"named.json"}), e \in Opt({"named.json", NotUnicode}),
        d \in contents, n \in contents}

\* Settings with three sources
Precedence ==
  {Src([BaseCli EXCEPT !.db = c, !.host = h, !.port = p],
       [BaseEnv EXCEPT !.DB_PATH = e, !.BIND_ADDR = b],
       [EmptyFile EXCEPT !.db_path = f, !.host = Some("h-file")]) :
     c \in Opt({"c"}), e \in Opt({"e", "", NotUnicode}), f \in Opt({"f"}),
     h \in Opt({"h-cli"}), p \in Opt({8080}), b \in Opt({"", "h-env:1", NotUnicode})}

\* Numbers at their limits
Limits ==
  {Src([BaseCli EXCEPT !.max_concurrency = c], [BaseEnv EXCEPT !.MAX_CONCURRENCY = e],
       [EmptyFile EXCEPT !.max_concurrency = f]) :
     c \in Opt({0, 1, MaxPermits + 1}), e \in Opt({None, Some(0), Some(2)}),
     f \in Opt({0, MaxPermits})}
  \cup
  {Src(BaseCli, BaseEnv,
       [EmptyFile EXCEPT !.retention_days = r, !.window_seconds = w, !.overload_factor = l,
                         !.gpu_watts = g, !.max_rows = m]) :
     r \in Opt({0, MaxInt \div SecondsPerDay, MaxInt \div SecondsPerDay + 1, MaxInt + 1}),
     w \in Opt({0, 1}), l \in Opt({3, 4}), g \in Opt({-1, 0}), m \in Opt({0, 1})}

Lists ==
  {Src(BaseCli, BaseEnv, [EmptyFile EXCEPT !.cards = c, !.graphs = g, !.trusted_proxies = u]) :
     c \in Opt({<<>>, <<"cost">>, <<"cost", "cost">>, <<"unknown">>}),
     g \in Opt({<<"today">>, <<"today", "over_time", "today">>}),
     u \in Opt({<<"ip">>, <<"ip", "bad">>})}

\* Certificate and key: other names, the same name, symbolic links to a file
\* that is there (b to x) and to one that is not (c to a), and a hard link (z)
At(norm, target, inode) == [norm |-> norm, target |-> target, inode |-> inode]

Paths == {At("a", "a", None), At("x", "x", Some(1)), At("b", "x", Some(1)),
          At("b", "y", Some(2)), At("z", "z", Some(1)), At("c", "a", None),
          At("", "", None), DefaultKey}

Tls ==
  {Src([BaseCli EXCEPT !.tls = t, !.cert = c],
       [BaseEnv EXCEPT !.TLS_CERT_PATH = ec, !.TLS_KEY_PATH = k],
       [EmptyFile EXCEPT !.tls_enabled = Some(TRUE), !.key_path = fk, !.hostnames = hn]) :
     t \in Opt({TRUE}), c \in Opt(Paths), ec \in Opt({At("b", "b", None)}),
     k \in Opt(Paths \cup {NotUnicode}), fk \in Opt({At("x", "x", Some(1))}),
     hn \in Opt({<<"">>})}
  \cup
  {Src([BaseCli EXCEPT !.tls = t], [BaseEnv EXCEPT !.TLS_ENABLED = e],
       [EmptyFile EXCEPT !.tls_enabled = f, !.hostnames = hn]) :
     t \in Opt(BOOLEAN), e \in Opt({None, Some(TRUE), Some(FALSE), NotUnicode}),
     f \in Opt(BOOLEAN), hn \in Opt({<<>>, <<"">>})}

-----------------------------------------------------------------------------

Url(base) == [valid |-> TRUE, base |-> base, slash |-> TRUE]
BadUrl == [valid |-> FALSE, base |-> "ftp", slash |-> FALSE]

Entry == [upstream |-> Some(Url("p1")), api_key |-> None, key_env |-> None, headers |-> None,
          gpu_watts |-> None, poll |-> Some(5), models |-> None, model_filter |-> None]

H(text, name, ok) == [text |-> text, name |-> name, ok |-> ok]
HeaderTexts == {H("Authorization", "authorization", TRUE),
                H("authorization", "authorization", TRUE),
                H("x-a", "x-a", TRUE), H("bad name", "", FALSE)}

Headers ==
  {Src(BaseCli, BaseEnv,
       [EmptyFile EXCEPT !.backends = Some(<<[Entry EXCEPT !.api_key = a, !.key_env = e,
                                                           !.headers = Some(h)]>>)]) :
     a \in Opt({"k"}), e \in Opt({None, Some(""), Some("k2")}),
     h \in UNION {[1..n -> HeaderTexts] : n \in 0..2}}

Entries ==
  {Src(BaseCli, BaseEnv,
       [EmptyFile EXCEPT !.backends = Some(<<Entry, [Entry EXCEPT !.upstream = u, !.poll = p,
                                                       !.models = m, !.model_filter = f,
                                                       !.gpu_watts = g]>>)]) :
     u \in {None, Some(BadUrl), Some(Url("p2"))}, p \in Opt({0, 1}), m \in Opt({<<>>, <<"m">>}),
     f \in Opt({<<>>, <<"">>, <<"m">>, <<"m", "m">>}), g \in Opt({-1, 3})}

\* The array and the flat settings
Modes ==
  {Src([BaseCli EXCEPT !.upstream = c], [BaseEnv EXCEPT !.UPSTREAM_URL = e],
       [EmptyFile EXCEPT !.upstream = f, !.gpu_watts = g, !.backends = b]) :
     c \in Opt({Url("c"), BadUrl}), e \in Opt({Url("e"), NotUnicode}),
     f \in Opt({Url("f"), BadUrl}),
     g \in Opt({2}), b \in Opt({<<>>, <<Entry>>, <<Entry, Entry>>})}

\* Secrets, which may be set and empty
Secrets ==
  {Src(BaseCli,
       [BaseEnv EXCEPT !.DASHBOARD_PASSWORD = p, !.METRICS_TOKEN = t, !.DASHBOARD_USER = u],
       [EmptyFile EXCEPT !.dashboard_password = fp, !.metrics_token = ft]) :
     p \in Opt({"", "p", NotUnicode}), t \in Opt({"", "short", "tok", NotUnicode}),
     u \in Opt({"", "root"}),
     fp \in Opt({"", "fp"}), ft \in Opt({"", "short", "ftok"})}

MCSources == ConfigFiles \cup Precedence \cup Limits \cup Lists \cup Tls \cup Headers \cup Entries
             \cup Modes \cup Secrets

-----------------------------------------------------------------------------

StartupInit == Init /\ TlsInit

\* The program starts again with the configuration it has; another one is
\* another behaviour.
StartupNext ==
  \/ Next /\ UNCHANGED tlsVars
  \/ /\ Accepted /\ Get(config).tls.enabled
     /\ TlsNext
     /\ UNCHANGED vars

StartupSpec == StartupInit /\ [][StartupNext]_<<vars, tlsVars>>
=============================================================================
