--------------------------- MODULE LoginThrottle ---------------------------
(***************************************************************************)
(* The login throttle: crates/twl-server/src/ratelimit.rs and the order in *)
(* which login_api (handlers/session.rs) calls it.                         *)
(*                                                                         *)
(* An attempt checks the table, verifies the password without holding any  *)
(* lock, and records the outcome: attempts of one client overlap, so some  *)
(* pass the check before the failures of others are recorded. The table    *)
(* holds how long a client is still blocked, blocked_until - now, instead  *)
(* of a point in time. Passwords are external: an attempt may fail or      *)
(* succeed, whichever account it names.                                    *)
(***************************************************************************)
EXTENDS Integers, Sequences, FiniteSets, Functions, SequencesExt

CONSTANTS
  Attempts,       \* login requests in flight, over and over
  Clients,        \* addresses of clients
  Proxies,        \* addresses of reverse proxies in front of the server
  Trusted,        \* trusted_proxies
  Paths,          \* the proxies a request may pass, the last one next to the server
  Junk,           \* what clients put in X-Forwarded-For: sequences of
                  \* addresses or Malformed
  RealIps,        \* what X-Real-IP may hold: addresses or NoAddress
  Malformed,      \* a hop that is no address
  NoAddress,      \* no X-Real-IP header, or one that is no address
  CAP,            \* tracked clients
  FREE_ATTEMPTS,
  MAX_BACKOFF,
  MaxFailures     \* the failure counter saturates here: u32::MAX in the code

ASSUME ThrottleAssumption ==
  /\ Trusted \subseteq Proxies /\ Clients \cap Proxies = {}
  /\ CAP \in Nat \ {0} /\ FREE_ATTEMPTS \in Nat
  /\ MAX_BACKOFF \in Nat \ {0} /\ MaxFailures \in Nat \ {0}
  /\ {Malformed, NoAddress} \cap (Clients \cup Proxies) = {}
  /\ RealIps \subseteq Clients \cup Proxies \cup {NoAddress}
  /\ \A path \in Paths : path \in Seq(Proxies)
  /\ \A junk \in Junk : junk \in Seq(Clients \cup Proxies \cup {Malformed})

VARIABLES
  map,      \* key -> [failures, blocked]; blocked > 0: seconds to go
  attempt   \* what each login request holds

vars == <<map, attempt>>

Idle == [pc |-> "idle"]
Empty == <<>>

Least(a, b) == IF a < b THEN a ELSE b

\* backoff_for_failures: BASE_BACKOFF_SECS is one second.
BackoffForFailures(failures) ==
  IF failures <= FREE_ATTEMPTS THEN 0
  ELSE Least(MAX_BACKOFF, 2 ^ Least(failures - FREE_ATTEMPTS - 1, 32))

\* The last of a sequence of addresses that is not a trusted proxy
LastUntrusted(s) ==
  s[CHOOSE i \in DOMAIN s : s[i] \notin Trusted /\ \A j \in (i + 1)..Len(s) : s[j] \in Trusted]

\* X-Forwarded-For says nothing: a hop of the line is no address, or all of
\* them are trusted (or there is no line).
Unreadable(line) == Malformed \in ToSet(line) \/ ToSet(line) \subseteq Trusted

\* Fault: the chain is read from the left.
ClientIpLeftmost(peer, line, real) ==
  CASE peer \notin Trusted -> peer
    [] peer \in Trusted /\ ~Unreadable(line) ->
         line[CHOOSE i \in DOMAIN line :
                line[i] \notin Trusted /\ \A j \in 1..(i - 1) : line[j] \in Trusted]
    [] OTHER -> IF real # NoAddress THEN real ELSE peer

\* client_ip: the rightmost hop that is not a trusted proxy, of the first
\* X-Forwarded-For line a trusted peer sent; else X-Real-IP, if it is an
\* address; else the peer.
ClientIp(peer, line, real) ==
  CASE peer \notin Trusted -> peer
    [] peer \in Trusted /\ ~Unreadable(line) -> LastUntrusted(line)
    [] OTHER -> IF real # NoAddress THEN real ELSE peer

\* check
Blocked(k) == k \in DOMAIN map /\ map[k].blocked > 0

\* Fault: one client more than the capacity.
EvictLate(k, now) ==
  IF k \in DOMAIN now \/ Cardinality(DOMAIN now) <= CAP THEN {now}
  ELSE {Restrict(now, {j \in DOMAIN now : now[j].blocked > 0})}

\* Fault: any entry makes room.
EvictAny(k, now) ==
  IF k \in DOMAIN now \/ Cardinality(DOMAIN now) < CAP THEN {now}
  ELSE {Restrict(now, DOMAIN now \ {j}) : j \in DOMAIN now}

\* The targeted eviction of record_failure: the tables that may remain. The
\* entries that are not blocked go; if that is not enough, one that is blocked
\* for the shortest time, whichever the hash map's order gives first.
Evict(k, now) ==
  IF k \in DOMAIN now \/ Cardinality(DOMAIN now) < CAP THEN {now}
  ELSE LET left == {j \in DOMAIN now : now[j].blocked > 0}
           least == {j \in left : \A i \in left : now[j].blocked <= now[i].blocked}
       IN  IF Cardinality(left) < CAP THEN {Restrict(now, left)}
           ELSE {Restrict(now, left \ {j}) : j \in least}

Init ==
  /\ map = Empty
  /\ attempt = [a \in Attempts |-> Idle]

-----------------------------------------------------------------------------

\* How a request reaches the server: hops are the client and the proxies it
\* passed, the last one being the socket's peer, and chain is what
\* X-Forwarded-For holds if every proxy adds the address it was called from. A
\* proxy may add it on a line of its own, or not at all, so the line that is
\* read is a part of it. X-Real-IP holds what a proxy put there, or what the
\* client did and the proxies let pass.
Hops(client, path) == <<client>> \o path
Chain(client, path, junk) == junk \o SubSeq(Hops(client, path), 1, Len(path))

\* The headers name whoever talks to the outermost trusted proxy: the chain is
\* legible and read as a whole, or it says nothing and X-Real-IP does.
Named(hops, chain, line, real) ==
  \/ Last(hops) \notin Trusted
  \/ line = chain /\ Malformed \notin ToSet(chain)
  \/ Unreadable(line) /\ real = LastUntrusted(hops)

\* An attempt past the check; where it came from is history.
Verifying(key, hops, chain, line, real) ==
  [pc |-> "verifying", key |-> key, owner |-> LastUntrusted(hops),
   named |-> Named(hops, chain, line, real)]

\* Fault: an attempt is verified whether or not its key is blocked.
ArriveUnchecked(a, hops, chain, line, real) ==
  LET key == ClientIp(Last(hops), line, real) IN
  /\ attempt[a].pc = "idle"
  /\ attempt' = [attempt EXCEPT ![a] = Verifying(key, hops, chain, line, real)]
  /\ UNCHANGED map

\* login_api derives the key and checks it: locked_out, or on to the
\* verification.
Arrive(a, hops, chain, line, real) ==
  LET key == ClientIp(Last(hops), line, real) IN
  /\ attempt[a].pc = "idle"
  /\ attempt' = [attempt EXCEPT ![a] =
                   IF Blocked(key) THEN Idle ELSE Verifying(key, hops, chain, line, real)]
  /\ UNCHANGED map

\* record_failure and bad_credentials
RecordFailure(a) ==
  LET k == attempt[a].key IN
  /\ attempt[a].pc = "verifying"
  /\ \E kept \in Evict(k, map) :
       LET before == IF k \in DOMAIN kept THEN kept[k] ELSE [failures |-> 0, blocked |-> 0]
           failures == Least(before.failures + 1, MaxFailures)
           backoff == BackoffForFailures(failures)
           entry == [failures |-> failures,
                     blocked |-> IF backoff > 0 THEN backoff ELSE before.blocked]
       IN  map' = [j \in DOMAIN kept \cup {k} |-> IF j = k THEN entry ELSE kept[j]]
  /\ attempt' = [attempt EXCEPT ![a] = Idle]

\* record_success, after the session was stored
RecordSuccess(a) ==
  /\ attempt[a].pc = "verifying"
  /\ map' = Restrict(map, DOMAIN map \ {attempt[a].key})
  /\ attempt' = [attempt EXCEPT ![a] = Idle]

\* The verification or the session store failed: internal_error, no record.
RecordNothing(a) ==
  /\ attempt[a].pc = "verifying"
  /\ attempt' = [attempt EXCEPT ![a] = Idle]
  /\ UNCHANGED map

\* A second passes.
Tick ==
  /\ \E k \in DOMAIN map : map[k].blocked > 0
  /\ map' = [k \in DOMAIN map |-> [map[k] EXCEPT !.blocked = IF @ > 0 THEN @ - 1 ELSE 0]]
  /\ UNCHANGED attempt

\* The throttle lives in memory.
Restart ==
  /\ map' = Empty
  /\ attempt' = [a \in Attempts |-> Idle]

Arrivals(a) ==
  \E client \in Clients, path \in Paths, junk \in Junk, real \in RealIps :
    LET chain == Chain(client, path, junk) IN
    \E read \in 0..Len(chain) :
      Arrive(a, Hops(client, path), chain, SubSeq(chain, 1, read), real)

Next ==
  \/ \E a \in Attempts :
       Arrivals(a) \/ RecordFailure(a) \/ RecordSuccess(a) \/ RecordNothing(a)
  \/ Tick
  \/ Restart

Spec == Init /\ [][Next]_vars

\* Time passes; nothing is assumed of the clients.
LiveSpec == Spec /\ WF_vars(Tick)

-----------------------------------------------------------------------------

\* The table holds at most CAP clients, and each is blocked for no longer than
\* MAX_BACKOFF and only after more failures than are free.
TableBounded ==
  /\ Cardinality(DOMAIN map) <= CAP
  /\ \A k \in DOMAIN map :
       /\ map[k].failures \in 1..MaxFailures
       /\ map[k].blocked \in 0..BackoffForFailures(map[k].failures)

\* Whoever is nearest to the server without being a trusted proxy is known by
\* its own address (client_ip): always if it is the peer itself; and behind any
\* number of trusted proxies if all of them add to the line that is read,
\* whatever the client writes before them, in X-Forwarded-For, as long as it is
\* addresses, or in X-Real-IP. If there is no such line, or the client spoils
\* it with a hop that is no address, the answer is as good as X-Real-IP is.
KeyIsClient ==
  \A a \in Attempts :
    attempt[a].pc = "verifying" /\ attempt[a].named => attempt[a].key = attempt[a].owner

\* A failure that makes room forgets a blocked client only if every other
\* tracked client is blocked at least as long: flooding the table with single
\* failures frees nobody who is locked out.
EvictionOrder ==
  [][\A a \in Attempts : RecordFailure(a) =>
       \A k \in DOMAIN map \ DOMAIN map' :
         Blocked(k) => /\ Cardinality(DOMAIN map) = CAP
                       /\ \A j \in DOMAIN map : map[j].blocked >= map[k].blocked]_vars

\* No key stays blocked for ever, however often it is tried meanwhile: "a
\* correct credential is never permanently locked" (ratelimit.rs).
NeverLockedForEver == \A k \in Clients \cup Proxies : []<>(~Blocked(k))
=============================================================================
