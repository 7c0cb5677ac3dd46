------------------------------ MODULE Accounts ------------------------------
(***************************************************************************)
(* Accounts, API keys and browser sessions: the management handlers of     *)
(* crates/twl-server/src/handlers/, the rules of crates/twl-auth/, the     *)
(* middleware of auth.rs, the session store, and the bootstrap of          *)
(* server.rs, over the identity tables.                                    *)
(*                                                                         *)
(* A request authenticates at one moment and changes a table at a later    *)
(* one; passwords are read and verified outside the transaction that       *)
(* replaces them. The tables outlive the process, sessions do not.         *)
(* External: axum-login and tower-sessions, which load a session, fetch    *)
(* its user and flush it when the stored hash is not the user's.           *)
(***************************************************************************)
EXTENDS IdentityStore

CONSTANTS
  Requests,    \* HTTP requests in flight, over and over
  Names,       \* usernames that create_user's pattern accepts
  Passwords,
  Short,       \* the passwords below MIN_PASSWORD_CHARACTERS
  Sessions,    \* session ids
  MaxUsers,    \* bound on accounts ever created
  MaxKeys,     \* bound on keys ever created
  MaxSalts     \* bound on passwords ever hashed

ASSUME AccountsAssumption ==
  /\ Short \subseteq Passwords
  /\ MaxUsers \in Nat /\ MaxKeys \in Nat /\ MaxSalts \in Nat

VARIABLES
  up,       \* the server is serving
  req,      \* what each request holds
  cookies,  \* the sessions a browser holds: id -> [id, hash, typed, live];
            \* hash is session_auth_hash, typed is history: the password
            \* proved at login, live: expiry_date is in the future
  store     \* PurgingMemoryStore: the ids of the sessions in memory

vars == <<users, api_keys, attribution, token_usage, last_user, last_key, salts,
          up, req, cookies, store>>

Idle == [pc |-> "idle"]
LongEnough(p) == p \notin Short
CanHash == salts < MaxSalts

\* The request ends, whatever the response.
Done(r) == req' = [req EXCEPT ![r] = Idle]
Goes(r, held) == req' = [req EXCEPT ![r] = held]
Authed(r) == req[r].pc = "authed"
AuthedAdmin(r) == Authed(r) /\ req[r].admin

Init ==
  /\ StoreInit
  /\ up = FALSE
  /\ req = [r \in Requests |-> Idle]
  /\ cookies = <<>>
  /\ store = {}

-----------------------------------------------------------------------------
(* Process start and end.                                                  *)

\* build_state on an empty table: the first administrator, configured or with
\* a default name and a generated password: any name, any password.
Bootstrap(name, p) ==
  /\ ~up /\ users = <<>>
  /\ LongEnough(p) /\ CanHash /\ last_user < MaxUsers
  /\ CreateUser(name, p, TRUE)
  /\ up' = TRUE
  /\ UNCHANGED <<req, cookies, store>>

\* build_state on a table with users, dashboard_auth configured: the password
\* of the named user is replaced only when it is another one.
StartConfigured(name, p) ==
  /\ ~up /\ users # <<>> /\ LongEnough(p)
  /\ IF IdOf(name) # None /\ ~Verify(p, users[IdOf(name)].hash)
       THEN CanHash /\ UpdatePassword(IdOf(name), p)
       ELSE UNCHANGED tables
  /\ up' = TRUE
  /\ UNCHANGED <<req, cookies, store>>

\* build_state on a table with users and no dashboard_auth
StartPlain ==
  /\ ~up /\ users # <<>>
  /\ up' = TRUE
  /\ UNCHANGED <<tables, req, cookies, store>>

\* The process ends, by a signal or a crash: requests and sessions are gone.
Stop ==
  /\ up
  /\ up' = FALSE
  /\ req' = [r \in Requests |-> Idle]
  /\ store' = {}
  /\ UNCHANGED <<tables, cookies>>

-----------------------------------------------------------------------------
(* Sessions.                                                               *)

\* login_api up to authenticate: the row read holds the hash that was verified.
Login(r, name, p) ==
  /\ up /\ req[r] = Idle
  /\ IdOf(name) # None
  /\ Verify(p, users[IdOf(name)].hash)
  /\ Goes(r, [pc |-> "login", id |-> IdOf(name), hash |-> users[IdOf(name)].hash, typed |-> p])
  /\ UNCHANGED <<tables, up, cookies, store>>

\* Fault: the session takes the hash the table holds by now.
StoreSessionRereading(r, s) ==
  /\ req[r].pc = "login" /\ s \notin DOMAIN cookies /\ req[r].id \in DOMAIN users
  /\ cookies' = Insert(cookies, s, [id |-> req[r].id, hash |-> users[req[r].id].hash,
                                    typed |-> req[r].typed, live |-> TRUE])
  /\ store' = store \cup {s}
  /\ Done(r)
  /\ UNCHANGED <<tables, up>>

\* login_api's auth_session.login, and the session layer's save through
\* PurgingMemoryStore::create under an id not yet in use
StoreSession(r, s) ==
  /\ req[r].pc = "login" /\ s \notin DOMAIN cookies
  /\ cookies' = Insert(cookies, s, [id |-> req[r].id, hash |-> req[r].hash,
                                    typed |-> req[r].typed, live |-> TRUE])
  /\ store' = store \cup {s}
  /\ Done(r)
  /\ UNCHANGED <<tables, up>>

Drop(s) ==
  /\ cookies' = Restrict(cookies, DOMAIN cookies \ {s})
  /\ store' = store \ {s}

\* logout_api: the session, whoever it names, is deleted.
Logout(s) ==
  /\ up /\ s \in store
  /\ Drop(s)
  /\ UNCHANGED <<tables, up, req>>

\* Seven days without use.
Expire(s) ==
  /\ s \in DOMAIN cookies /\ cookies[s].live
  /\ cookies' = [cookies EXCEPT ![s].live = FALSE]
  /\ UNCHANGED <<tables, up, req, store>>

\* purge_expired, run by the session purger every SESSION_PURGE_INTERVAL; the
\* browser has dropped the cookie as well.
PurgeExpired ==
  /\ up /\ \E s \in DOMAIN cookies : ~cookies[s].live
  /\ store' = {s \in store : cookies[s].live}
  /\ cookies' = Restrict(cookies, {s \in DOMAIN cookies : cookies[s].live})
  /\ UNCHANGED <<tables, up, req>>

-----------------------------------------------------------------------------
(* require_auth                                                            *)

\* PurgingMemoryStore::load refuses an expired record; axum-login compares
\* the hash in the session with the user's present one.
Admits(s) ==
  /\ s \in store /\ cookies[s].live
  /\ cookies[s].id \in DOMAIN users
  /\ cookies[s].hash = users[cookies[s].id].hash

AuthBySession(r, s) ==
  /\ up /\ req[r] = Idle /\ Admits(s)
  /\ Goes(r, [pc |-> "authed", id |-> cookies[s].id, admin |-> users[cookies[s].id].admin])
  /\ UNCHANGED <<tables, up, cookies, store>>

\* axum-login flushes a session whose user has another hash by now.
FlushSession(s) ==
  /\ up /\ s \in store /\ cookies[s].live
  /\ cookies[s].id \in DOMAIN users
  /\ cookies[s].hash # users[cookies[s].id].hash
  /\ Drop(s)
  /\ UNCHANGED <<tables, up, req>>

\* get_api_key_user, which joins the owner's row
AuthByKey(r, k) ==
  /\ up /\ req[r] = Idle
  /\ k \in DOMAIN api_keys /\ api_keys[k] \in DOMAIN users
  /\ Goes(r, [pc |-> "authed", id |-> api_keys[k], admin |-> users[api_keys[k]].admin])
  /\ UNCHANGED <<tables, up, cookies, store>>

-----------------------------------------------------------------------------
(* Handlers.                                                               *)

\* An early return, a failed transaction, or a handler that only reads:
\* list_api_keys, me_api, list_users_api, get_user_api.
Respond(r) ==
  /\ req[r] # Idle
  /\ Done(r)
  /\ UNCHANGED <<tables, up, cookies, store>>

\* twl_auth's create_user: the rules on the password, the hash, the row
NewAccount(name, p, admin) ==
  /\ LongEnough(p) /\ CanHash /\ last_user < MaxUsers
  /\ CreateUser(name, p, admin)

CreateUserApi(r, name, p, admin) ==
  /\ AuthedAdmin(r)
  /\ NewAccount(name, p, admin)
  /\ Done(r)
  /\ UNCHANGED <<up, cookies, store>>

CreateApiKey(r) ==
  /\ Authed(r) /\ last_key < MaxKeys
  /\ InsertApiKey(req[r].id)
  /\ Done(r)
  /\ UNCHANGED <<up, cookies, store>>

DeleteApiKeyApi(r, k) ==
  /\ Authed(r)
  /\ DeleteApiKey(k, req[r].id)
  /\ Done(r)
  /\ UNCHANGED <<up, cookies, store>>

DeleteUserApi(r, u) ==
  /\ AuthedAdmin(r)
  /\ DeleteUserGuarded(u)
  /\ Done(r)
  /\ UNCHANGED <<up, cookies, store>>

\* reset_password: the target is looked up before the slow hash ...
ResetLookup(r, u, p) ==
  /\ AuthedAdmin(r) /\ LongEnough(p) /\ CanHash
  /\ u \in DOMAIN users
  /\ Goes(r, [pc |-> "reset", id |-> u, new |-> p])
  /\ UNCHANGED <<tables, up, cookies, store>>

\* ... and replaced after it; a target deleted in between is NotFound.
ResetCommit(r) ==
  /\ req[r].pc = "reset" /\ CanHash
  /\ ReplacePasswordAndRevokeKeys(req[r].id, req[r].new)
  /\ Done(r)
  /\ UNCHANGED <<up, cookies, store>>

\* change_password: the old password is verified against the row read, ...
ChangeVerify(r, old, p) ==
  /\ Authed(r) /\ LongEnough(p) /\ CanHash
  /\ req[r].id \in DOMAIN users
  /\ Verify(old, users[req[r].id].hash)
  /\ Goes(r, [pc |-> "change", id |-> req[r].id, old |-> users[req[r].id].hash, new |-> p])
  /\ UNCHANGED <<tables, up, cookies, store>>

\* ... and the hash swapped if it is still that row's: else
\* ConcurrentPasswordChange.
ChangeCommit(r) ==
  /\ req[r].pc = "change" /\ CanHash
  /\ CompareAndSwapPassword(req[r].id, req[r].old, req[r].new)
  /\ Done(r)
  /\ UNCHANGED <<up, cookies, store>>

\* A proxied call: extract_and_validate_client_key holds the key's id ...
BeginCall(r, k) ==
  /\ up /\ req[r] = Idle
  /\ k \in DOMAIN api_keys /\ api_keys[k] \in DOMAIN users
  /\ Goes(r, [pc |-> "call", key |-> k, spender |-> users[api_keys[k]].born])
  /\ UNCHANGED <<tables, up, cookies, store>>

\* ... until the response has ended, however long that takes.
EndCall(r) ==
  /\ req[r].pc = "call"
  /\ RecordUsage(req[r].key, req[r].spender)
  /\ Done(r)
  /\ UNCHANGED <<up, cookies, store>>

-----------------------------------------------------------------------------

Start ==
  \/ \E name \in Names, p \in Passwords :
       Bootstrap(name, p) \/ StartConfigured(name, p)
  \/ StartPlain

Browser ==
  \/ \E r \in Requests, name \in Names, p \in Passwords : Login(r, name, p)
  \/ \E r \in Requests, s \in Sessions : StoreSession(r, s) \/ AuthBySession(r, s)
  \/ \E s \in Sessions : Logout(s) \/ Expire(s) \/ FlushSession(s)

Manage(r) ==
  \/ \E name \in Names, p \in Passwords, admin \in BOOLEAN : CreateUserApi(r, name, p, admin)
  \/ \E u \in DOMAIN users : DeleteUserApi(r, u)
  \/ \E u \in DOMAIN users, p \in Passwords : ResetLookup(r, u, p)
  \/ ResetCommit(r)
  \/ \E old, p \in Passwords : ChangeVerify(r, old, p)
  \/ ChangeCommit(r)
  \/ Respond(r)

UseKeys(r) ==
  \/ CreateApiKey(r)
  \/ \E k \in DOMAIN api_keys :
       AuthByKey(r, k) \/ DeleteApiKeyApi(r, k) \/ BeginCall(r, k)
  \/ EndCall(r)

Next ==
  \/ Start \/ Stop \/ Browser \/ PurgeExpired
  \/ \E r \in Requests : Manage(r) \/ UseKeys(r)

Spec == Init /\ [][Next]_vars

-----------------------------------------------------------------------------

\* Once the first administrator exists the tables always hold one, whatever
\* administrators delete each other at once (delete_user_guarded).
AdminRemains == last_user > 0 => Admins # {}

\* A usage row belongs to the account whose key paid, also after the key is
\* revoked and until the account is deleted; it never moves to another
\* account (api_key_attribution, AUTOINCREMENT). No key outlives its owner.
AttributionExact ==
  /\ \A k \in DOMAIN api_keys : k \in DOMAIN attribution /\ attribution[k] = api_keys[k]
  /\ \A k \in DOMAIN attribution : attribution[k] \in DOMAIN users
  /\ \A row \in token_usage :
       LET owners == {u \in DOMAIN users : users[u].born = row.spender}
       IN  IF row.key \in DOMAIN attribution
             THEN owners = {attribution[row.key]}
             ELSE owners = {}

\* A session that still admits belongs to someone who proved the password its
\* user has now, even if the password was replaced while the login was under
\* way (session_auth_hash).
SessionsProvePassword ==
  \A s \in Sessions : Admits(s) => Verify(cookies[s].typed, users[cookies[s].id].hash)

\* A user changing the own password replaces exactly the hash the old
\* password was verified against: a reset committed in between is never
\* undone (compare_and_swap_password_and_revoke_keys).
NoLostReset ==
  [][\A r \in Requests :
       req[r].pc = "change" /\ req'[r] = Idle /\ users' # users
       /\ req[r].id \in DOMAIN users /\ req[r].id \in DOMAIN users'
       /\ users'[req[r].id].hash # users[req[r].id].hash
         => users[req[r].id].hash = req[r].old]_vars
=============================================================================
