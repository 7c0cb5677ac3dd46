--------------------------- MODULE IdentityStore ---------------------------
(***************************************************************************)
(* The identity tables of the SQLite database and the transactions on      *)
(* them: crates/twl-store/src/identity.rs, schema.sql, and the rows of     *)
(* token_usage as far as they name an API key.                             *)
(*                                                                         *)
(* Every operation below is one transaction under the write mutex. An      *)
(* operation that fails rolls back and changes nothing, so failures need   *)
(* no operator here. Names of keys, prefixes and creation times are left   *)
(* out. A password hash is the password with its salt.                     *)
(***************************************************************************)
EXTENDS Integers, FiniteSets, Functions

VARIABLES
  users,        \* users: id -> [name, hash, admin, born]; born is history:
                \* the number of the account, never used again
  api_keys,     \* api_keys: id -> id of the owner
  attribution,  \* api_key_attribution: id of a key -> id of a user
  token_usage,  \* the usage rows: [key, spender]; spender is history: born
                \* of the account whose key paid
  last_user,    \* AUTOINCREMENT: the largest user id ever given
  last_key,     \* AUTOINCREMENT: the largest key id ever given
  salts         \* hash_password calls so far; each draws a fresh salt

tables == <<users, api_keys, attribution, token_usage, last_user, last_key, salts>>

None == 0  \* a missing id; ids start at 1

\* INSERT of a row under a new id
Insert(table, id, row) ==
  [i \in DOMAIN table \cup {id} |-> IF i = id THEN row ELSE table[i]]

\* hash_password: a random salt makes every hash new, also of an old password.
HashOf(p) == [pass |-> p, salt |-> salts + 1]
\* verify_password
Verify(p, hash) == hash.pass = p

Admins == {u \in DOMAIN users : users[u].admin}
KeysOf(u) == {k \in DOMAIN api_keys : api_keys[k] = u}

\* get_user: the id with this name, which UNIQUE makes the only one.
IdOf(name) ==
  IF \E u \in DOMAIN users : users[u].name = name
    THEN CHOOSE u \in DOMAIN users : users[u].name = name
    ELSE None

\* Fault: the id of a new key is one more than the largest in the table.
NextKeyReusing == 1 + (IF api_keys = <<>> THEN 0
                       ELSE CHOOSE k \in DOMAIN api_keys :
                              \A j \in DOMAIN api_keys : j <= k)

\* api_keys.id INTEGER PRIMARY KEY AUTOINCREMENT
NextKey == last_key + 1

-----------------------------------------------------------------------------

\* create_user: UNIQUE refuses a taken name.
CreateUser(name, p, admin) ==
  /\ IdOf(name) = None
  /\ users' = Insert(users, last_user + 1,
                 [name |-> name, hash |-> HashOf(p), admin |-> admin, born |-> salts + 1])
  /\ last_user' = last_user + 1
  /\ salts' = salts + 1
  /\ UNCHANGED <<api_keys, attribution, token_usage, last_key>>

\* insert_api_key: the foreign key refuses an owner deleted since it was
\* authenticated, the primary key of api_key_attribution a second owner.
InsertApiKey(u) ==
  /\ u \in DOMAIN users
  /\ NextKey \notin DOMAIN attribution
  /\ api_keys' = Insert(api_keys, NextKey, u)
  /\ attribution' = Insert(attribution, NextKey, u)
  /\ last_key' = NextKey
  /\ UNCHANGED <<users, token_usage, last_user, salts>>

\* delete_api_key, scoped to the owner. The attribution row stays.
DeleteApiKey(k, u) ==
  /\ k \in KeysOf(u)
  /\ api_keys' = Restrict(api_keys, DOMAIN api_keys \ {k})
  /\ UNCHANGED <<users, attribution, token_usage, last_user, last_key, salts>>

\* update_password: the keys stay.
UpdatePassword(u, p) ==
  /\ users' = [users EXCEPT ![u].hash = HashOf(p)]
  /\ salts' = salts + 1
  /\ UNCHANGED <<api_keys, attribution, token_usage, last_user, last_key>>

\* replace_password_and_revoke_keys for an id that still exists; for another
\* it updates no row and there is no key to revoke.
ReplacePasswordAndRevokeKeys(u, p) ==
  /\ u \in DOMAIN users
  /\ users' = [users EXCEPT ![u].hash = HashOf(p)]
  /\ api_keys' = Restrict(api_keys, DOMAIN api_keys \ KeysOf(u))
  /\ salts' = salts + 1
  /\ UNCHANGED <<attribution, token_usage, last_user, last_key>>

\* Fault: the swap does not compare.
SwapUncompared(u, old, p) == ReplacePasswordAndRevokeKeys(u, p)

\* compare_and_swap_password_and_revoke_keys: no row matches, and no key is
\* revoked, when the hash is not the one that was verified.
CompareAndSwapPassword(u, old, p) ==
  /\ u \in DOMAIN users /\ users[u].hash = old
  /\ ReplacePasswordAndRevokeKeys(u, p)

\* Fault: the guard lets the last administrator go.
DeleteUserUnguarded(u) ==
  /\ u \in DOMAIN users
  /\ users' = Restrict(users, DOMAIN users \ {u})
  /\ api_keys' = Restrict(api_keys, DOMAIN api_keys \ KeysOf(u))
  /\ attribution' = Restrict(attribution, {k \in DOMAIN attribution : attribution[k] # u})
  /\ UNCHANGED <<token_usage, last_user, last_key, salts>>

\* delete_user_guarded; ON DELETE CASCADE takes the attribution rows.
DeleteUserGuarded(u) ==
  /\ u \in DOMAIN users
  /\ u \in Admins => Cardinality(Admins) > 1
  /\ users' = Restrict(users, DOMAIN users \ {u})
  /\ api_keys' = Restrict(api_keys, DOMAIN api_keys \ KeysOf(u))
  /\ attribution' = Restrict(attribution, {k \in DOMAIN attribution : attribution[k] # u})
  /\ UNCHANGED <<token_usage, last_user, last_key, salts>>

\* UsageStore::record of a call made with key k
RecordUsage(k, spender) ==
  /\ token_usage' = token_usage \cup {[key |-> k, spender |-> spender]}
  /\ UNCHANGED <<users, api_keys, attribution, last_user, last_key, salts>>

StoreInit ==
  /\ users = <<>> /\ api_keys = <<>> /\ attribution = <<>>
  /\ token_usage = {}
  /\ last_user = 0 /\ last_key = 0 /\ salts = 0
=============================================================================
