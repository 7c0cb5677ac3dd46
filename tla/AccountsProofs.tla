--------------------------- MODULE AccountsProofs ---------------------------
(***************************************************************************)
(* Accounts, keys and sessions stay sound for every number of requests,    *)
(* accounts, keys and sessions, whatever handlers overlap and however      *)
(* often the process restarts: an administrator remains, usage is          *)
(* attributed to the account that paid, sessions prove the present         *)
(* password, and no reset is undone.                                       *)
(***************************************************************************)
EXTENDS Accounts, FiniteSetTheorems, TLAPS

-----------------------------------------------------------------------------
(* The inductive invariant *)

Hashes == [pass : Passwords, salt : Nat]
Rows == [name : Names, hash : Hashes, admin : BOOLEAN, born : Nat]

TableTypes ==
  /\ last_user \in Nat /\ last_key \in Nat /\ salts \in Nat
  /\ DOMAIN users \subseteq 1..last_user
  /\ users # <<>> => last_user > 0
  /\ \A u \in DOMAIN users : users[u] \in Rows
  /\ DOMAIN attribution \subseteq 1..last_key
  /\ token_usage \subseteq [key : Nat, spender : Nat]

\* Accounts are told apart by the time of their creation.
BornOnce ==
  /\ \A u \in DOMAIN users : users[u].born <= salts
  /\ \A u, v \in DOMAIN users : users[u].born = users[v].born => u = v

KeysOwned ==
  /\ \A k \in DOMAIN api_keys : k \in DOMAIN attribution /\ attribution[k] = api_keys[k]
  /\ \A k \in DOMAIN attribution : attribution[k] \in DOMAIN users

\* Key k pays for the account born then, while it exists; once the account is
\* deleted the key is attributed to nobody.
PaidBy(k, spender) ==
  /\ k <= last_key /\ spender <= salts
  /\ \A u \in DOMAIN users :
       users[u].born = spender <=> (k \in DOMAIN attribution /\ u = attribution[k])

TablesOK ==
  /\ TableTypes
  /\ AdminRemains
  /\ BornOnce
  /\ KeysOwned
  /\ \A row \in token_usage : PaidBy(row.key, row.spender)

\* What a request may hold.
HeldOK(h) ==
  \/ h = Idle
  \/ /\ h \in [pc : {"login"}, id : Nat, hash : Hashes, typed : Passwords]
     /\ h.hash.pass = h.typed
  \/ h \in [pc : {"authed"}, id : Nat, admin : BOOLEAN]
  \/ h \in [pc : {"reset"}, id : Nat, new : Passwords]
  \/ h \in [pc : {"change"}, id : Nat, old : Hashes, new : Passwords]
  \/ /\ h \in [pc : {"call"}, key : Nat, spender : Nat]
     /\ PaidBy(h.key, h.spender)

RequestsOK ==
  /\ DOMAIN req = Requests
  /\ \A r \in Requests : HeldOK(req[r])

\* Nobody is served before there is an account.
ServesAccounts ==
  /\ up => last_user > 0
  /\ \A r \in Requests : req[r] # Idle => up

\* Whoever has a session typed the password whose hash it holds.
SessionsOK ==
  /\ store \subseteq DOMAIN cookies
  /\ \A s \in DOMAIN cookies :
       /\ cookies[s] \in [id : Nat, hash : Hashes, typed : Passwords, live : BOOLEAN]
       /\ cookies[s].hash.pass = cookies[s].typed

AccountsInv == TablesOK /\ RequestsOK /\ ServesAccounts /\ SessionsOK

-----------------------------------------------------------------------------
(* Transactions *)

\* What a transaction keeps: the tables' invariant, and who paid for the calls
\* still under way.
Keeps ==
  /\ TablesOK'
  /\ \A k, spender \in Nat : PaidBy(k, spender) => PaidBy(k, spender)'
  /\ last_user' >= last_user

\* A name that resolves, resolves to an account that exists.
LEMMA IdOfFacts ==
  ASSUME NEW name, IdOf(name) # None
  PROVE  IdOf(name) \in DOMAIN users
BY DEF IdOf, None

\* The administrators can be counted: ids come from a counter.
LEMMA AdminsFinite ==
  ASSUME TableTypes
  PROVE  IsFiniteSet(Admins) /\ Cardinality(Admins) \in Nat
<1>1. Admins \subseteq 1..last_user /\ IsFiniteSet(1..last_user)
  BY FS_Interval DEF TableTypes, Admins
<1>2. QED
  BY <1>1, FS_Subset, FS_CardinalityType

\* create_user: the first account is an administrator, the others come while
\* there is one.
LEMMA CreateUserKeeps ==
  ASSUME TablesOK, NEW name \in Names, NEW p \in Passwords, NEW admin \in BOOLEAN,
         admin \/ last_user > 0, CreateUser(name, p, admin)
  PROVE  Keeps /\ last_user' > 0
<1> DEFINE new == last_user + 1
           row == [name |-> name, hash |-> HashOf(p), admin |-> admin, born |-> salts + 1]
<1>1. /\ last_user' = new /\ salts' = salts + 1
      /\ UNCHANGED <<api_keys, attribution, token_usage, last_key>>
      /\ users' = Insert(users, new, row)
  BY DEF CreateUser
<1>2. TableTypes
  BY DEF TablesOK
<1>3. new \notin DOMAIN users /\ new \in Nat /\ new > last_user
  BY <1>2 DEF TableTypes
<1>4. /\ DOMAIN users' = DOMAIN users \cup {new}
      /\ users'[new] = row
      /\ \A u \in DOMAIN users : users'[u] = users[u]
  BY <1>1, <1>3 DEF Insert
<1>5. row \in Rows /\ row.born = salts + 1 /\ row.admin = admin
  BY <1>2 DEF Rows, Hashes, HashOf, TableTypes
<1> HIDE DEF row
<1>6. TableTypes'
  <2>1. DOMAIN users' \subseteq 1..last_user'
    BY <1>1, <1>2, <1>3, <1>4 DEF TableTypes
  <2>2. QED
    BY <1>1, <1>2, <1>4, <1>5, <2>1 DEF TableTypes
<1>7. AdminRemains'
  <2>1. CASE last_user > 0
    BY <1>4, <2>1 DEF TablesOK, AdminRemains, Admins
  <2>2. CASE admin
    BY <1>4, <1>5, <2>2 DEF AdminRemains, Admins
  <2>3. QED
    BY <2>1, <2>2
<1>8. \A u \in DOMAIN users : users[u].born <= salts /\ users[u].born \in Nat
  BY <1>2 DEF TablesOK, BornOnce, TableTypes, Rows
<1>9. BornOnce'
  BY <1>1, <1>2, <1>4, <1>5, <1>8 DEF TablesOK, BornOnce, TableTypes
<1>10. KeysOwned'
  BY <1>1, <1>4 DEF TablesOK, KeysOwned
<1>11. ASSUME NEW k \in Nat, NEW spender \in Nat, PaidBy(k, spender)
       PROVE  PaidBy(k, spender)'
  <2>1. spender # salts + 1 /\ k <= last_key' /\ spender <= salts'
    BY <1>1, <1>2, <1>11 DEF PaidBy, TableTypes
  <2>2. k \in DOMAIN attribution => attribution[k] # new
    BY <1>3 DEF TablesOK, KeysOwned
  <2>3. QED
    BY <1>1, <1>4, <1>5, <1>11, <2>1, <2>2 DEF PaidBy
<1>12. \A r \in token_usage : PaidBy(r.key, r.spender)'
  BY <1>2, <1>11 DEF TablesOK, TableTypes
<1>13. QED
  BY <1>1, <1>2, <1>3, <1>6, <1>7, <1>9, <1>10, <1>11, <1>12 DEF Keeps, TablesOK, TableTypes

\* insert_api_key: a new id, attributed to its owner.
LEMMA InsertApiKeyKeeps ==
  ASSUME TablesOK, NEW u, InsertApiKey(u)
  PROVE  Keeps
<1>1. /\ u \in DOMAIN users /\ last_key' = NextKey
      /\ api_keys' = Insert(api_keys, NextKey, u)
      /\ attribution' = Insert(attribution, NextKey, u)
      /\ UNCHANGED <<users, token_usage, last_user, salts>>
  BY DEF InsertApiKey
<1>2. TableTypes
  BY DEF TablesOK
<1>3. NextKey \in Nat /\ NextKey > last_key /\ NextKey \notin DOMAIN attribution
  BY <1>2 DEF TableTypes, NextKey
<1>4. /\ DOMAIN api_keys' = DOMAIN api_keys \cup {NextKey}
      /\ DOMAIN attribution' = DOMAIN attribution \cup {NextKey}
      /\ api_keys'[NextKey] = u /\ attribution'[NextKey] = u
      /\ \A k \in DOMAIN api_keys : k # NextKey => api_keys'[k] = api_keys[k]
      /\ \A k \in DOMAIN attribution : attribution'[k] = attribution[k]
  BY <1>1, <1>3 DEF Insert
<1>5. TableTypes'
  BY <1>1, <1>2, <1>3, <1>4 DEF TableTypes
<1>6. AdminRemains' /\ BornOnce'
  BY <1>1 DEF TablesOK, AdminRemains, Admins, BornOnce
<1>7. KeysOwned'
  BY <1>1, <1>3, <1>4 DEF TablesOK, KeysOwned
<1>8. ASSUME NEW k \in Nat, NEW spender \in Nat, PaidBy(k, spender)
      PROVE  PaidBy(k, spender)'
  <2>1. k # NextKey /\ k <= last_key'
    BY <1>1, <1>2, <1>3, <1>8 DEF PaidBy, TableTypes
  <2>2. QED
    BY <1>1, <1>4, <1>8, <2>1 DEF PaidBy
<1>9. \A r \in token_usage : PaidBy(r.key, r.spender)'
  BY <1>2, <1>8 DEF TablesOK, TableTypes
<1>10. QED
  BY <1>1, <1>2, <1>5, <1>6, <1>7, <1>8, <1>9 DEF Keeps, TablesOK, TableTypes

\* delete_api_key: the attribution stays.
LEMMA DeleteApiKeyKeeps ==
  ASSUME TablesOK, NEW k, NEW u, DeleteApiKey(k, u)
  PROVE  Keeps
<1>1. /\ DOMAIN api_keys' = DOMAIN api_keys \ {k}
      /\ \A j \in DOMAIN api_keys' : api_keys'[j] = api_keys[j]
      /\ UNCHANGED <<users, attribution, token_usage, last_user, last_key, salts>>
  BY DEF DeleteApiKey, Restrict
<1>2. TableTypes' /\ AdminRemains' /\ BornOnce' /\ KeysOwned'
  BY <1>1 DEF TablesOK, TableTypes, AdminRemains, Admins, BornOnce, KeysOwned
<1>3. \A j, spender : PaidBy(j, spender)' <=> PaidBy(j, spender)
  BY <1>1 DEF PaidBy
<1>4. QED
  BY <1>1, <1>2, <1>3 DEF Keeps, TablesOK, TableTypes

\* A new hash in one row, with or without revoking the user's keys
\* (update_password, replace_password_and_revoke_keys).
LEMMA NewHashKeeps ==
  ASSUME TablesOK, NEW u \in DOMAIN users, NEW p \in Passwords,
         UpdatePassword(u, p) \/ ReplacePasswordAndRevokeKeys(u, p)
  PROVE  Keeps
<1>1. /\ users' = [users EXCEPT ![u].hash = HashOf(p)] /\ salts' = salts + 1
      /\ DOMAIN api_keys' \subseteq DOMAIN api_keys
      /\ \A k \in DOMAIN api_keys' : api_keys'[k] = api_keys[k]
      /\ UNCHANGED <<attribution, token_usage, last_user, last_key>>
  BY DEF UpdatePassword, ReplacePasswordAndRevokeKeys, Restrict
<1>2. TableTypes
  BY DEF TablesOK
<1>3. HashOf(p) \in Hashes
  BY <1>2 DEF HashOf, Hashes, TableTypes
<1>4. /\ DOMAIN users' = DOMAIN users
      /\ \A v \in DOMAIN users : /\ users'[v] \in Rows
                                 /\ users'[v].admin = users[v].admin
                                 /\ users'[v].born = users[v].born
  BY <1>1, <1>2, <1>3 DEF TableTypes, Rows
<1>5. TableTypes' /\ AdminRemains'
  <2>1. last_user > 0
    BY <1>2 DEF TableTypes
  <2>2. TableTypes'
    BY <1>1, <1>2, <1>4, <2>1 DEF TableTypes
  <2>3. AdminRemains'
    BY <1>1, <1>4 DEF TablesOK, AdminRemains, Admins
  <2>4. QED
    BY <2>2, <2>3
<1>6. BornOnce' /\ KeysOwned'
  BY <1>1, <1>2, <1>4 DEF TablesOK, TableTypes, BornOnce, KeysOwned, Rows
<1>7. \A k, spender \in Nat : PaidBy(k, spender) => PaidBy(k, spender)'
  BY <1>1, <1>2, <1>4 DEF PaidBy, TableTypes
<1>8. \A row \in token_usage : PaidBy(row.key, row.spender)'
  BY <1>2, <1>7 DEF TablesOK, TableTypes
<1>9. QED
  BY <1>1, <1>2, <1>5, <1>6, <1>7, <1>8 DEF Keeps, TablesOK, TableTypes

\* delete_user_guarded: with the account go its keys and their attribution,
\* and an administrator only if there is another.
LEMMA DeleteUserKeeps ==
  ASSUME TablesOK, NEW u, DeleteUserGuarded(u)
  PROVE  Keeps
<1>1. /\ u \in DOMAIN users /\ (u \in Admins => Cardinality(Admins) > 1)
      /\ DOMAIN users' = DOMAIN users \ {u}
      /\ \A v \in DOMAIN users' : users'[v] = users[v]
      /\ DOMAIN api_keys' = DOMAIN api_keys \ KeysOf(u)
      /\ \A k \in DOMAIN api_keys' : api_keys'[k] = api_keys[k]
      /\ DOMAIN attribution' = {k \in DOMAIN attribution : attribution[k] # u}
      /\ \A k \in DOMAIN attribution' : attribution'[k] = attribution[k]
      /\ UNCHANGED <<token_usage, last_user, last_key, salts>>
  BY DEF DeleteUserGuarded, Restrict
<1>2. TableTypes
  BY DEF TablesOK
<1>3. TableTypes' /\ BornOnce'
  BY <1>1, <1>2 DEF TablesOK, TableTypes, BornOnce
<1>4. AdminRemains'
  <2>1. Admins' = Admins \ {u}
    BY <1>1 DEF Admins
  <2>2. CASE u \in Admins
    <3>1. Cardinality(Admins \ {u}) = Cardinality(Admins) - 1
      BY <1>2, <2>2, AdminsFinite, FS_RemoveElement
    <3>2. Cardinality(Admins \ {u}) # 0
      BY <1>1, <1>2, <2>2, <3>1, AdminsFinite
    <3>3. Admins \ {u} # {}
      BY <3>2, FS_EmptySet
    <3>4. QED
      BY <2>1, <3>3 DEF AdminRemains
  <2>3. CASE u \notin Admins
    BY <1>1, <2>1, <2>3 DEF TablesOK, AdminRemains
  <2>4. QED
    BY <2>2, <2>3
<1>5. KeysOwned'
  BY <1>1 DEF TablesOK, KeysOwned, KeysOf
<1>6. \A k, spender : PaidBy(k, spender) => PaidBy(k, spender)'
  BY <1>1 DEF PaidBy
<1>7. QED
  BY <1>1, <1>2, <1>3, <1>4, <1>5, <1>6 DEF Keeps, TablesOK, TableTypes

\* UsageStore::record
LEMMA RecordUsageKeeps ==
  ASSUME TablesOK, NEW k \in Nat, NEW spender \in Nat, PaidBy(k, spender),
         RecordUsage(k, spender)
  PROVE  Keeps
<1>1. /\ token_usage' = token_usage \cup {[key |-> k, spender |-> spender]}
      /\ UNCHANGED <<users, api_keys, attribution, last_user, last_key, salts>>
  BY DEF RecordUsage
<1>2. TableTypes' /\ AdminRemains' /\ BornOnce' /\ KeysOwned'
  BY <1>1 DEF TablesOK, TableTypes, AdminRemains, Admins, BornOnce, KeysOwned
<1>3. \A j, by : PaidBy(j, by)' <=> PaidBy(j, by)
  BY <1>1 DEF PaidBy
<1>4. \A row \in token_usage' : PaidBy(row.key, row.spender)
  BY <1>1 DEF TablesOK
<1>5. QED
  BY <1>1, <1>2, <1>3, <1>4 DEF Keeps, TablesOK, TableTypes

\* A step that writes no table keeps everything about them.
LEMMA NoTransactionKeeps ==
  ASSUME TablesOK, UNCHANGED tables
  PROVE  Keeps
<1>1. TablesOK' /\ \A k, spender : PaidBy(k, spender)' <=> PaidBy(k, spender)
  BY DEF tables, TablesOK, TableTypes, AdminRemains, Admins, BornOnce, KeysOwned, PaidBy
<1>2. QED
  BY <1>1 DEF Keeps, tables, TablesOK, TableTypes

-----------------------------------------------------------------------------
(* Requests *)

\* What a request holds stays true whatever transaction runs meanwhile.
LEMMA HeldStays ==
  ASSUME Keeps, NEW h, HeldOK(h)
  PROVE  HeldOK(h)'
BY DEF Keeps, HeldOK

\* What the stage of a request says about what it holds.
LEMMA HeldFacts ==
  ASSUME AccountsInv, NEW r \in Requests
  PROVE  /\ HeldOK(req[r])
         /\ req[r].pc = "login" =>
              /\ req[r].id \in Nat /\ req[r].hash \in Hashes /\ req[r].typed \in Passwords
              /\ req[r].hash.pass = req[r].typed
         /\ req[r].pc = "reset" => req[r].new \in Passwords
         /\ req[r].pc = "change" => req[r].new \in Passwords
         /\ req[r].pc = "call" => /\ req[r].key \in Nat /\ req[r].spender \in Nat
                                  /\ PaidBy(req[r].key, req[r].spender)
         /\ Authed(r) => req[r].id \in Nat
         /\ req[r].pc # "idle" => up /\ last_user > 0
<1>1. HeldOK(req[r])
  BY DEF AccountsInv, RequestsOK
<1>2. req[r].pc # "idle" => up /\ last_user > 0
  BY DEF AccountsInv, ServesAccounts, Idle
<1>3. QED
  BY <1>1, <1>2 DEF HeldOK, Idle, Authed

\* One request goes on, after a transaction or none; the sessions stay.
LEMMA RequestGoes ==
  ASSUME AccountsInv, Keeps, NEW r \in Requests, NEW h, Goes(r, h), HeldOK(h)',
         h # Idle => up, UNCHANGED <<up, cookies, store>>
  PROVE  AccountsInv'
<1>1. req' = [req EXCEPT ![r] = h] /\ DOMAIN req = Requests
  BY DEF Goes, AccountsInv, RequestsOK
<1>2. RequestsOK'
  <2>1. ASSUME NEW q \in Requests
        PROVE  HeldOK(req[q])'
    <3>1. CASE q = r
      <4>1. req'[q] = h
        BY <1>1, <3>1
      <4>2. QED
        BY <4>1 DEF HeldOK, PaidBy
    <3>2. CASE q # r
      <4>1. req'[q] = req[q] /\ HeldOK(req[q])
        BY <1>1, <3>2 DEF AccountsInv, RequestsOK
      <4>2. QED
        BY <4>1, HeldStays DEF HeldOK, PaidBy
    <3>3. QED
      BY <3>1, <3>2
  <2>2. QED
    BY <1>1, <2>1 DEF RequestsOK
<1>3. ServesAccounts'
  BY <1>1 DEF AccountsInv, ServesAccounts, Keeps, TablesOK, TableTypes
<1>4. SessionsOK'
  BY DEF AccountsInv, SessionsOK
<1>5. QED
  BY <1>2, <1>3, <1>4 DEF AccountsInv, Keeps

-----------------------------------------------------------------------------
(* Steps *)

\* A request that ends with its transaction.
LEMMA FinishKeeps ==
  ASSUME AccountsInv, NEW r \in Requests, Keeps, Done(r), UNCHANGED <<up, cookies, store>>
  PROVE  AccountsInv'
<1>1. HeldOK(Idle)'
  BY DEF HeldOK, Idle
<1>2. QED
  BY <1>1, RequestGoes DEF Done, Goes

\* A request that read something, and holds it.
LEMMA HoldKeeps ==
  ASSUME AccountsInv, NEW r \in Requests, NEW h, HeldOK(h), h # Idle => up,
         Goes(r, h), UNCHANGED <<tables, up, cookies, store>>
  PROVE  AccountsInv'
<1>1. Keeps
  BY NoTransactionKeeps DEF AccountsInv
<1>2. QED
  BY <1>1, HeldStays, RequestGoes

\* Handlers that change a table.
LEMMA ManageKeeps ==
  ASSUME AccountsInv, NEW r \in Requests, Manage(r) \/ UseKeys(r)
  PROVE  AccountsInv'
<1>0. TablesOK /\ TableTypes
  BY DEF AccountsInv, TablesOK
<1>1. ASSUME NEW name \in Names, NEW p \in Passwords, NEW admin \in BOOLEAN,
             CreateUserApi(r, name, p, admin)
      PROVE  AccountsInv'
  <2>1. last_user > 0
    BY <1>1, HeldFacts DEF CreateUserApi, AuthedAdmin, Authed
  <2>2. Keeps
    BY <1>0, <1>1, <2>1, CreateUserKeeps DEF CreateUserApi, NewAccount
  <2>3. QED
    BY <1>1, <2>2, FinishKeeps DEF CreateUserApi
<1>2. ASSUME NEW u, DeleteUserApi(r, u)
      PROVE  AccountsInv'
  BY <1>0, <1>2, DeleteUserKeeps, FinishKeeps DEF DeleteUserApi
<1>3. ASSUME NEW u \in DOMAIN users, NEW p \in Passwords, ResetLookup(r, u, p)
      PROVE  AccountsInv'
  <2>1. up
    BY <1>3, HeldFacts DEF ResetLookup, AuthedAdmin, Authed
  <2>2. HeldOK([pc |-> "reset", id |-> u, new |-> p])
    BY <1>0 DEF HeldOK, TableTypes
  <2>3. QED
    BY <1>3, <2>1, <2>2, HoldKeeps DEF ResetLookup
<1>4. CASE ResetCommit(r)
  <2>1. req[r].new \in Passwords
    BY <1>4, HeldFacts DEF ResetCommit
  <2>2. Keeps
    BY <1>0, <1>4, <2>1, NewHashKeeps DEF ResetCommit, ReplacePasswordAndRevokeKeys
  <2>3. QED
    BY <1>4, <2>2, FinishKeeps DEF ResetCommit
<1>5. ASSUME NEW old \in Passwords, NEW p \in Passwords, ChangeVerify(r, old, p)
      PROVE  AccountsInv'
  <2>1. up /\ req[r].id \in Nat
    BY <1>5, HeldFacts DEF ChangeVerify, Authed
  <2>2. users[req[r].id].hash \in Hashes
    BY <1>0, <1>5 DEF ChangeVerify, TableTypes, Rows
  <2>3. HeldOK([pc |-> "change", id |-> req[r].id, old |-> users[req[r].id].hash, new |-> p])
    BY <2>1, <2>2 DEF HeldOK
  <2>4. QED
    BY <1>5, <2>1, <2>3, HoldKeeps DEF ChangeVerify
<1>6. CASE ChangeCommit(r)
  <2>1. req[r].new \in Passwords
    BY <1>6, HeldFacts DEF ChangeCommit
  <2>2. Keeps
    BY <1>0, <1>6, <2>1, NewHashKeeps DEF ChangeCommit, CompareAndSwapPassword
  <2>3. QED
    BY <1>6, <2>2, FinishKeeps DEF ChangeCommit
<1>7. CASE Respond(r)
  BY <1>0, <1>7, NoTransactionKeeps, FinishKeeps DEF Respond
<1>8. CASE CreateApiKey(r)
  BY <1>0, <1>8, InsertApiKeyKeeps, FinishKeeps DEF CreateApiKey
<1>9. ASSUME NEW k, DeleteApiKeyApi(r, k)
      PROVE  AccountsInv'
  BY <1>0, <1>9, DeleteApiKeyKeeps, FinishKeeps DEF DeleteApiKeyApi
<1>10. ASSUME NEW k \in DOMAIN api_keys, AuthByKey(r, k)
       PROVE  AccountsInv'
  <2>1. /\ api_keys[k] \in DOMAIN users /\ api_keys[k] \in Nat
        /\ users[api_keys[k]].admin \in BOOLEAN
    BY <1>0, <1>10 DEF AuthByKey, TableTypes, Rows
  <2>2. HeldOK([pc |-> "authed", id |-> api_keys[k], admin |-> users[api_keys[k]].admin])
    BY <2>1 DEF HeldOK
  <2>3. QED
    BY <1>10, <2>2, HoldKeeps DEF AuthByKey
<1>11. ASSUME NEW k \in DOMAIN api_keys, BeginCall(r, k)
       PROVE  AccountsInv'
  <2> DEFINE born == users[api_keys[k]].born
  <2>1. /\ api_keys[k] \in DOMAIN users /\ born \in Nat /\ born <= salts
        /\ k \in DOMAIN attribution /\ attribution[k] = api_keys[k]
        /\ k \in Nat /\ k <= last_key
    BY <1>0, <1>11 DEF BeginCall, TablesOK, TableTypes, Rows, BornOnce, KeysOwned
  <2>2. PaidBy(k, born)
    BY <1>0, <2>1 DEF PaidBy, TablesOK, BornOnce
  <2>3. HeldOK([pc |-> "call", key |-> k, spender |-> born])
    BY <2>1, <2>2 DEF HeldOK
  <2>4. QED
    BY <1>11, <2>3, HoldKeeps DEF BeginCall
<1>12. CASE EndCall(r)
  BY <1>0, <1>12, HeldFacts, RecordUsageKeeps, FinishKeeps DEF EndCall
<1>13. QED
  BY <1>1, <1>2, <1>3, <1>4, <1>5, <1>6, <1>7, <1>8, <1>9, <1>10, <1>11, <1>12
     DEF Manage, UseKeys

\* A session step leaves the tables and the other requests alone.
LEMMA SessionStepKeeps ==
  ASSUME AccountsInv, SessionsOK', UNCHANGED <<tables, up>>,
         UNCHANGED req \/ (\E r \in Requests : Done(r))
  PROVE  AccountsInv'
<1>1. Keeps /\ TablesOK'
  BY NoTransactionKeeps DEF AccountsInv, Keeps
<1>2. ASSUME NEW q \in Requests
      PROVE  HeldOK(req[q])' /\ (req'[q] = req[q] \/ req'[q] = Idle)
  <2>1. req'[q] = req[q] \/ req'[q] = Idle
    BY DEF Done, AccountsInv, RequestsOK
  <2>2. HeldOK(req[q])
    BY DEF AccountsInv, RequestsOK
  <2>3. QED
    BY <1>1, <2>1, <2>2, HeldStays DEF HeldOK, PaidBy
<1>3. RequestsOK'
  <2>1. DOMAIN req' = Requests
    BY DEF Done, AccountsInv, RequestsOK
  <2>2. QED
    BY <1>2, <2>1 DEF RequestsOK
<1>4. ServesAccounts'
  BY <1>2 DEF AccountsInv, ServesAccounts, tables
<1>5. QED
  BY <1>1, <1>3, <1>4 DEF AccountsInv

\* What happens to sessions, from login to expiry and purge, keeps the invariant.
LEMMA BrowserKeeps ==
  ASSUME AccountsInv, Browser \/ PurgeExpired
  PROVE  AccountsInv'
<1>0. TableTypes /\ SessionsOK
  BY DEF AccountsInv, TablesOK
<1>1. ASSUME NEW r \in Requests, NEW name \in Names, NEW p \in Passwords, Login(r, name, p)
      PROVE  AccountsInv'
  <2> DEFINE u == IdOf(name)
  <2>1. u \in DOMAIN users
    BY <1>1, IdOfFacts DEF Login
  <2>2. u \in Nat /\ users[u].hash \in Hashes /\ users[u].hash.pass = p
    BY <1>0, <1>1, <2>1 DEF TableTypes, Rows, Login, Verify
  <2>3. HeldOK([pc |-> "login", id |-> u, hash |-> users[u].hash, typed |-> p])
    <3> HIDE DEF u
    <3> QED BY <2>2 DEF HeldOK
  <2>4. QED
    BY <1>1, <2>3, HoldKeeps DEF Login
<1>2. ASSUME NEW r \in Requests, NEW s \in Sessions, StoreSession(r, s)
      PROVE  AccountsInv'
  <2> DEFINE new == [id |-> req[r].id, hash |-> req[r].hash, typed |-> req[r].typed,
                     live |-> TRUE]
  <2>1. /\ req[r].pc = "login" /\ s \notin DOMAIN cookies
        /\ cookies' = Insert(cookies, s, new) /\ store' = store \cup {s}
    BY <1>2 DEF StoreSession
  <2>2. /\ new \in [id : Nat, hash : Hashes, typed : Passwords, live : BOOLEAN]
        /\ new.hash.pass = new.typed
    BY <2>1, HeldFacts
  <2> HIDE DEF new
  <2>3. SessionsOK'
    BY <1>0, <2>1, <2>2 DEF SessionsOK, Insert
  <2>4. QED
    BY <1>2, <2>3, SessionStepKeeps DEF StoreSession
<1>3. ASSUME NEW r \in Requests, NEW s \in Sessions, AuthBySession(r, s)
      PROVE  AccountsInv'
  <2>1. cookies[s].id \in DOMAIN users
    BY <1>3 DEF AuthBySession, Admits
  <2>2. cookies[s].id \in Nat /\ users[cookies[s].id].admin \in BOOLEAN
    BY <1>0, <2>1 DEF TableTypes, Rows
  <2>3. HeldOK([pc |-> "authed", id |-> cookies[s].id, admin |-> users[cookies[s].id].admin])
    BY <2>2 DEF HeldOK
  <2>4. QED
    BY <1>3, <2>3, HoldKeeps DEF AuthBySession
<1>4. ASSUME NEW s \in Sessions, Logout(s) \/ FlushSession(s)
      PROVE  AccountsInv'
  <2>1. Drop(s) /\ UNCHANGED <<tables, up, req>>
    BY <1>4 DEF Logout, FlushSession
  <2>2. SessionsOK'
    BY <1>0, <2>1 DEF Drop, SessionsOK, Restrict
  <2>3. QED
    BY <2>1, <2>2, SessionStepKeeps
<1>5. ASSUME NEW s \in Sessions, Expire(s)
      PROVE  AccountsInv'
  <2>1. SessionsOK'
    BY <1>0, <1>5 DEF Expire, SessionsOK
  <2>2. QED
    BY <1>5, <2>1, SessionStepKeeps DEF Expire
<1>6. CASE PurgeExpired
  <2>1. SessionsOK'
    BY <1>0, <1>6 DEF PurgeExpired, SessionsOK, Restrict
  <2>2. QED
    BY <1>6, <2>1, SessionStepKeeps DEF PurgeExpired
<1>7. QED
  BY <1>1, <1>2, <1>3, <1>4, <1>5, <1>6 DEF Browser

\* Starting the process, with or without a bootstrap, and its end keep the invariant.
LEMMA ProcessKeeps ==
  ASSUME AccountsInv, Start \/ Stop
  PROVE  AccountsInv'
<1>0. TablesOK /\ TableTypes
  BY DEF AccountsInv, TablesOK
<1>1. ASSUME Keeps, last_user' > 0, up' = TRUE, ~up, UNCHANGED <<req, cookies, store>>
      PROVE  AccountsInv'
  <2>1. \A r \in Requests : req'[r] = Idle
    BY <1>1 DEF AccountsInv, ServesAccounts
  <2>2. RequestsOK'
    BY <1>1, <2>1 DEF AccountsInv, RequestsOK, HeldOK
  <2>3. QED
    BY <1>1, <2>1, <2>2 DEF AccountsInv, ServesAccounts, SessionsOK, Keeps
<1>2. users # <<>> => last_user > 0
  BY <1>0 DEF TableTypes
<1>3. ASSUME NEW name \in Names, NEW p \in Passwords, Bootstrap(name, p)
      PROVE  AccountsInv'
  <2>1. Keeps /\ last_user' > 0
    BY <1>0, <1>3, CreateUserKeeps DEF Bootstrap
  <2>2. QED
    BY <1>1, <1>3, <2>1 DEF Bootstrap
<1>4. ASSUME NEW name \in Names, NEW p \in Passwords, StartConfigured(name, p)
      PROVE  AccountsInv'
  <2>1. Keeps
    <3>1. CASE UNCHANGED tables
      BY <1>0, <3>1, NoTransactionKeeps
    <3>2. CASE IdOf(name) # None /\ UpdatePassword(IdOf(name), p)
      BY <1>0, <3>2, IdOfFacts, NewHashKeeps
    <3>3. QED
      BY <1>4, <3>1, <3>2 DEF StartConfigured
  <2>2. last_user' > 0
    BY <1>0, <1>2, <1>4, <2>1 DEF StartConfigured, Keeps, TablesOK, TableTypes
  <2>3. QED
    BY <1>1, <1>4, <2>1, <2>2 DEF StartConfigured
<1>5. CASE StartPlain
  <2>1. Keeps /\ last_user' > 0
    BY <1>0, <1>2, <1>5, NoTransactionKeeps DEF StartPlain, tables
  <2>2. QED
    BY <1>1, <1>5, <2>1 DEF StartPlain
<1>6. CASE Stop
  <2>1. TablesOK'
    BY <1>0, <1>6, NoTransactionKeeps DEF Stop, Keeps
  <2>2. RequestsOK'
    BY <1>6 DEF Stop, RequestsOK, HeldOK
  <2>3. ServesAccounts'
    BY <1>6 DEF Stop, ServesAccounts
  <2>4. SessionsOK'
    BY <1>6 DEF Stop, AccountsInv, SessionsOK
  <2>5. QED
    BY <2>1, <2>2, <2>3, <2>4 DEF AccountsInv
<1>7. QED
  BY <1>3, <1>4, <1>5, <1>6 DEF Start

-----------------------------------------------------------------------------
(* Theorems *)

\* The empty database satisfies the invariant.
LEMMA AccountsInit ==
  Init => AccountsInv
<1> SUFFICES ASSUME Init PROVE AccountsInv
  OBVIOUS
<1>1. DOMAIN users = {} /\ DOMAIN api_keys = {} /\ DOMAIN attribution = {} /\ DOMAIN cookies = {}
  BY DEF Init, StoreInit
<1>2. TablesOK
  BY <1>1 DEF Init, StoreInit, TablesOK, TableTypes, AdminRemains, BornOnce, KeysOwned
<1>3. RequestsOK /\ ServesAccounts /\ SessionsOK
  BY <1>1 DEF Init, RequestsOK, HeldOK, ServesAccounts, SessionsOK
<1>4. QED
  BY <1>2, <1>3 DEF AccountsInv

\* Every step keeps the invariant.
LEMMA AccountsStep ==
  AccountsInv /\ [Next]_vars => AccountsInv'
<1> SUFFICES ASSUME AccountsInv, [Next]_vars PROVE AccountsInv'
  OBVIOUS
<1>1. CASE UNCHANGED vars
  <2>1. SessionsOK' /\ UNCHANGED <<tables, up>> /\ UNCHANGED req
    BY <1>1 DEF AccountsInv, SessionsOK, vars, tables
  <2>2. QED
    BY <2>1, SessionStepKeeps
<1>2. CASE Next
  BY <1>2, ProcessKeeps, BrowserKeeps, ManageKeeps DEF Next
<1>3. QED
  BY <1>1, <1>2

\* The inductive invariant holds of every reachable state, with requests at
\* any stage and the process restarted at any moment.
THEOREM AccountsInvariant == Spec => []AccountsInv
BY AccountsInit, AccountsStep, PTL DEF Spec

\* However administrators delete each other and accounts are created, the
\* tables hold an administrator (delete_user_guarded, build_state).
THEOREM AdministratorRemains == Spec => []AdminRemains
<1>1. AccountsInv => AdminRemains
  BY DEF AccountsInv, TablesOK
<1>2. QED
  BY <1>1, AccountsInvariant, PTL

\* Every usage row is attributed to the account whose key paid for it, or to
\* nobody once that account is deleted; no key outlives its owner
\* (api_key_attribution, AUTOINCREMENT, ON DELETE CASCADE).
THEOREM UsageAttributedExactly == Spec => []AttributionExact
<1>1. AccountsInv => AttributionExact
  <2> SUFFICES ASSUME AccountsInv PROVE AttributionExact
    OBVIOUS
  <2>1. KeysOwned /\ \A row \in token_usage : PaidBy(row.key, row.spender)
    BY DEF AccountsInv, TablesOK
  <2>2. ASSUME NEW row \in token_usage
        PROVE  LET owners == {u \in DOMAIN users : users[u].born = row.spender}
               IN  IF row.key \in DOMAIN attribution
                     THEN owners = {attribution[row.key]}
                     ELSE owners = {}
    BY <2>1 DEF PaidBy, KeysOwned
  <2>3. QED
    BY <2>1, <2>2 DEF AttributionExact, KeysOwned
<1>2. QED
  BY <1>1, AccountsInvariant, PTL

\* A session that is still admitted was opened with the password its user has
\* now: a password replaced before, during or after the login shuts it out
\* (session_auth_hash).
THEOREM SessionsStayProved == Spec => []SessionsProvePassword
<1>1. AccountsInv => SessionsProvePassword
  BY DEF AccountsInv, SessionsOK, SessionsProvePassword, Admits, Verify
<1>2. QED
  BY <1>1, AccountsInvariant, PTL

\* A step that ends a password change changes that user's hash only from the
\* one the old password was verified against.
LEMMA ChangeComparesHash ==
  ASSUME AccountsInv, [Next]_vars, NEW r \in Requests,
         req[r].pc = "change", req'[r] = Idle,
         req[r].id \in DOMAIN users, req[r].id \in DOMAIN users',
         users'[req[r].id].hash # users[req[r].id].hash
  PROVE  users[req[r].id].hash = req[r].old
<1>0. DOMAIN req = Requests /\ up /\ req'[r] # req[r] /\ users' # users
  BY HeldFacts DEF AccountsInv, RequestsOK, Idle
<1>1. Next /\ ~Stop /\ ~Start /\ ~Browser /\ ~PurgeExpired
  BY <1>0 DEF vars, tables, Stop, Start, Bootstrap, StartConfigured, StartPlain, Browser, Login,
     StoreSession, AuthBySession, Logout, Expire, FlushSession, PurgeExpired
<1>2. PICK q \in Requests : Manage(q) \/ UseKeys(q)
  BY <1>1 DEF Next
<1>3. q = r
  <2>1. \E h : Goes(q, h)
    BY <1>2 DEF Manage, UseKeys, CreateUserApi, DeleteUserApi, ResetLookup, ResetCommit,
       ChangeVerify, ChangeCommit, Respond, CreateApiKey, AuthByKey, DeleteApiKeyApi,
       BeginCall, EndCall, Done, Goes
  <2>2. QED
    BY <1>0, <2>1 DEF Goes
<1>4. ChangeCommit(r)
  BY <1>0, <1>2, <1>3 DEF Manage, UseKeys, CreateUserApi, DeleteUserApi, ResetLookup, ResetCommit,
     ChangeVerify, Respond, CreateApiKey, AuthByKey, DeleteApiKeyApi,
     BeginCall, EndCall, AuthedAdmin, Authed, Idle, tables
<1>5. QED
  BY <1>4 DEF ChangeCommit, CompareAndSwapPassword

\* A password change never undoes a reset that was committed after the old
\* password was verified (compare_and_swap_password_and_revoke_keys).
THEOREM ResetNeverUndone == Spec => NoLostReset
<1>1. ASSUME AccountsInv, [Next]_vars
      PROVE  [\A r \in Requests :
                req[r].pc = "change" /\ req'[r] = Idle /\ users' # users
                /\ req[r].id \in DOMAIN users /\ req[r].id \in DOMAIN users'
                /\ users'[req[r].id].hash # users[req[r].id].hash
                  => users[req[r].id].hash = req[r].old]_vars
  BY <1>1, ChangeComparesHash
<1>2. QED
  BY <1>1, AccountsInvariant, PTL DEF Spec, NoLostReset
=============================================================================
