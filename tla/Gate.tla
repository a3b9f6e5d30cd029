--------------------------------- MODULE Gate ---------------------------------
(***************************************************************************)
(* The two gates in front of the data routes: the API key of the calling   *)
(* service and the session of its user, with what both depend on, the      *)
(* secret that the tasks of the four services read when they start.        *)
(*                                                                         *)
(* The secret holds two API keys, either of which is accepted, and the key *)
(* that signs session tokens.  `terraform apply` writes it and starts no   *)
(* task: the services ignore changes of their task definition, which names *)
(* the secret without a version.  Tasks are replaced when a deploy, a      *)
(* scaling step or a failure does so.                                      *)
(*                                                                         *)
(* A session is a signed token and nothing else: no task keeps any, and    *)
(* one that some task issued is honoured by all that have its key, with    *)
(* the roles its user had at the login.  One user is followed.  Time is    *)
(* discrete and the tasks' clocks agree.                                   *)
(***************************************************************************)
EXTENDS Integers, FiniteSets

CONSTANTS
  Tasks,      \* running tasks of all services; a replacement keeps the name
  Callers,    \* clients of the services
  Keys,       \* API keys
  Empty,      \* the empty string: no key
  JwtSecrets, \* keys that sign tokens
  Roles,      \* what users.roles may name
  TTL,        \* lifetime of a token (3600 s), in ticks
  MaxLogin,   \* longest time from the SELECT of a login to the signature
  MaxLogins,  \* bound: logins in progress
  MaxTokens   \* bound: tokens about

ASSUME GateAssumption ==
  /\ Empty \notin Keys
  /\ TTL \in Nat \ {0}
  /\ MaxLogin \in Nat

VARIABLES
  secret,     \* api_key, api_key_next and jwt_secret in Secrets Manager
  env,        \* API_KEY, API_KEY_NEXT and JWT_SECRET of each task
  sends,      \* the X-API-Key of each caller
  step,       \* how far the operator is with the rotation of the API key
  row,        \* what the SELECT finds: nothing, or one row, its roles
  since,      \* history: time since the row last allowed a level, up to Horizon
  logins,     \* logins that have read the row and not yet answered
  tokens      \* tokens about: in cookie jars, in requests on their way

keyVars == <<sends, step>>
userVars == <<row, since>>
sessionVars == <<logins, tokens>>
vars == <<secret, env, keyVars, userVars, sessionVars>>

Secret == [cur : Keys, next : Keys \cup {Empty}, jwt : JwtSecrets]
Rows == {{}} \cup {{r} : r \in SUBSET Roles}
Login == [task : Tasks, roles : SUBSET Roles, age : 0..MaxLogin]
Token == [jwt : JwtSecrets, roles : SUBSET Roles, left : 0..TTL]

-----------------------------------------------------------------------------
(* What a task decides of a request. *)

\* The comparison of the API key.
Accepts(e, k) == k # Empty /\ k \in {e.cur, e.next}

\* Mutant: the expiry in the token is not looked at.
VerifiedForEver(e, tok) == tok.jwt = e.jwt

\* The signature is right and the token has not expired.
Verified(e, tok) == /\ tok.jwt = e.jwt
                    /\ tok.left > 0

\* What a request asks for: /auth/me and the reads need a session, POST /data needs
\* one of two roles as well.
Levels == {"read", "create"}
Allowed(roles, level) == level = "create" => roles \cap {"writer", "admin"} # {}

Admits(e, k, tok, level) == /\ Accepts(e, k)
                            /\ Verified(e, tok)
                            /\ Allowed(tok.roles, level)

-----------------------------------------------------------------------------
(* The user and the sessions. *)

Grants(rows, level) == \E r \in rows : Allowed(r, level)

Horizon == TTL + MaxLogin
Older(t) == IF t < Horizon THEN t + 1 ELSE Horizon

\* An operator changes, removes or adds the row; `seed-admin` does one of these.
RowChanges == \E r \in Rows \ {row} :
                /\ row' = r
                /\ since' = [l \in Levels |-> IF Grants(r, l) THEN 0 ELSE since[l]]
                /\ UNCHANGED <<secret, env, keyVars, sessionVars>>

\* A login passes the first gate and reads the row; without one the answer is 401.
ReadUser(t) == /\ \E c \in Callers : Accepts(env[t], sends[c])
               /\ Cardinality(logins) < MaxLogins
               /\ \E r \in row : logins' = logins \cup {[task |-> t, roles |-> r, age |-> 0]}
               /\ UNCHANGED <<secret, env, keyVars, userVars, tokens>>

\* The password is right: a token with the roles read before is signed and handed out.
Sign(l) == /\ Cardinality(tokens) < MaxTokens
           /\ logins' = logins \ {l}
           /\ tokens' = tokens \cup {[jwt |-> env[l.task].jwt, roles |-> l.roles, left |-> TTL]}
           /\ UNCHANGED <<secret, env, keyVars, userVars>>

\* Wrong password, or the caller is gone.
LoginFails(l) == /\ logins' = logins \ {l}
                 /\ UNCHANGED <<secret, env, keyVars, userVars, tokens>>

\* A copy of a token is dropped: logout clears the cookie, and so does its Max-Age.
\* No task learns of it; another copy may still be on its way.
Forget(tok) == /\ tokens' = tokens \ {tok}
               /\ UNCHANGED <<secret, env, keyVars, userVars, logins>>

Tick == /\ \A l \in logins : l.age < MaxLogin
        /\ since' = [v \in Levels |-> IF Grants(row, v) THEN 0 ELSE Older(since[v])]
        /\ logins' = {[l EXCEPT !.age = @ + 1] : l \in logins}
        /\ tokens' = {[k EXCEPT !.left = IF @ > 0 THEN @ - 1 ELSE 0] : k \in tokens}
        /\ UNCHANGED <<secret, env, keyVars, row>>

-----------------------------------------------------------------------------
(* The secret and the tasks. *)

Init == /\ secret \in {s \in Secret : s.next = Empty}
        /\ env = [t \in Tasks |-> secret]
        /\ sends = [c \in Callers |-> secret.cur]
        /\ step = "steady"
        /\ row = {}
        /\ since = [l \in Levels |-> Horizon]
        /\ logins = {}
        /\ tokens = {}

\* A task is replaced: its logins are lost, the new one reads the secret.
Replace(t) == /\ env' = [env EXCEPT ![t] = secret]
              /\ logins' = {l \in logins : l.task # t}
              /\ UNCHANGED <<secret, keyVars, userVars, tokens>>

\* terraform apply with a new jwt_secret, which starts nothing.
RotateJwt == /\ \E j \in JwtSecrets \ {secret.jwt} : secret' = [secret EXCEPT !.jwt = j]
             /\ UNCHANGED <<env, keyVars, userVars, sessionVars>>

\* terraform apply with a new api_key_next.
Stage == /\ step = "steady"
         /\ \E k \in Keys \ {secret.cur} : secret' = [secret EXCEPT !.next = k]
         /\ step' = "staged"
         /\ UNCHANGED <<env, sends, userVars, sessionVars>>

\* Every task has the API keys of the secret.
Rolled == \A t \in Tasks : env[t].cur = secret.cur /\ env[t].next = secret.next

\* Mutant: apply is trusted to have replaced the tasks.
MigrateAtOnce == /\ step = "staged"
                 /\ step' = "migrating"
                 /\ UNCHANGED <<secret, env, sends, userVars, sessionVars>>

\* "set the new key here, redeploy, migrate clients, then swap" (variables.tf:73):
\* the operator redeploys, and once every task has been replaced starts to update
\* the callers ...
Migrate == /\ step = "staged"
           /\ Rolled
           /\ step' = "migrating"
           /\ UNCHANGED <<secret, env, sends, userVars, sessionVars>>

\* ... one after the other ...
CallerMoves(c) == /\ step = "migrating"
                  /\ sends' = [sends EXCEPT ![c] = secret.next]
                  /\ UNCHANGED <<secret, env, step, userVars, sessionVars>>

\* Mutant: the swap is applied although nothing was staged.
SwapUnstaged == /\ secret' = [secret EXCEPT !.cur = secret.next, !.next = Empty]
                /\ step' = "steady"
                /\ UNCHANGED <<env, sends, userVars, sessionVars>>

\* ... and, when all have moved, applies the swap.
Swap == /\ step = "migrating"
        /\ \A c \in Callers : sends[c] = secret.next
        /\ secret' = [secret EXCEPT !.cur = secret.next, !.next = Empty]
        /\ step' = "steady"
        /\ UNCHANGED <<env, sends, userVars, sessionVars>>

Next == \/ RowChanges \/ Tick
        \/ RotateJwt \/ Stage \/ Migrate \/ Swap
        \/ \E t \in Tasks : ReadUser(t) \/ Replace(t)
        \/ \E l \in logins : Sign(l) \/ LoginFails(l)
        \/ \E tok \in tokens : Forget(tok)
        \/ \E c \in Callers : CallerMoves(c)

Spec == Init /\ [][Next]_vars

-----------------------------------------------------------------------------
TypeOK == /\ secret \in Secret
          /\ env \in [Tasks -> Secret]
          /\ sends \in [Callers -> Keys]
          /\ step \in {"steady", "staged", "migrating"}
          /\ row \in Rows
          /\ since \in [Levels -> 0..Horizon]
          /\ logins \in SUBSET Login
          /\ tokens \in SUBSET Token

\* With a redeploy between the two applies every task accepts every caller's key at
\* all times, also tasks replaced in the middle of a rotation, tasks that no later
\* rotation has reached, and rotations that follow each other with no redeploy
\* after the swap (check_api_key_dual, the secrets of the task definition).
NoDowntime == \A t \in Tasks, c \in Callers : Accepts(env[t], sends[c])

\* A user whose row is removed, or who loses the right to create, is let in by no
\* task once TTL + MaxLogin have passed since: however often the user logged in,
\* whatever login was under way at the time, on whatever task a token is presented
\* and whatever happened to the secret (the roles in the token, its exp claim).
BoundedRevocation ==
  \A t \in Tasks, c \in Callers, tok \in tokens, level \in Levels :
    Admits(env[t], sends[c], tok, level) => since[level] < TTL + MaxLogin
=============================================================================
