------------------------------ MODULE GateProofs ------------------------------
(***************************************************************************)
(* No caller is refused during a rotation, and no user is let in long      *)
(* after losing the right to be: for any number of tasks and callers, any  *)
(* lifetime of tokens and any duration of logins.                          *)
(***************************************************************************)
EXTENDS Gate, TLAPS

(***************************************************************************)
(* The API key.  Until the callers move, every task accepts the key they   *)
(* all send, if only as what was its next key in a rotation long past.     *)
(* While they move, every task has both keys.                              *)
(***************************************************************************)
KeysInv ==
  \/ /\ step = "steady"
     /\ \A c \in Callers : sends[c] = secret.cur
     /\ \A t \in Tasks : Accepts(env[t], secret.cur)
  \/ /\ step = "staged"
     /\ secret.next \in Keys
     /\ \A c \in Callers : sends[c] = secret.cur
     /\ \A t \in Tasks : Accepts(env[t], secret.cur)
  \/ /\ step = "migrating"
     /\ secret.next \in Keys
     /\ Rolled
     /\ \A c \in Callers : sends[c] \in {secret.cur, secret.next}

(***************************************************************************)
(* The session.  What a login has read is no further from the truth than   *)
(* the login is old; what a token says, no further than the longest login  *)
(* and the part of the lifetime that has passed.                           *)
(***************************************************************************)
RowIsTrue == \A v \in Levels : Grants(row, v) => since[v] = 0
LoginsYoung == \A l \in logins, v \in Levels : Allowed(l.roles, v) => since[v] <= l.age
TokensYoung == \A k \in tokens, v \in Levels :
                 Allowed(k.roles, v) => since[v] <= MaxLogin + TTL - k.left

SessionInv == RowIsTrue /\ LoginsYoung /\ TokensYoung

IInv == TypeOK /\ KeysInv /\ SessionInv

LEMMA InitInv == Init => IInv
<1> SUFFICES ASSUME Init PROVE IInv
  OBVIOUS
<1>1. TypeOK
  BY GateAssumption DEF Init, TypeOK, Secret, Horizon, Levels, Rows
<1>2. KeysInv
  BY <1>1, GateAssumption DEF Init, KeysInv, Accepts, TypeOK, Secret
<1>3. SessionInv
  BY DEF Init, SessionInv, RowIsTrue, LoginsYoung, TokensYoung, Grants
<1>4. QED
  BY <1>1, <1>2, <1>3 DEF IInv

-----------------------------------------------------------------------------
\* The keys: every step that leaves them alone, the replacement of a task, and the
\* operator's steps.
LEMMA KeysKept ==
  ASSUME IInv, sends' = sends, step' = step, env' = env,
         secret'.cur = secret.cur, secret'.next = secret.next
  PROVE  KeysInv'
BY DEF IInv, KeysInv, Rolled, Accepts

LEMMA ReplaceKeys ==
  ASSUME IInv, NEW t \in Tasks, Replace(t)
  PROVE  KeysInv'
<1>1. /\ secret' = secret /\ sends' = sends /\ step' = step
      /\ \A u \in Tasks : env'[u] = IF u = t THEN secret ELSE env[u]
  BY DEF Replace, keyVars, IInv, TypeOK
<1>2. Accepts(secret, secret.cur)
  BY GateAssumption DEF IInv, TypeOK, Secret, Accepts
<1>3. CASE step = "migrating"
  BY <1>1, <1>3 DEF IInv, KeysInv, Rolled
<1>4. CASE step # "migrating"
  BY <1>1, <1>2, <1>4 DEF IInv, KeysInv, Accepts
<1>5. QED
  BY <1>3, <1>4

LEMMA OperatorKeys ==
  ASSUME IInv, Stage \/ Migrate \/ Swap \/ \E c \in Callers : CallerMoves(c)
  PROVE  KeysInv'
<1>1. CASE Stage
  <2>1. PICK k \in Keys : secret' = [secret EXCEPT !.next = k]
    BY <1>1 DEF Stage
  <2>2. secret'.cur = secret.cur /\ secret'.next = k
    BY <2>1 DEF IInv, TypeOK, Secret
  <2>3. QED
    BY <1>1, <2>2 DEF Stage, IInv, KeysInv, Accepts
<1>2. CASE Migrate
  BY <1>2 DEF Migrate, IInv, KeysInv, Rolled
<1>3. CASE Swap
  <2>1. secret'.cur = secret.next
    BY <1>3 DEF Swap, IInv, TypeOK, Secret
  <2>2. \A t \in Tasks : Accepts(env[t], secret.next)
    BY <1>3, GateAssumption DEF Swap, IInv, KeysInv, Rolled, Accepts
  <2>3. QED
    BY <1>3, <2>1, <2>2 DEF Swap, KeysInv, Accepts
<1>4. ASSUME NEW c \in Callers, CallerMoves(c)
      PROVE  KeysInv'
  <2>1. \A d \in Callers : sends'[d] = IF d = c THEN secret.next ELSE sends[d]
    BY <1>4 DEF CallerMoves, IInv, TypeOK
  <2>2. QED
    BY <1>4, <2>1 DEF CallerMoves, IInv, KeysInv, Rolled
<1>5. QED
  BY <1>1, <1>2, <1>3, <1>4

LEMMA NextKeys ==
  ASSUME IInv, Next
  PROVE  KeysInv'
<1>1. CASE Stage \/ Migrate \/ Swap \/ \E c \in Callers : CallerMoves(c)
  BY <1>1, OperatorKeys
<1>2. CASE \E t \in Tasks : Replace(t)
  BY <1>2, ReplaceKeys
<1>3. CASE RotateJwt
  <2>1. PICK j \in JwtSecrets : secret' = [secret EXCEPT !.jwt = j]
    BY <1>3 DEF RotateJwt
  <2>2. secret'.cur = secret.cur /\ secret'.next = secret.next
    BY <2>1 DEF IInv, TypeOK, Secret
  <2>3. QED
    BY <1>3, <2>2, KeysKept DEF RotateJwt, keyVars
<1>4. CASE RowChanges \/ Tick
  BY <1>4, KeysKept DEF RowChanges, Tick, keyVars
<1>5. CASE \E t \in Tasks : ReadUser(t)
  BY <1>5, KeysKept DEF ReadUser, keyVars
<1>6. CASE \E l \in logins : Sign(l) \/ LoginFails(l)
  BY <1>6, KeysKept DEF Sign, LoginFails, keyVars
<1>7. CASE \E tok \in tokens : Forget(tok)
  BY <1>7, KeysKept DEF Forget, keyVars
<1>8. QED
  BY <1>1, <1>2, <1>3, <1>4, <1>5, <1>6, <1>7 DEF Next

-----------------------------------------------------------------------------
\* The types.
LEMMA NextType ==
  ASSUME IInv, Next
  PROVE  TypeOK'
<1> USE GateAssumption
<1>1. CASE Stage \/ Swap \/ RotateJwt
  <2>1. secret' \in Secret
    BY <1>1 DEF Stage, Swap, RotateJwt, IInv, KeysInv, TypeOK, Secret
  <2>2. QED
    BY <1>1, <2>1 DEF Stage, Swap, RotateJwt, IInv, TypeOK, keyVars, userVars, sessionVars
<1>2. CASE Migrate \/ \E c \in Callers : CallerMoves(c)
  <2>1. sends' \in [Callers -> Keys]
    BY <1>2 DEF Migrate, CallerMoves, IInv, KeysInv, TypeOK
  <2>2. QED
    BY <1>2, <2>1 DEF Migrate, CallerMoves, IInv, TypeOK, userVars, sessionVars
<1>3. CASE \E t \in Tasks : Replace(t)
  BY <1>3 DEF Replace, IInv, TypeOK, keyVars, userVars
<1>4. CASE RowChanges
  BY <1>4 DEF RowChanges, IInv, TypeOK, Horizon, Levels, keyVars, sessionVars
<1>5. CASE \E t \in Tasks : ReadUser(t)
  <2>1. PICK t \in Tasks : ReadUser(t)
    BY <1>5
  <2>2. PICK r \in row : logins' = logins \cup {[task |-> t, roles |-> r, age |-> 0]}
    BY <2>1 DEF ReadUser
  <2>3. r \in SUBSET Roles
    BY DEF IInv, TypeOK, Rows
  <2>4. [task |-> t, roles |-> r, age |-> 0] \in Login
    BY <2>3 DEF Login
  <2>5. QED
    BY <2>1, <2>2, <2>4 DEF ReadUser, IInv, TypeOK, keyVars, userVars
<1>6. CASE \E l \in logins : Sign(l) \/ LoginFails(l)
  <2>1. PICK l \in logins : Sign(l) \/ LoginFails(l)
    BY <1>6
  <2>2. l \in Login /\ env[l.task] \in Secret
    BY DEF IInv, TypeOK, Login
  <2>3. [jwt |-> env[l.task].jwt, roles |-> l.roles, left |-> TTL] \in Token
    BY <2>2 DEF Login, Secret, Token
  <2>4. QED
    BY <2>1, <2>3 DEF Sign, LoginFails, IInv, TypeOK, keyVars, userVars
<1>7. CASE \E tok \in tokens : Forget(tok)
  BY <1>7 DEF Forget, IInv, TypeOK, keyVars, userVars
<1>8. CASE Tick
  <2>1. since' \in [Levels -> 0..Horizon]
    BY <1>8 DEF Tick, IInv, TypeOK, Older, Horizon
  <2>2. logins' \in SUBSET Login
    BY <1>8 DEF Tick, IInv, TypeOK, Login
  <2>3. tokens' \in SUBSET Token
    BY <1>8 DEF Tick, IInv, TypeOK, Token
  <2>4. QED
    BY <1>8, <2>1, <2>2, <2>3 DEF Tick, IInv, TypeOK, keyVars
<1>9. QED
  BY <1>1, <1>2, <1>3, <1>4, <1>5, <1>6, <1>7, <1>8 DEF Next

-----------------------------------------------------------------------------
\* The session: steps that forget or leave alone, and one lemma for each other step.
LEMMA SessionKept ==
  ASSUME IInv, row' = row, since' = since, logins' \subseteq logins, tokens' \subseteq tokens
  PROVE  SessionInv'
BY DEF IInv, SessionInv, RowIsTrue, LoginsYoung, TokensYoung, Grants, Allowed

\* A right gained makes every login and token younger; a right lost, none older.
LEMMA RowChangesSession ==
  ASSUME IInv, RowChanges
  PROVE  SessionInv'
<1>1. PICK r \in Rows :
        /\ row' = r
        /\ since' = [v \in Levels |-> IF Grants(r, v) THEN 0 ELSE since[v]]
  BY DEF RowChanges
<1>2. \A v \in Levels : since'[v] <= since[v] /\ since[v] \in 0..Horizon
                        /\ since'[v] \in 0..Horizon
  BY <1>1, GateAssumption DEF IInv, TypeOK, Horizon
<1>3. logins' = logins /\ tokens' = tokens
  BY DEF RowChanges, sessionVars
<1>4. RowIsTrue'
  BY <1>1 DEF RowIsTrue, Grants, Allowed
<1>5. LoginsYoung'
  BY <1>2, <1>3, GateAssumption DEF IInv, TypeOK, SessionInv, LoginsYoung, Login, Allowed, Horizon
<1>6. TokensYoung'
  BY <1>2, <1>3, GateAssumption DEF IInv, TypeOK, SessionInv, TokensYoung, Token, Allowed, Horizon
<1>7. QED
  BY <1>4, <1>5, <1>6 DEF SessionInv

LEMMA ReadUserSession ==
  ASSUME IInv, NEW t \in Tasks, ReadUser(t)
  PROVE  SessionInv'
<1>1. PICK r \in row : logins' = logins \cup {[task |-> t, roles |-> r, age |-> 0]}
  BY DEF ReadUser
<1>2. row' = row /\ since' = since /\ tokens' = tokens
  BY DEF ReadUser, userVars
<1>3. \A v \in Levels : Allowed(r, v) => since[v] = 0
  BY <1>1 DEF IInv, SessionInv, RowIsTrue, Grants
<1>4. LoginsYoung'
  <2> SUFFICES ASSUME NEW l \in logins', NEW v \in Levels, Allowed(l.roles, v)
               PROVE  since[v] <= l.age
    BY <1>2 DEF LoginsYoung, Allowed
  <2>1. CASE l \in logins
    BY <2>1 DEF IInv, SessionInv, LoginsYoung
  <2>2. CASE l = [task |-> t, roles |-> r, age |-> 0]
    BY <1>3, <2>2
  <2>3. QED
    BY <1>1, <2>1, <2>2
<1>5. RowIsTrue' /\ TokensYoung'
  BY <1>2 DEF IInv, SessionInv, RowIsTrue, TokensYoung, Grants, Allowed
<1>6. QED
  BY <1>4, <1>5 DEF SessionInv

LEMMA SignSession ==
  ASSUME IInv, NEW l \in logins, Sign(l)
  PROVE  SessionInv'
<1> DEFINE new == [jwt |-> env[l.task].jwt, roles |-> l.roles, left |-> TTL]
<1>1. /\ row' = row /\ since' = since /\ logins' \subseteq logins
      /\ tokens' = tokens \cup {new}
  BY DEF Sign, userVars
<1>2. \A v \in Levels : Allowed(l.roles, v) => since[v] <= MaxLogin
  BY GateAssumption DEF IInv, TypeOK, Login, SessionInv, LoginsYoung, Horizon
<1>3. TokensYoung'
  <2> SUFFICES ASSUME NEW k \in tokens', NEW v \in Levels, Allowed(k.roles, v)
               PROVE  since[v] <= MaxLogin + TTL - k.left
    BY <1>1 DEF TokensYoung, Allowed
  <2>1. CASE k \in tokens
    BY <2>1 DEF IInv, SessionInv, TokensYoung
  <2>2. CASE k = new
    BY <1>2, <2>2, GateAssumption
  <2>3. QED
    BY <1>1, <2>1, <2>2
<1>4. RowIsTrue' /\ LoginsYoung'
  BY <1>1 DEF IInv, SessionInv, RowIsTrue, LoginsYoung, Grants, Allowed
<1>5. QED
  BY <1>3, <1>4 DEF SessionInv

\* Logins and tokens age together with the rights their user has lost.
LEMMA TickSession ==
  ASSUME IInv, Tick
  PROVE  SessionInv'
<1> USE GateAssumption
<1>1. \A v \in Levels : /\ since[v] \in 0..Horizon
                        /\ since'[v] = IF Grants(row, v) THEN 0 ELSE Older(since[v])
  BY DEF Tick, IInv, TypeOK
<1>2. \A v \in Levels : since'[v] <= since[v] + 1 /\ since'[v] \in 0..Horizon
  BY <1>1 DEF Older, Horizon
<1>3. RowIsTrue'
  BY <1>1 DEF Tick, RowIsTrue, Grants, Allowed
<1>4. LoginsYoung'
  <2> SUFFICES ASSUME NEW m \in logins', NEW v \in Levels, Allowed(m.roles, v)
               PROVE  since'[v] <= m.age
    BY DEF LoginsYoung, Allowed
  <2>1. PICK l \in logins : m = [l EXCEPT !.age = @ + 1]
    BY DEF Tick
  <2>2. l \in Login
    BY DEF IInv, TypeOK
  <2>3. m.roles = l.roles /\ m.age = l.age + 1 /\ l.age \in 0..MaxLogin
    BY <2>1, <2>2 DEF Login
  <2>4. since[v] <= l.age
    BY <2>3 DEF IInv, SessionInv, LoginsYoung
  <2>5. QED
    BY <1>1, <1>2, <2>3, <2>4 DEF Horizon
<1>5. TokensYoung'
  <2> SUFFICES ASSUME NEW m \in tokens', NEW v \in Levels, Allowed(m.roles, v)
               PROVE  since'[v] <= MaxLogin + TTL - m.left
    BY DEF TokensYoung, Allowed
  <2>1. PICK k \in tokens : m = [k EXCEPT !.left = IF @ > 0 THEN @ - 1 ELSE 0]
    BY DEF Tick
  <2>2. k \in Token
    BY DEF IInv, TypeOK
  <2>3. /\ m.roles = k.roles /\ k.left \in 0..TTL
        /\ m.left = IF k.left > 0 THEN k.left - 1 ELSE 0
    BY <2>1, <2>2 DEF Token
  <2>4. since[v] <= MaxLogin + TTL - k.left
    BY <2>3 DEF IInv, SessionInv, TokensYoung
  <2>5. QED
    BY <1>1, <1>2, <2>3, <2>4 DEF Horizon
<1>6. QED
  BY <1>3, <1>4, <1>5 DEF SessionInv

LEMMA NextSession ==
  ASSUME IInv, Next
  PROVE  SessionInv'
<1>1. CASE RowChanges
  BY <1>1, RowChangesSession
<1>2. CASE Tick
  BY <1>2, TickSession
<1>3. CASE \E t \in Tasks : ReadUser(t)
  BY <1>3, ReadUserSession
<1>4. CASE \E l \in logins : Sign(l)
  BY <1>4, SignSession
<1>5. CASE \/ \E l \in logins : LoginFails(l)
           \/ \E tok \in tokens : Forget(tok)
           \/ \E t \in Tasks : Replace(t)
  BY <1>5, SessionKept DEF LoginFails, Forget, Replace, userVars
<1>6. CASE RotateJwt \/ Stage \/ Migrate \/ Swap \/ \E c \in Callers : CallerMoves(c)
  BY <1>6, SessionKept DEF RotateJwt, Stage, Migrate, Swap, CallerMoves, userVars, sessionVars
<1>7. QED
  BY <1>1, <1>2, <1>3, <1>4, <1>5, <1>6 DEF Next

LEMMA NextInv == IInv /\ [Next]_vars => IInv'
<1> SUFFICES ASSUME IInv, [Next]_vars PROVE IInv'
  OBVIOUS
<1>1. CASE UNCHANGED vars
  BY <1>1, KeysKept, SessionKept
     DEF vars, keyVars, userVars, sessionVars, IInv, TypeOK
<1>2. CASE Next
  BY <1>2, NextType, NextKeys, NextSession DEF IInv
<1>3. QED
  BY <1>1, <1>2

LEMMA InvIsInvariant == Spec => []IInv
BY InitInv, NextInv, PTL DEF Spec

-----------------------------------------------------------------------------
\* Every state is well typed: in particular no rotation leaves the services without
\* a key.
THEOREM TypeCorrect == Spec => []TypeOK
<1>1. IInv => TypeOK
  BY DEF IInv
<1>2. QED
  BY <1>1, InvIsInvariant, PTL

\* With a redeploy between the two applies no caller is ever refused, for any number
\* of tasks and callers, any sequence of rotations and any replacements in between.
THEOREM RotationIsSeamless == Spec => []NoDowntime
<1>1. IInv => NoDowntime
  BY GateAssumption DEF IInv, KeysInv, NoDowntime, Rolled, Accepts, TypeOK
<1>2. QED
  BY <1>1, InvIsInvariant, PTL

\* A lost right ends with the lifetime of a token and the longest login, whatever
\* these are, on every task and through every change of the secret.
THEOREM RevocationIsBounded == Spec => []BoundedRevocation
<1>1. IInv => BoundedRevocation
  <2> SUFFICES ASSUME IInv, NEW t \in Tasks, NEW k \in tokens, NEW v \in Levels,
                      Verified(env[t], k), Allowed(k.roles, v)
               PROVE  since[v] < TTL + MaxLogin
    BY DEF BoundedRevocation, Admits
  <2>1. k \in Token /\ k.left > 0 /\ since[v] \in 0..Horizon
    BY DEF IInv, TypeOK, Verified
  <2>2. since[v] <= MaxLogin + TTL - k.left
    BY DEF IInv, SessionInv, TokensYoung
  <2>3. QED
    BY <2>1, <2>2, GateAssumption DEF Token, Horizon
<1>2. QED
  BY <1>1, InvIsInvariant, PTL
=============================================================================
