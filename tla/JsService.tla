-------------------------------- MODULE JsService --------------------------------
(***************************************************************************)
(* The requests of the JavaScript service (apps/js/src/app.js) over its    *)
(* Redis client and its Postgres pool: a read looks in Redis, then asks    *)
(* Postgres, then stores what it found; a create asks Postgres and deletes *)
(* the list's key; a login only asks Postgres.                             *)
(***************************************************************************)
EXTENDS JsCacheClient, JsDbPool

ASSUME CallersAssumption == Ops = Calls

VARIABLE at     \* at[r]: which call request r is in

svc == <<vars, dbVars, at>>
Goto(r, l) == at' = [at EXCEPT ![r] = l]

-----------------------------------------------------------------------------
SvcInit == Init /\ DbInit /\ at = [r \in Ops |-> "idle"]

(***************************************************************************)
(* A request arrives.                                                      *)
(***************************************************************************)

\* GET: cache.get
Lookup(r) == /\ at[r] = "idle"
             /\ Call(r) /\ Goto(r, "lookup")
             /\ UNCHANGED dbVars

\* POST /data, POST /auth/login
Create(r) == /\ at[r] = "idle"
             /\ Submit(r) /\ Goto(r, "query")
             /\ UNCHANGED vars

Login(r) == /\ at[r] = "idle"
            /\ Submit(r) /\ Goto(r, "login")
            /\ UNCHANGED vars

Arrive(r) == Lookup(r) \/ Create(r) \/ Login(r)

(***************************************************************************)
(* A request resumes.                                                      *)
(***************************************************************************)

\* A hit is the answer.
Hit(r) == /\ at[r] = "lookup"
          /\ Answered(r) /\ Goto(r, "idle")
          /\ UNCHANGED dbVars

\* A miss or any failure: on to Postgres.
Miss(r) == /\ at[r] = "lookup" /\ op[r] = "idle"
           /\ Submit(r) /\ Goto(r, "query")
           /\ UNCHANGED vars

\* Rows, or a committed row: cache.set or cache.del, awaited.
Store(r) == /\ at[r] = "query"
            /\ QueryOk(r)
            /\ Call(r) /\ Goto(r, "store")

\* 404, or a login's row.
NothingToStore(r) == /\ QueryOk(r)
                     /\ Goto(r, "idle")
                     /\ UNCHANGED vars

\* 503, after the reset of a data route; a login resets nothing.
Refuse(r) == /\ \/ QueryError(r) \/ Ended(r)
                \/ at[r] = "query" /\ pool = NoPool /\ Reset(r)
                \/ at[r] = "login" /\ NoReset(r)
             /\ Goto(r, "idle")
             /\ UNCHANGED vars

\* The answer does not depend on what became of the SET or DEL.
Stored(r) == /\ at[r] = "store"
             /\ op[r] = "idle"
             /\ Goto(r, "idle")
             /\ UNCHANGED <<vars, dbVars>>

Resume(r) == \/ Hit(r) \/ Miss(r)
             \/ Store(r) \/ NothingToStore(r) \/ Refuse(r) \/ Stored(r)

(***************************************************************************)
(* An event: of Postgres, of a pool, of Redis.                             *)
(***************************************************************************)

\* The query goes on, or its failure resets the pool.
Query(r) == /\ Wait(r) \/ (at[r] = "query" /\ pool # NoPool /\ Reset(r))
            /\ UNCHANGED <<vars, at>>

Command(r) == (Answered(r) \/ Failed(r)) /\ UNCHANGED <<dbVars, at>>

Dial == (Connected \/ ConnectFailed) /\ UNCHANGED <<dbVars, at>>

Time == Tick /\ UNCHANGED <<dbVars, at>>

Outage == \/ (DetachedByOthers \/ Postgres) /\ UNCHANGED <<vars, at>>
          \/ (SocketBreaks \/ RedisGoes) /\ UNCHANGED <<dbVars, at>>

-----------------------------------------------------------------------------
SvcNext == \/ \E r \in Ops : Resume(r)
           \/ \E r \in Ops : Arrive(r) \/ Query(r) \/ Command(r)
           \/ Dial \/ Time \/ Outage

SvcSpec == SvcInit /\ [][SvcNext]_svc

\* What a request in progress waits for does happen: its continuations run, its
\* timers fire, and Postgres or the socket ends a query.
Fair == /\ \A r \in Ops : WF_svc(Resume(r) \/ Query(r)) /\ WF_svc(Command(r))
        /\ WF_svc(Dial)
        /\ WF_svc(Time)

FairSvcSpec == SvcSpec /\ Fair

-----------------------------------------------------------------------------
SvcTypeOK == /\ TypeOK /\ DbTypeOK
             /\ at \in [Ops -> {"idle", "lookup", "query", "login", "store"}]

\* Every request is answered, with whatever breaks and comes back, and however
\* many pools are reset under it: a query left in the queue of an ended pool has
\* its timeout, and a request that awaits the end of a pool waits only for queries
\* that hold a client, never for one that waits itself (app.js:211-290, db.js:102-112).
EveryRequestAnswered == \A r \in Ops : at[r] # "idle" ~> at[r] = "idle"
=============================================================================
