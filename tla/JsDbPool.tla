-------------------------------- MODULE JsDbPool --------------------------------
(***************************************************************************)
(* The Postgres pool of the JavaScript service (apps/js/src/db.js): opened *)
(* by the first query, detached and ended by every query that fails for    *)
(* want of a connection, and replaced by the next query.  All requests     *)
(* share it; a step is what runs between two awaits.                       *)
(*                                                                         *)
(* The pool objects are pg's, as db.js uses them: at most Max clients, a   *)
(* queue in which a query waits at most connectionTimeoutMillis, and an    *)
(* end() that drops the idle clients, serves the queue no more, and        *)
(* resolves when the clients still in use have been given back.            *)
(***************************************************************************)
EXTENDS Naturals, FiniteSets

CONSTANTS
  Calls,      \* the requests' callers of db.js; each has one query at a time
  Pools,      \* pool objects, reused once nothing refers to them
  NoPool,
  Max         \* clients per pool (`max`)

ASSUME NoPoolAssumption == NoPool \notin Pools
\* `new Pool` always makes an object that no caller refers to.
ASSUME PoolsAssumption ==
  \A f \in [Calls -> Pools \cup {NoPool}] : \E p \in Pools : \A c \in Calls : f[c] # p
ASSUME MaxAssumption == Max \in Nat \ {0}

VARIABLES
  dbUp,       \* Postgres answers
  pool,       \* the shared pool, or NoPool
  ending,     \* the pools whose end() was called
  fresh,      \* idle clients of the shared pool
  dead,       \* idle clients whose connection is gone without the pool knowing
  call,       \* what each caller is doing
  of,         \* the pool its query was given to, or whose end it awaits
  lost,       \* the callers whose query runs on a connection that is gone
  clean       \* history: a caller has reset the pool since Postgres went down

dbVars == <<dbUp, pool, ending, fresh, dead, call, of, lost, clean>>

Users(p) == {c \in Calls : call[c] \in {"dialling", "running"} /\ of[c] = p}
Full(p) == Cardinality(Users(p)) + fresh + dead >= Max
NewPool == CHOOSE p \in Pools : \A c \in Calls : of[c] # p

Set(c, l) == call' = [call EXCEPT ![c] = l]
\* An ended pool that nothing refers to is garbage.
Ends(P) == ending' = {p \in P : \E c \in Calls : of'[c] = p}
\* The query is over: its caller has the rows, or an error.
Over(c, l) == /\ Set(c, l)
              /\ of' = [of EXCEPT ![c] = NoPool]
              /\ lost' = lost \ {c}
              /\ Ends(ending)

-----------------------------------------------------------------------------
DbInit == /\ dbUp \in BOOLEAN
          /\ pool = NoPool
          /\ ending = {}
          /\ fresh = 0
          /\ dead = 0
          /\ call = [c \in Calls |-> "idle"]
          /\ of = [c \in Calls |-> NoPool]
          /\ lost = {}
          /\ clean = FALSE

\* getPool() and p.query(), with no await in between: with an idle client, or
\* with no room for another, the query waits in the queue; else a client is
\* dialled for it.  pg would refuse a query of an ended pool; SharedPoolIsOpen says
\* that none is made.
Submit(c) ==
  /\ call[c] = "idle"
  /\ IF pool = NoPool
       THEN /\ pool' = NewPool
            /\ UNCHANGED ending
            /\ Set(c, "dialling")
       ELSE /\ UNCHANGED <<pool, ending>>
            /\ Set(c, IF fresh + dead > 0 \/ Full(pool) THEN "queued" ELSE "dialling")
  /\ of' = [of EXCEPT ![c] = pool']
  /\ UNCHANGED <<dbUp, fresh, dead, lost, clean>>

\* The pool gives the query an idle client, good or not.
GivenIdle(c) ==
  /\ call[c] = "queued" /\ of[c] \notin ending
  /\ Set(c, "running")
  /\ \/ fresh > 0 /\ fresh' = fresh - 1 /\ UNCHANGED <<dead, lost>>
     \/ dead > 0 /\ dead' = dead - 1 /\ lost' = lost \cup {c} /\ UNCHANGED fresh
  /\ UNCHANGED <<dbUp, pool, ending, of, clean>>

\* There is room for another client.
GivenRoom(c) ==
  /\ call[c] = "queued" /\ of[c] \notin ending
  /\ fresh + dead = 0 /\ ~Full(of[c])
  /\ Set(c, "dialling")
  /\ UNCHANGED <<dbUp, pool, ending, fresh, dead, of, lost, clean>>

\* Mutant: connectionTimeoutMillis is left at its default, which is no timeout.
QueueForEver(c) ==
  /\ call[c] = "queued" /\ FALSE
  /\ Over(c, "failed")
  /\ UNCHANGED <<dbUp, pool, fresh, dead, clean>>

\* connectionTimeoutMillis passes: every client is in use, or the pool ended.
QueueTimeout(c) ==
  /\ call[c] = "queued"
  /\ of[c] \in ending \/ (fresh + dead = 0 /\ Full(of[c]))
  /\ Over(c, "failed")
  /\ UNCHANGED <<dbUp, pool, fresh, dead, clean>>

DialDone(c) ==
  /\ call[c] = "dialling" /\ dbUp
  /\ Set(c, "running")
  /\ UNCHANGED <<dbUp, pool, ending, fresh, dead, of, lost, clean>>

DialFailed(c) ==
  /\ call[c] = "dialling" /\ ~dbUp
  /\ Over(c, "failed")
  /\ UNCHANGED <<dbUp, pool, fresh, dead, clean>>

\* The rows are there; the client is idle again, or dropped if its pool ended.
QueryOk(c) ==
  /\ call[c] = "running" /\ c \notin lost /\ dbUp
  /\ fresh' = IF of[c] \in ending THEN fresh ELSE fresh + 1
  /\ Over(c, "idle")
  /\ UNCHANGED <<dbUp, pool, dead, clean>>

\* Postgres rejects the statement: the client is dropped, and no pool is reset.
QueryError(c) ==
  /\ call[c] = "running" /\ c \notin lost /\ dbUp
  /\ Over(c, "idle")
  /\ UNCHANGED <<dbUp, pool, fresh, dead, clean>>

\* The connection proves to be gone; the client is dropped.
QueryLost(c) ==
  /\ call[c] = "running" /\ c \in lost
  /\ Over(c, "failed")
  /\ UNCHANGED <<dbUp, pool, fresh, dead, clean>>

\* Mutant: the pool is detached only when its end() has resolved.
DetachLate(c) ==
  /\ call[c] = "failed"
  /\ clean' = TRUE
  /\ IF pool = NoPool
       THEN Set(c, "idle") /\ UNCHANGED <<ending, fresh, dead, of>>
       ELSE /\ ending' = ending \cup {pool}
            /\ fresh' = 0 /\ dead' = 0
            /\ of' = [of EXCEPT ![c] = pool]
            /\ Set(c, "ending")
  /\ UNCHANGED <<dbUp, pool, lost>>

\* Mutant: a pool that serves others is spared.
ResetIfUnused(c) ==
  /\ call[c] = "failed"
  /\ clean' = TRUE
  /\ IF pool = NoPool \/ Users(pool) # {}
       THEN Set(c, "idle") /\ UNCHANGED <<pool, ending, fresh, dead, of>>
       ELSE /\ pool' = NoPool
            /\ ending' = ending \cup {pool}
            /\ fresh' = 0 /\ dead' = 0
            /\ of' = [of EXCEPT ![c] = pool]
            /\ Set(c, "ending")
  /\ UNCHANGED <<dbUp, lost>>

\* reset(): whatever pool is shared by now is detached at once and ended; the
\* 503 waits for the end.
Reset(c) ==
  /\ call[c] = "failed"
  /\ clean' = TRUE
  /\ IF pool = NoPool
       THEN Set(c, "idle") /\ UNCHANGED <<pool, ending, fresh, dead, of>>
       ELSE /\ pool' = NoPool
            /\ ending' = ending \cup {pool}
            /\ fresh' = 0 /\ dead' = 0
            /\ of' = [of EXCEPT ![c] = pool]
            /\ Set(c, "ending")
  /\ UNCHANGED <<dbUp, lost>>

\* POST /auth/login answers 503 without a reset.
NoReset(c) ==
  /\ call[c] = "failed"
  /\ Set(c, "idle")
  /\ UNCHANGED <<dbUp, pool, ending, fresh, dead, of, lost, clean>>

\* end() resolves once no client of the pool is in use.
Ended(c) ==
  /\ call[c] = "ending"
  /\ Users(of[c]) = {}
  /\ Over(c, "idle")
  /\ UNCHANGED <<dbUp, pool, fresh, dead, clean>>

\* The bootstrap of the schema (server.js) resets the pool too, on any error and
\* without waiting for the end, and so does close() at shutdown.  The query of the
\* bootstrap is one more user of the pool, as a route's is, and is left out.
DetachedByOthers ==
  /\ pool # NoPool
  /\ pool' = NoPool
  /\ fresh' = 0 /\ dead' = 0
  /\ clean' = TRUE
  /\ UNCHANGED <<dbUp, call, of, lost>>
  /\ Ends(ending \cup {pool})

(***************************************************************************)
(* Postgres, and the pool by itself.                                       *)
(***************************************************************************)

\* Every connection is gone; a client in use or idle may not have noticed.
GoesDown ==
  /\ dbUp
  /\ dbUp' = FALSE
  /\ fresh' = 0 /\ dead' = dead + fresh
  /\ lost' = {c \in Calls : call[c] = "running"}
  /\ clean' = FALSE
  /\ UNCHANGED <<pool, ending, call, of>>

ComesUp == /\ ~dbUp
           /\ dbUp' = TRUE
           /\ UNCHANGED <<pool, ending, fresh, dead, call, of, lost, clean>>

\* idleTimeoutMillis, or the error event of an idle client.
IdleDropped ==
  /\ \/ fresh > 0 /\ fresh' = fresh - 1 /\ UNCHANGED dead
     \/ dead > 0 /\ dead' = dead - 1 /\ UNCHANGED fresh
  /\ UNCHANGED <<dbUp, pool, ending, call, of, lost, clean>>

-----------------------------------------------------------------------------
\* The query goes on, or fails for want of a connection.
Wait(c) == \/ GivenIdle(c) \/ GivenRoom(c) \/ QueueTimeout(c)
           \/ DialDone(c) \/ DialFailed(c) \/ QueryLost(c)

\* The caller gets its rows, or its error.
Finish(c) == \/ QueryOk(c) \/ QueryError(c)
             \/ Reset(c) \/ NoReset(c) \/ Ended(c)

Postgres == GoesDown \/ ComesUp \/ IdleDropped

DbNext == \/ \E c \in Calls : Submit(c) \/ Wait(c) \/ Finish(c)
          \/ DetachedByOthers
          \/ Postgres

DbSpec == DbInit /\ [][DbNext]_dbVars

-----------------------------------------------------------------------------
DbTypeOK == /\ dbUp \in BOOLEAN
            /\ pool \in Pools \cup {NoPool}
            /\ ending \in SUBSET Pools
            /\ fresh \in Nat /\ dead \in Nat
            /\ call \in [Calls -> {"idle", "queued", "dialling", "running",
                                   "failed", "ending"}]
            /\ of \in [Calls -> Pools \cup {NoPool}]
            /\ lost \in SUBSET Calls
            /\ clean \in BOOLEAN

\* No query is given to a pool that was ended, which pg would refuse: reset()
\* detaches the pool before its first await, whichever requests resume, fail and
\* reset in between (db.js:103-105).
SharedPoolIsOpen == pool \notin ending

\* "... so the next request attempts a fresh connection" (db.js:100-101): once
\* one caller has reset the pool after Postgres went down, no later query is given
\* a connection from before, however many requests share the pool.
OneFailureCleans ==
  clean => /\ dead = 0
           /\ \A c \in lost : of[c] # pool
=============================================================================
