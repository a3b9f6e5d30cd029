------------------------------- MODULE PyDbPool -------------------------------
(***************************************************************************)
(* The Postgres pool of the Python service (apps/python/app/db.py).  One   *)
(* `Database` object serves all request threads with no lock around its    *)
(* only attribute, `_pool`: each thread opens a pool when it finds none,   *)
(* and closes whatever pool it finds when its own call has failed.         *)
(*                                                                         *)
(* A step is one access to `_pool` or one call that can block, since       *)
(* another thread may run between any two of them.  The pools themselves   *)
(* (psycopg_pool) are modelled by what db.py sees: connection() raises on a*)
(* closed pool; closing a pool leaves a connection that is in use alone;   *)
(* a pool opened before an outage may still hand out dead connections.     *)
(***************************************************************************)
EXTENDS Naturals

CONSTANTS
  Threads,    \* request threads; each makes one database call at a time
  Pools,      \* pool objects, reused once nothing refers to them
  None        \* no pool

ASSUME NoneAssumption == None \notin Pools

VARIABLES
  dbUp,       \* Postgres answers
  pool,       \* self._pool
  closed,     \* pools that were closed
  stale,      \* pools that were opened before the last outage
  pc,         \* where each thread is in its call
  mine,       \* the pool each thread got from _ensure_pool
  clean,      \* history: no outage since the call began, and no stale pool then
  alone,      \* history: no other call overlapped this one
  unfit       \* history: calls whose statement was refused for what it says

vars == <<dbUp, pool, closed, stale, pc, mine, clean, alone, unfit>>

Places == {"idle", "check", "take", "open", "use", "query",
           "close", "closing", "forget", "refused"}

Goto(t, l) == pc' = [pc EXCEPT ![t] = l]
Got(t, p) == mine' = [mine EXCEPT ![t] = p]
Here == UNCHANGED <<dbUp, clean, alone, unfit>>

InUse == {pool} \cup {mine[t] : t \in Threads}

-----------------------------------------------------------------------------
Init == /\ dbUp \in BOOLEAN
        /\ pool = None
        /\ closed = {}
        /\ stale = {}
        /\ pc = [t \in Threads |-> "idle"]
        /\ mine = [t \in Threads |-> None]
        /\ clean = [t \in Threads |-> FALSE]
        /\ alone = [t \in Threads |-> FALSE]
        /\ unfit = {}

Call(t) ==
  /\ pc[t] = "idle"
  /\ Goto(t, "check")
  /\ clean' = [clean EXCEPT ![t] = dbUp /\ pool \notin stale]
  /\ alone' = [x \in Threads |-> x = t /\ \A y \in Threads \ {t} : pc[y] = "idle"]
  /\ UNCHANGED <<dbUp, pool, closed, stale, mine, unfit>>

\* _ensure_pool: `if self._pool is not None` ...
Check(t) ==
  /\ pc[t] = "check"
  /\ Goto(t, IF pool # None THEN "take" ELSE "open")
  /\ Here /\ UNCHANGED <<pool, closed, stale, mine>>

\* ... `return self._pool`, which another thread may have cleared since.
Take(t) ==
  /\ pc[t] = "take"
  /\ Got(t, pool)
  /\ Goto(t, "use")
  /\ Here /\ UNCHANGED <<pool, closed, stale>>

\* pool.open(wait=True) connects, and the pool replaces whatever `_pool` is now.
Opened(t) ==
  /\ pc[t] = "open"
  /\ dbUp
  /\ \E p \in Pools \ InUse :
       /\ pool' = p
       /\ Got(t, p)
       /\ closed' = closed \ {p}
       /\ stale' = stale \ {p}
  /\ Goto(t, "use")
  /\ Here

\* pool.open fails or times out: `_pool` is cleared, the call is refused.
OpenFailed(t) ==
  /\ pc[t] = "open"
  /\ ~dbUp
  /\ pool' = None
  /\ Goto(t, "refused")
  /\ Here /\ UNCHANGED <<closed, stale, mine>>

\* pool.connection() hands out a connection ...
Connection(t) ==
  /\ pc[t] = "use"
  /\ mine[t] # None /\ mine[t] \notin closed
  /\ Goto(t, "query")
  /\ Here /\ UNCHANGED <<pool, closed, stale, mine>>

\* ... or raises: the pool is closed, or there is none.
NoConnection(t) ==
  /\ pc[t] = "use"
  /\ mine[t] = None \/ mine[t] \in closed
  /\ Goto(t, "close")
  /\ Here /\ UNCHANGED <<pool, closed, stale, mine>>

Return(t) == /\ mine' = [mine EXCEPT ![t] = None]
             /\ clean' = [clean EXCEPT ![t] = FALSE]
             /\ alone' = [alone EXCEPT ![t] = FALSE]
             /\ unfit' = unfit \ {t}
             /\ Goto(t, "idle")

QueryDone(t) ==
  /\ pc[t] = "query"
  /\ dbUp
  /\ Return(t)
  /\ UNCHANGED <<dbUp, pool, closed, stale>>

\* The statement fails: Postgres is down, or the connection died in an outage.
QueryFailed(t) ==
  /\ pc[t] = "query"
  /\ ~dbUp \/ mine[t] \in stale
  /\ Goto(t, "close")
  /\ Here /\ UNCHANGED <<pool, closed, stale, mine>>

\* psycopg or Postgres refuses the statement for what it says, such as a NUL in a
\* text, on a connection that is good: db.py closes the pool all the same.
StatementRefused(t) ==
  /\ pc[t] = "query"
  /\ unfit' = unfit \cup {t}
  /\ Goto(t, "close")
  /\ UNCHANGED <<dbUp, pool, closed, stale, mine, clean, alone>>

\* self.close(): `if self._pool is not None` ...
CloseCheck(t) ==
  /\ pc[t] = "close"
  /\ Goto(t, IF pool # None THEN "closing" ELSE "refused")
  /\ Here /\ UNCHANGED <<pool, closed, stale, mine>>

\* Mutant: no pool at all is closed like any other.
ClosePoolUnchecked(t) ==
  /\ pc[t] = "closing"
  /\ closed' = closed \cup {pool}
  /\ Goto(t, "forget")
  /\ Here /\ UNCHANGED <<pool, stale, mine>>

\* ... `self._pool.close()`, whichever pool that is by now (none: the
\* AttributeError is swallowed) ...
ClosePool(t) ==
  /\ pc[t] = "closing"
  /\ closed' = closed \cup ({pool} \ {None})
  /\ Goto(t, "forget")
  /\ Here /\ UNCHANGED <<pool, stale, mine>>

\* Mutant: close() leaves `_pool` pointing at the closed pool.
ForgetNothing(t) ==
  /\ pc[t] = "forget"
  /\ Goto(t, "refused")
  /\ Here /\ UNCHANGED <<pool, closed, stale, mine>>

\* ... `self._pool = None`.
Forget(t) ==
  /\ pc[t] = "forget"
  /\ pool' = None
  /\ Goto(t, "refused")
  /\ Here /\ UNCHANGED <<closed, stale, mine>>

\* DatabaseUnavailable reaches the handler, which answers 503.
Refused(t) ==
  /\ pc[t] = "refused"
  /\ Return(t)
  /\ UNCHANGED <<dbUp, pool, closed, stale>>

DbGoes == /\ dbUp' = ~dbUp
          /\ stale' = Pools
          /\ clean' = [t \in Threads |-> FALSE]
          /\ UNCHANGED <<pool, closed, pc, mine, alone, unfit>>

Step(t) == \/ Check(t) \/ Take(t) \/ Opened(t) \/ OpenFailed(t)
           \/ Connection(t) \/ NoConnection(t)
           \/ QueryDone(t) \/ QueryFailed(t) \/ StatementRefused(t)
           \/ CloseCheck(t) \/ ClosePool(t) \/ Forget(t)
           \/ Refused(t)

Next == \/ \E t \in Threads : Call(t) \/ Step(t)
        \/ DbGoes

Spec == Init /\ [][Next]_vars

-----------------------------------------------------------------------------
TypeOK == /\ dbUp \in BOOLEAN
          /\ pool \in Pools \cup {None}
          /\ closed \in SUBSET Pools
          /\ stale \in SUBSET Pools
          /\ pc \in [Threads -> Places]
          /\ mine \in [Threads -> Pools \cup {None}]
          /\ clean \in [Threads -> BOOLEAN]
          /\ alone \in [Threads -> BOOLEAN]
          /\ unfit \in SUBSET Threads

\* A call that no other call overlaps, begun with Postgres up and no pool left from
\* an outage, is refused only for its own statement, whatever the threads before it
\* did to `_pool`: close() in every error path of db.py, run for an outage and for a
\* refused statement alike, leaves a state the next call recovers from.
RetriesCleanlyAlone ==
  \A t \in Threads : pc[t] = "refused" => ~(clean[t] /\ alone[t] /\ t \notin unfit)

\* A closed pool is `_pool` only while the thread that closed it, or one that has
\* closed it again, is about to clear the attribute: no closed pool is left behind
\* for the calls to come, however the threads' close() and _ensure_pool interleave.
ClosedPoolIsLeaving ==
  pool \in closed => \E t \in Threads : pc[t] = "forget"

\* "reset pool so next call retries cleanly" (db.py:90): a call begun with Postgres
\* up and no pool left from an outage is not refused but for its own statement.
RetriesCleanly ==
  \A t \in Threads : pc[t] = "refused" => ~(clean[t] /\ t \notin unfit)
=============================================================================
