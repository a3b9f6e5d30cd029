------------------------------ MODULE CacheAside ------------------------------
(***************************************************************************)
(* The data routes of the JavaScript, Python, C and C++ services over the  *)
(* Postgres table and the Redis cache they share.                          *)
(*                                                                         *)
(* The four services run the same three handlers: list, get one, create.   *)
(* A worker is whatever serves one request at a time: the single event     *)
(* loop of the C service, a Crow thread, a FastAPI thread, one async       *)
(* handler of the Express service.  Every round trip to Redis or Postgres  *)
(* is a step of its own, so the steps of all workers interleave.           *)
(*                                                                         *)
(* A row never changes and is never deleted, so it is identified with its  *)
(* primary key, and every value kept in Redis is a set of rows: the whole  *)
(* table under `data:all`, one row under `data:<id>`.                      *)
(*                                                                         *)
(* 503 stands for every refusal that a database failure leads to: the C    *)
(* service answers 500 to some of them.  Requests that are refused before  *)
(* they reach Redis or Postgres (400, 401, 403, 413) are left out.         *)
(***************************************************************************)
EXTENDS DataApi, Naturals, FiniteSets

CONSTANT MaxLate    \* bound: commands that outlive their client at one time

ASSUME MaxLateAssumption == MaxLate \in Nat

VARIABLES
  cache,      \* Redis: a function from the keys present to their values
  late,       \* commands a client gave up on that Redis may still execute
  pc,         \* where each worker is in its handler
  acked,      \* history: rows of the 201 answers sent
  began       \* history: `acked` when the worker's request arrived

vars == <<rows, past, req, reply, cache, late, pc, acked, began>>

Steps == {"idle", "lookup", "query", "fill", "insert", "invalidate", "reply"}

NoKeys == [k \in {} |-> {}]

(***************************************************************************)
(* Redis.  `late` is a set: two equal commands of one worker count once.   *)
(***************************************************************************)
Command(w, op, k, v) == [from |-> w, op |-> op, key |-> k, val |-> v]

Commands == [from : Workers, op : {"SET", "DEL"}, key : Keys, val : SUBSET Ids]

Without(k) == [j \in DOMAIN cache \ {k} |-> cache[j]]
With(k, v) == [j \in DOMAIN cache \cup {k} |-> IF j = k THEN v ELSE cache[j]]

Apply(c) == IF c.op = "SET" THEN With(c.key, c.val) ELSE Without(c.key)

\* The client sends c: Redis executes it (and the client may or may not learn
\* so), or it never gets there (refused, cooldown, connection down), or the
\* client's timeout fires first and the command is still on its way.  The
\* handler goes on in the same way whichever it is.
Send(c) == \/ cache' = Apply(c) /\ UNCHANGED late
           \/ UNCHANGED <<cache, late>>
           \/ /\ Cardinality(late) < MaxLate
              /\ late' = late \cup {c}
              /\ UNCHANGED cache

Goto(w, l) == pc' = [pc EXCEPT ![w] = l]

RedisStep == UNCHANGED <<rows, past, req, reply, pc, acked, began>>

-----------------------------------------------------------------------------
(***************************************************************************)
(* Mutants: plausible mistakes in the handlers, each of which one of the   *)
(* properties below excludes.  Not part of the specification.              *)
(***************************************************************************)

\* The DEL is given the new row where it should be given the list's key.
InvalidateByRow(w) ==
  /\ pc[w] = "invalidate"
  /\ Send(Command(w, "DEL", reply[w].body, {}))
  /\ Goto(w, "reply")
  /\ UNCHANGED <<rows, past, req, reply, acked, began>>

\* A get trusts a cached list that lacks its row, and answers 404 at once.
MissTrustingList(w) ==
  /\ pc[w] = "lookup"
  /\ IF AllKey \in DOMAIN cache /\ req[w].key \notin cache[AllKey] \cup {AllKey}
       THEN Decide(w, NotFound) /\ Goto(w, "reply")
       ELSE Goto(w, "query") /\ UNCHANGED <<req, reply>>
  /\ UNCHANGED <<rows, past, cache, late, acked, began>>

\* A row that is not there is cached like one that is.
NotFoundCached(w) == /\ pc[w] = "query"
                     /\ req[w].op = "get" /\ req[w].key \notin rows
                     /\ Decide(w, NotFound)
                     /\ Goto(w, "fill")
                     /\ UNCHANGED <<rows, past, cache, late, acked, began>>

\* The insert is answered without having been committed.
InsertedUncommitted(w) ==
  /\ pc[w] = "insert"
  /\ \E i \in Ids \ rows : Decide(w, Answer(201, {i}))
  /\ Goto(w, "invalidate")
  /\ UNCHANGED <<rows, past, cache, late, acked, began>>

\* A failed insert is tried again instead of being answered 503.
InsertRetried(w) ==
  /\ pc[w] = "insert"
  /\ \E i \in Ids : Commit(i)
  /\ UNCHANGED <<req, reply, pc, cache, late, acked, began>>

\* The list is stored without a TTL.
ExpireItemsOnly(k) == /\ k \in DOMAIN cache \ {AllKey}
                      /\ cache' = Without(k)
                      /\ RedisStep /\ UNCHANGED late

-----------------------------------------------------------------------------
(***************************************************************************)
(* The handlers.                                                           *)
(***************************************************************************)
Begin(w, r, l) == /\ pc[w] = "idle"
                  /\ req' = [req EXCEPT ![w] = r]
                  /\ began' = [began EXCEPT ![w] = acked]
                  /\ Goto(w, l)
                  /\ UNCHANGED <<rows, past, reply, cache, late, acked>>

StartRead(w) == \E r \in Requests : r.op # "create" /\ Begin(w, r, "lookup")

StartCreate(w) == \E r \in Requests : r.op = "create" /\ Begin(w, r, "insert")

\* GET finds the key: the cached value is the answer.
CacheHit(w) == /\ pc[w] = "lookup"
               /\ req[w].key \in DOMAIN cache
               /\ Decide(w, Answer(200, cache[req[w].key]))
               /\ Goto(w, "reply")
               /\ UNCHANGED <<rows, past, cache, late, acked, began>>

\* GET finds nothing, or fails: both fall through to the database.
CacheMiss(w) == /\ pc[w] = "lookup"
                /\ Goto(w, "query")
                /\ UNCHANGED <<rows, past, req, reply, cache, late, acked, began>>

\* SELECT returns the table, or the row.
QueryFound(w) ==
  /\ pc[w] = "query"
  /\ \/ req[w].op = "list" /\ Decide(w, Answer(200, rows))
     \/ req[w].op = "get" /\ req[w].key \in rows /\ Decide(w, Answer(200, {req[w].key}))
  /\ Goto(w, "fill")
  /\ UNCHANGED <<rows, past, cache, late, acked, began>>

\* SELECT returns no row: 404, and nothing is cached.
QueryNotFound(w) == /\ pc[w] = "query"
                    /\ req[w].op = "get" /\ req[w].key \notin rows
                    /\ Decide(w, NotFound)
                    /\ Goto(w, "reply")
                    /\ UNCHANGED <<rows, past, cache, late, acked, began>>

\* The database cannot be reached, or fails: 503.
QueryFailed(w) == /\ pc[w] = "query"
                  /\ Decide(w, Unavailable)
                  /\ Goto(w, "reply")
                  /\ UNCHANGED <<rows, past, cache, late, acked, began>>

\* SET of what the query returned, with the TTL; its outcome is ignored.
Fill(w) == /\ pc[w] = "fill"
           /\ Send(Command(w, "SET", req[w].key, reply[w].body))
           /\ Goto(w, "reply")
           /\ UNCHANGED <<rows, past, req, reply, acked, began>>

\* INSERT ... RETURNING commits and the row comes back.
Inserted(w) == /\ pc[w] = "insert"
               /\ \E i \in Ids : Commit(i) /\ Decide(w, Answer(201, {i}))
               /\ Goto(w, "invalidate")
               /\ UNCHANGED <<cache, late, acked, began>>

\* The insert fails, before the commit or after it (the connection breaks, or
\* a timeout fires, while the answer is on its way): 503, and no DEL.
InsertFailed(w) == /\ pc[w] = "insert"
                   /\ \/ UNCHANGED <<rows, past>>
                      \/ \E i \in Ids : Commit(i)
                   /\ Decide(w, Unavailable)
                   /\ Goto(w, "reply")
                   /\ UNCHANGED <<cache, late, acked, began>>

\* DEL of the list key only; its outcome is ignored.
Invalidate(w) == /\ pc[w] = "invalidate"
                 /\ Send(Command(w, "DEL", AllKey, {}))
                 /\ Goto(w, "reply")
                 /\ UNCHANGED <<rows, past, req, reply, acked, began>>

Reset(w) == /\ req' = [req EXCEPT ![w] = NoReq]
            /\ reply' = [reply EXCEPT ![w] = NoReply]
            /\ began' = [began EXCEPT ![w] = {}]
            /\ Goto(w, "idle")
            /\ UNCHANGED <<rows, past, cache, late>>

Respond(w) == /\ pc[w] = "reply"
              /\ acked' = IF reply[w].status = 201 THEN acked \cup reply[w].body ELSE acked
              /\ Reset(w)

\* The task running the worker is killed and replaced; commands already sent
\* stay in `late`, and the client gets no answer.
Crash(w) == /\ pc[w] # "idle"
            /\ Reset(w)
            /\ UNCHANGED acked

-----------------------------------------------------------------------------
(***************************************************************************)
(* Redis on its own.                                                       *)
(***************************************************************************)
Expire(k) == /\ k \in DOMAIN cache
             /\ cache' = Without(k)
             /\ RedisStep /\ UNCHANGED late

\* A restart, or the failover of the replication group, loses every key.
Flush == /\ cache # NoKeys
         /\ cache' = NoKeys
         /\ RedisStep /\ UNCHANGED late

LateExecuted(c) == /\ c \in late
                   /\ cache' = Apply(c)
                   /\ late' = late \ {c}
                   /\ RedisStep

LateLost(c) == /\ c \in late
               /\ late' = late \ {c}
               /\ RedisStep /\ UNCHANGED cache

-----------------------------------------------------------------------------
CInit == /\ Init
         /\ cache = NoKeys
         /\ late = {}
         /\ pc = [w \in Workers |-> "idle"]
         /\ acked = {}
         /\ began = [w \in Workers |-> {}]

\* What a worker does once a request has arrived.
Work(w) == \/ CacheHit(w) \/ CacheMiss(w)
           \/ QueryFound(w) \/ QueryNotFound(w) \/ QueryFailed(w)
           \/ Fill(w)
           \/ Inserted(w) \/ InsertFailed(w)
           \/ Invalidate(w)
           \/ Respond(w)

Redis == \/ \E k \in Keys : Expire(k)
         \/ Flush
         \/ \E c \in late : LateExecuted(c) \/ LateLost(c)

CNext == \/ \E w \in Workers : StartRead(w) \/ StartCreate(w) \/ Work(w) \/ Crash(w)
         \/ Redis

CSpec == CInit /\ [][CNext]_vars

\* A handler that has started runs on (its calls time out), keys have a TTL, and
\* a command on its way is executed or lost in the end.
Fairness == /\ \A w \in Workers : WF_vars(Work(w))
            /\ WF_vars(Expire(AllKey))
            /\ WF_vars(\E c \in late : LateExecuted(c) \/ LateLost(c))

FairSpec == CSpec /\ Fairness

-----------------------------------------------------------------------------
(***************************************************************************)
(* Properties.                                                             *)
(***************************************************************************)

TypeOK == /\ rows \in SUBSET Ids
          /\ past \in SUBSET (SUBSET Ids)
          /\ req \in [Workers -> Requests \cup {NoReq}]
          /\ reply \in [Workers -> Replies]
          /\ DOMAIN cache \in SUBSET Keys
          /\ cache \in [DOMAIN cache -> SUBSET Ids]
          /\ late \in SUBSET Commands
          /\ pc \in [Workers -> Steps]
          /\ acked \in SUBSET Ids
          /\ began \in [Workers -> SUBSET Ids]

\* What may be stored under key k: the row itself, once it is committed, under
\* an item's key; a value the whole table has had under the list's key.
Faithful(k, v) == IF k = AllKey THEN v \in past ELSE v = {k} /\ k \in rows

\* Redis never holds, and never will through a command still on its way, a row
\* that was not committed, a row under another row's key, or a list the table
\* never was: no interleaving of fills, invalidations, timeouts and crashes of
\* the four services mixes two snapshots (the handlers' GET, SELECT, SET, DEL).
CacheFaithful ==
  /\ \A k \in DOMAIN cache : Faithful(k, cache[k])
  /\ \A c \in late : c.op = "SET" => Faithful(c.key, c.val)

\* A get answered 404 names a row whose creation nobody had been told of when
\* the get arrived: single rows are never hidden by the cache, in any language
\* (404s are not cached, and an item's entry is never stale).
ItemReadYourWrites ==
  \A w \in Workers : reply[w] = NotFound => req[w].key \notin began[w]

\* A 201 names one committed row, not named by another 201 on its way or
\* already sent, and the rows of the 201s sent are all in the table: creates are
\* neither lost nor merged, whatever the DEL that follows the INSERT does.
CreatesDurable ==
  /\ acked \subseteq rows
  /\ \A w \in Workers : reply[w].status = 201 =>
       /\ \E i \in rows \ acked : reply[w].body = {i}
       /\ \A x \in Workers \ {w} :
            reply[x].status = 201 => reply[w].body # reply[x].body

\* Once rows stop being added the list key comes to hold the whole table or
\* nothing, for good: a fill that lost its race with an insert, a lost DEL or a late
\* SET is undone by the TTL (SET ... EX in the four cache clients).
ListConverges ==
  <>[](AllKey \in DOMAIN cache => cache[AllKey] = rows)

\* The README's Quick start: "rows you create through one language are
\* immediately visible to the others" (README.md:226).  A list that arrives
\* after a 201 was sent contains the row of that 201.
ImmediatelyVisible ==
  \A w \in Workers :
    req[w].op = "list" /\ reply[w].status = 200 => began[w] \subseteq reply[w].body

\* The services implement the cacheless DataApi: the cache hides only that a
\* list may be an old snapshot.
ApiSpec == Spec

=============================================================================
