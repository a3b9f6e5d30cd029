---------------------------- MODULE SchemaBootstrap ----------------------------
(***************************************************************************)
(* How the services come to find the `data` table, and how each gets its   *)
(* database connection back after an outage.                               *)
(*                                                                         *)
(* Every service sends CREATE TABLE IF NOT EXISTS when it starts.  If that *)
(* fails, the JavaScript service tries again after a delay, for ever; the  *)
(* Python service tries again before each query, until it has worked once; *)
(* the C and C++ services never do.  Two such statements may overlap, and  *)
(* then Postgres lets both see no table and fails the one that is second.  *)
(*                                                                         *)
(* A service makes one database call at a time here: the C service has one *)
(* event loop, the C++ service a mutex around its connection.  (PyDbPool   *)
(* has the threads of the Python service.)  The queries of the JavaScript  *)
(* service do not touch the table's existence and are left out.            *)
(***************************************************************************)
EXTENDS Naturals

CONSTANTS Js, Py, C, Cpp    \* the processes of each service

Services == Js \cup Py \cup C \cup Cpp

ASSUME DisjointAssumption ==
  /\ Js \cap (Py \cup C \cup Cpp) = {}
  /\ Py \cap (C \cup Cpp) = {}
  /\ C \cap Cpp = {}

VARIABLES
  dbUp,       \* Postgres answers
  table,      \* the table exists
  conn,       \* connection: "none" (or known to be bad), "open", or "gone"
              \*   (the server has dropped it and the client cannot tell)
  pc,         \* where each service is
  saw,        \* whether a CREATE in flight found the table when it began
  serving,    \* the process has finished starting
  ready,      \* app.state.schema_ready of a Python service
  fair,       \* history: the current call began with Postgres up and the
              \*   table there, and no outage has struck since
  lost        \* history: such calls that failed since the last outage

vars == <<dbUp, table, conn, pc, saw, serving, ready, fair, lost>>

Goto(s, l) == pc' = [pc EXCEPT ![s] = l]
Conn(s, c) == conn' = [conn EXCEPT ![s] = c]
SameWorld == UNCHANGED <<dbUp, table>>

MaxLost == 2    \* bound: `lost` stops counting here

-----------------------------------------------------------------------------
Init == /\ dbUp \in BOOLEAN
        /\ table = FALSE
        /\ conn = [s \in Services |-> "none"]
        /\ pc = [s \in Services |-> "ensure"]
        /\ saw = [s \in Services |-> FALSE]
        /\ serving = [s \in Services |-> FALSE]
        /\ ready = [s \in Services |-> FALSE]
        /\ fair = [s \in Services |-> FALSE]
        /\ lost = [s \in Services |-> 0]

\* A data call arrives at a service that has started.
Call(s) ==
  /\ s \notin Js
  /\ pc[s] = "idle"
  /\ Goto(s, IF s \in Py /\ ~ready[s] THEN "ensure" ELSE "query")
  /\ fair' = [fair EXCEPT ![s] = dbUp /\ table]
  /\ SameWorld /\ UNCHANGED <<conn, saw, serving, ready, lost>>

\* Mutant: the client does not look at the status of the connection it made.
ConnectUnchecked(s) ==
  /\ pc[s] \in {"ensure", "query"}
  /\ conn[s] = "none"
  /\ Conn(s, IF dbUp THEN "open" ELSE "bad")
  /\ SameWorld /\ UNCHANGED <<pc, saw, serving, ready, fair, lost>>

\* A call or a bootstrap that needs a connection and knows it has none opens one.
Connect(s) ==
  /\ pc[s] \in {"ensure", "query"}
  /\ conn[s] = "none" /\ dbUp
  /\ Conn(s, "open")
  /\ SameWorld /\ UNCHANGED <<pc, saw, serving, ready, fair, lost>>

\* CREATE TABLE IF NOT EXISTS reaches Postgres, which looks for the table.
CreateSent(s) ==
  /\ pc[s] = "ensure"
  /\ conn[s] = "open"
  /\ saw' = [saw EXCEPT ![s] = table]
  /\ Goto(s, "create")
  /\ SameWorld /\ UNCHANGED <<conn, serving, ready, fair, lost>>

\* It succeeds: the table was there, or is now.
Created(s) ==
  /\ pc[s] = "create"
  /\ conn[s] = "open"
  /\ saw[s] \/ ~table
  /\ table' = TRUE
  /\ ready' = [ready EXCEPT ![s] = s \in Py]
  /\ serving' = [serving EXCEPT ![s] = TRUE]
  /\ Goto(s, IF s \in Py /\ serving[s] THEN "query" ELSE "idle")
  /\ UNCHANGED <<dbUp, conn, saw, fair, lost>>

\* Mutant: a failed call keeps its connection.
AfterFailureKeeping(s) == Conn(s, conn[s])

\* What a failed call leaves behind: C, whose PQstatus tells it why, keeps a
\* connection that still works; the others drop theirs.
AfterFailure(s) ==
  Conn(s, IF s \in C /\ conn[s] = "open" THEN "open" ELSE "none")

Refuse(s) == /\ lost' = [lost EXCEPT ![s] = IF fair[s] /\ @ < MaxLost THEN @ + 1 ELSE @]
             /\ fair' = [fair EXCEPT ![s] = FALSE]

Unreachable(s) == \/ conn[s] = "none" /\ ~dbUp
                  \/ conn[s] = "gone"

\* No connection, an outage while the statement was in flight, or another CREATE
\* was first.
CreateFails(s) == \/ pc[s] = "ensure" /\ Unreachable(s)
                  \/ pc[s] = "create" /\ conn[s] = "gone"
                  \/ pc[s] = "create" /\ table /\ ~saw[s]

\* Mutant: a Python startup that takes the schema for granted.
EnsureFailedButReady(s) ==
  /\ CreateFails(s)
  /\ AfterFailure(s)
  /\ Goto(s, IF s \in Js THEN "delay" ELSE "idle")
  /\ serving' = [serving EXCEPT ![s] = TRUE]
  /\ ready' = [ready EXCEPT ![s] = s \in Py]
  /\ Refuse(s)
  /\ SameWorld /\ UNCHANGED saw

\* The JavaScript service will try again; the others carry on without the table.
EnsureFailed(s) ==
  /\ CreateFails(s)
  /\ AfterFailure(s)
  /\ Goto(s, IF s \in Js THEN "delay" ELSE "idle")
  /\ serving' = [serving EXCEPT ![s] = TRUE]
  /\ Refuse(s)
  /\ SameWorld /\ UNCHANGED <<saw, ready>>

\* setTimeout(scheduleSchemaBootstrap) fires.
Retry(s) == /\ pc[s] = "delay"
            /\ Goto(s, "ensure")
            /\ SameWorld /\ UNCHANGED <<conn, saw, serving, ready, fair, lost>>

QueryDone(s) == /\ pc[s] = "query"
                /\ conn[s] = "open" /\ table
                /\ Goto(s, "idle")
                /\ fair' = [fair EXCEPT ![s] = FALSE]
                /\ SameWorld /\ UNCHANGED <<conn, saw, serving, ready, lost>>

QueryFails(s) == Unreachable(s) \/ (conn[s] = "open" /\ ~table)

\* Mutant: the failed query leaves its connection in place.
QueryFailedKeeping(s) ==
  /\ pc[s] = "query"
  /\ QueryFails(s)
  /\ Refuse(s)
  /\ Goto(s, "idle")
  /\ SameWorld /\ UNCHANGED <<conn, saw, serving, ready>>

\* No connection, a dead one, or no table: 503, or 500 where C tells a failed
\* statement from a failed connection.
QueryFailed(s) ==
  /\ pc[s] = "query"
  /\ QueryFails(s)
  /\ AfterFailure(s)
  /\ Refuse(s)
  /\ Goto(s, "idle")
  /\ SameWorld /\ UNCHANGED <<saw, serving, ready>>

\* The task is replaced.
Restart(s) == /\ Conn(s, "none")
              /\ Goto(s, "ensure")
              /\ serving' = [serving EXCEPT ![s] = FALSE]
              /\ ready' = [ready EXCEPT ![s] = FALSE]
              /\ fair' = [fair EXCEPT ![s] = FALSE]
              /\ lost' = [lost EXCEPT ![s] = 0]
              /\ saw' = [saw EXCEPT ![s] = FALSE]
              /\ SameWorld

\* An outage begins or ends.  One that begins breaks every session; a CREATE in
\* flight may have taken effect.
DbGoes == /\ dbUp' = ~dbUp
          /\ conn' = [s \in Services |-> IF conn[s] = "open" THEN "gone" ELSE conn[s]]
          /\ \/ UNCHANGED table
             \/ /\ \E s \in Services : pc[s] = "create" /\ conn[s] = "open"
                /\ table' = TRUE
          /\ fair' = [s \in Services |-> FALSE]
          /\ lost' = [s \in Services |-> 0]
          /\ UNCHANGED <<pc, saw, serving, ready>>

Work(s) == \/ Connect(s) \/ CreateSent(s) \/ Created(s) \/ EnsureFailed(s)
           \/ Retry(s) \/ QueryDone(s) \/ QueryFailed(s)

Next == \/ \E s \in Services : Call(s) \/ Work(s) \/ Restart(s)
        \/ DbGoes

Spec == Init /\ [][Next]_vars

\* A process that is started or called goes on: every database call ends, the
\* JavaScript timer fires.  Calls keep arriving.
FairSpec == Spec /\ \A s \in Services : WF_vars(Work(s)) /\ WF_vars(Call(s))

-----------------------------------------------------------------------------
TypeOK == /\ dbUp \in BOOLEAN /\ table \in BOOLEAN
          /\ conn \in [Services -> {"none", "open", "gone"}]
          /\ pc \in [Services -> {"ensure", "create", "delay", "idle", "query"}]
          /\ saw \in [Services -> BOOLEAN]
          /\ serving \in [Services -> BOOLEAN]
          /\ ready \in [Services -> BOOLEAN]
          /\ fair \in [Services -> BOOLEAN]
          /\ lost \in [Services -> 0 .. MaxLost]

\* A Python service stops sending CREATE only when the table is there for good,
\* even if another service's CREATE made its own fail (_startup,
\* _ensure_schema_lazy in main.py).
ReadyMeansTable == \A s \in Services : ready[s] => table

\* After an outage a service answers at most one call with an error that the
\* state of Postgres does not explain, the one that finds the connection dead:
\* "process stays alive and reconnects" (README.md:102).
LosesOneCall == \A s \in Services : lost[s] <= 1

Calm == <>[]dbUp /\ <>[][\A s \in Services : ~Restart(s)]_vars

\* Once Postgres stays up and tasks are no longer replaced, the table comes to
\* exist with no migration run, however the bootstraps that were tried before
\* ended: scheduleSchemaBootstrap (server.js) and _ensure_schema_lazy (main.py) never
\* give up, and neither is stuck with a dead connection.
TableAppears == Calm => <>table
=============================================================================
