------------------------------- MODULE DataApi -------------------------------
(***************************************************************************)
(* What the four services promise together about the rows of the `data`    *)
(* table, with no cache in sight.  Any number of workers (request          *)
(* handlers) serve three requests over one table that only grows:          *)
(*                                                                         *)
(*   get    answers from the table as it is at one instant between the     *)
(*          request and its answer: 200 with the row, or 404;              *)
(*   list   answers with the whole table as it is now or as it once was;   *)
(*   create adds one fresh row and answers 201 with it, exactly once.      *)
(*                                                                         *)
(* Any request may instead be answered 503, and a create that is answered  *)
(* 503 may or may not have added its row.  A worker may also die without   *)
(* answering.  CacheAside implements this specification.                   *)
(***************************************************************************)

CONSTANTS
  Workers,    \* request handlers, of all the services
  Ids,        \* primary keys of the table; a row is identified with its key
  AllKey      \* names the whole table, the way `data:all` does

ASSUME AllKeyAssumption == AllKey \notin Ids

VARIABLES
  rows,       \* committed rows
  past,       \* history: every value `rows` has had
  req,        \* the request each worker is serving
  reply       \* the answer each worker has decided on

apiVars == <<rows, past, req, reply>>

Keys == Ids \cup {AllKey}

NoReq == [op |-> "none", key |-> AllKey]
Requests == {[op |-> "list", key |-> AllKey], [op |-> "create", key |-> AllKey]}
              \cup {[op |-> "get", key |-> i] : i \in Ids}

Answer(status, body) == [status |-> status, body |-> body]
NoReply == Answer(0, {})
Unavailable == Answer(503, {})
NotFound == Answer(404, {})

Replies == [status : {0, 200, 201, 404, 503}, body : SUBSET Ids]

Commit(i) == /\ i \notin rows
             /\ rows' = rows \cup {i}
             /\ past' = past \cup {rows'}

Open(w) == req[w] # NoReq /\ reply[w] = NoReply
Decide(w, a) == reply' = [reply EXCEPT ![w] = a] /\ UNCHANGED req

-----------------------------------------------------------------------------
Init == /\ rows = {}
        /\ past = {rows}
        /\ req = [w \in Workers |-> NoReq]
        /\ reply = [w \in Workers |-> NoReply]

Invoke(w) == /\ req[w] = NoReq
             /\ \E r \in Requests : req' = [req EXCEPT ![w] = r]
             /\ UNCHANGED <<rows, past, reply>>

\* The answer to a get is the table's at this very step.
Get(w) == /\ Open(w) /\ req[w].op = "get"
          /\ Decide(w, IF req[w].key \in rows THEN Answer(200, {req[w].key})
                                              ELSE NotFound)
          /\ UNCHANGED <<rows, past>>

\* The answer to a list is a snapshot, possibly an old one.
List(w) == /\ Open(w) /\ req[w].op = "list"
           /\ \E s \in past : Decide(w, Answer(200, s))
           /\ UNCHANGED <<rows, past>>

Create(w) == /\ Open(w) /\ req[w].op = "create"
             /\ \E i \in Ids : Commit(i) /\ Decide(w, Answer(201, {i}))

Refuse(w) == /\ Open(w)
             /\ Decide(w, Unavailable)
             /\ \/ UNCHANGED <<rows, past>>
                \/ req[w].op = "create" /\ \E i \in Ids : Commit(i)

\* The answer leaves, or the worker dies before it could.
Finish(w) == /\ req[w] # NoReq
             /\ req' = [req EXCEPT ![w] = NoReq]
             /\ reply' = [reply EXCEPT ![w] = NoReply]
             /\ UNCHANGED <<rows, past>>

Next == \E w \in Workers :
          Invoke(w) \/ Get(w) \/ List(w) \/ Create(w) \/ Refuse(w) \/ Finish(w)

Spec == Init /\ [][Next]_apiVars
=============================================================================
