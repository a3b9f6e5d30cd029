--------------------------- MODULE CacheAsideProofs ---------------------------
(***************************************************************************)
(* Proofs about CacheAside, for any set of workers, rows and late commands.*)
(***************************************************************************)
EXTENDS CacheAside, TLAPS

(***************************************************************************)
(* The inductive invariant: what each step of a handler knows.             *)
(***************************************************************************)
HandlerInv(w) ==
  /\ pc[w] = "idle" <=> req[w] = NoReq
  /\ pc[w] \in {"idle", "lookup", "query", "insert"} <=> reply[w] = NoReply
  /\ pc[w] \in {"lookup", "query", "fill"} => req[w].op \in {"list", "get"}
  /\ pc[w] \in {"insert", "invalidate"} => req[w].op = "create"
  /\ pc[w] = "fill" => Faithful(req[w].key, reply[w].body)
  /\ pc[w] = "invalidate" => reply[w].status = 201
  /\ began[w] \subseteq acked

IInv == /\ TypeOK
        /\ rows \in past
        /\ CacheFaithful
        /\ ItemReadYourWrites
        /\ CreatesDurable
        /\ \A w \in Workers : HandlerInv(w)

-----------------------------------------------------------------------------
\* The table only grows, and remembers the values it had.
LEMMA CommitGrows ==
  ASSUME NEW i \in Ids, Commit(i), rows \in SUBSET Ids, past \in SUBSET (SUBSET Ids)
  PROVE  /\ rows \subseteq rows' /\ past \subseteq past'
         /\ rows' \in SUBSET Ids /\ past' \in SUBSET (SUBSET Ids)
         /\ rows' \in past'
BY DEF Commit

\* What may be stored may be stored for ever after.
LEMMA FaithfulStable ==
  ASSUME rows \subseteq rows', past \subseteq past', NEW k, NEW v, Faithful(k, v)
  PROVE  Faithful(k, v)'
BY DEF Faithful

\* Executing a command keeps Redis well typed and faithful.
LEMMA ApplyFaithful ==
  ASSUME NEW c \in Commands,
         DOMAIN cache \in SUBSET Keys,
         cache \in [DOMAIN cache -> SUBSET Ids],
         \A k \in DOMAIN cache : Faithful(k, cache[k]),
         c.op = "SET" => Faithful(c.key, c.val),
         cache' = Apply(c)
  PROVE  /\ DOMAIN cache' \in SUBSET Keys
         /\ cache' \in [DOMAIN cache' -> SUBSET Ids]
         /\ \A k \in DOMAIN cache' : Faithful(k, cache'[k])
<1>1. CASE c.op = "SET"
  BY <1>1 DEF Apply, With, Commands
<1>2. CASE c.op # "SET"
  BY <1>2 DEF Apply, Without, Commands
<1>3. QED
  BY <1>1, <1>2

\* Sending a command keeps Redis, and what is on its way, well typed and faithful.
LEMMA SendFaithful ==
  ASSUME NEW c \in Commands,
         DOMAIN cache \in SUBSET Keys,
         cache \in [DOMAIN cache -> SUBSET Ids],
         late \in SUBSET Commands,
         CacheFaithful,
         c.op = "SET" => Faithful(c.key, c.val),
         Send(c)
  PROVE  /\ DOMAIN cache' \in SUBSET Keys
         /\ cache' \in [DOMAIN cache' -> SUBSET Ids]
         /\ late' \in SUBSET Commands
         /\ \A k \in DOMAIN cache' : Faithful(k, cache'[k])
         /\ \A d \in late' : d.op = "SET" => Faithful(d.key, d.val)
BY ApplyFaithful DEF Send, CacheFaithful

-----------------------------------------------------------------------------
LEMMA InitInv == CInit => IInv
BY AllKeyAssumption
   DEF CInit, Init, IInv, TypeOK, CacheFaithful, ItemReadYourWrites, CreatesDurable,
       HandlerInv, NoKeys, NoReq, NoReply, NotFound, Answer, Replies, Requests, Keys, Steps

-----------------------------------------------------------------------------
(***************************************************************************)
(* One lemma per step of a handler, then the steps of Redis.               *)
(***************************************************************************)
LEMMA BeginInv ==
  ASSUME IInv, NEW w \in Workers, StartRead(w) \/ StartCreate(w)
  PROVE  IInv'
<1>1. PICK r \in Requests, l \in {"lookup", "insert"} :
        Begin(w, r, l) /\ (l = "insert" <=> r.op = "create")
  BY DEF StartRead, StartCreate
<1>2. r # NoReq /\ r.op \in {"list", "get", "create"}
  BY DEF Requests, NoReq
<1>3. TypeOK'
  BY <1>1 DEF Begin, Goto, IInv, TypeOK, Steps
<1>4. CacheFaithful'
  BY <1>1 DEF Begin, IInv, CacheFaithful, Faithful
<1>5. reply[w] = NoReply /\ NoReply.status = 0 /\ NotFound.status = 404
  BY <1>1 DEF Begin, IInv, HandlerInv, NoReply, NotFound, Answer
<1>6. ItemReadYourWrites'
  BY <1>1, <1>5 DEF Begin, IInv, TypeOK, ItemReadYourWrites
<1>7. CreatesDurable'
  BY <1>1 DEF Begin, IInv, CreatesDurable
<1>8. \A x \in Workers : HandlerInv(x)'
  BY <1>1, <1>2, <1>5 DEF Begin, Goto, IInv, TypeOK, HandlerInv, Faithful
<1>9. QED
  BY <1>1, <1>3, <1>4, <1>6, <1>7, <1>8 DEF Begin, IInv

LEMMA CacheHitInv ==
  ASSUME IInv, NEW w \in Workers, CacheHit(w)
  PROVE  IInv'
<1> DEFINE a == Answer(200, cache[req[w].key])
<1>1. a \in Replies /\ a.status = 200 /\ a # NoReply /\ NotFound.status = 404
  BY DEF CacheHit, IInv, TypeOK, Replies, Answer, NoReply, NotFound
<1>2. TypeOK'
  BY <1>1 DEF CacheHit, Decide, Goto, IInv, TypeOK, Steps
<1>3. CacheFaithful'
  BY DEF CacheHit, IInv, CacheFaithful, Faithful
<1>4. ItemReadYourWrites'
  BY <1>1 DEF CacheHit, Decide, IInv, TypeOK, ItemReadYourWrites
<1>5. CreatesDurable'
  BY <1>1 DEF CacheHit, Decide, IInv, TypeOK, CreatesDurable
<1>6. \A x \in Workers : HandlerInv(x)'
  BY <1>1 DEF CacheHit, Decide, Goto, IInv, TypeOK, HandlerInv, Faithful
<1>7. QED
  BY <1>2, <1>3, <1>4, <1>5, <1>6 DEF CacheHit, IInv

LEMMA CacheMissInv ==
  ASSUME IInv, NEW w \in Workers, CacheMiss(w)
  PROVE  IInv'
<1>1. TypeOK'
  BY DEF CacheMiss, Goto, IInv, TypeOK, Steps
<1>2. CacheFaithful' /\ ItemReadYourWrites' /\ CreatesDurable'
  BY DEF CacheMiss, IInv, CacheFaithful, Faithful, ItemReadYourWrites, CreatesDurable
<1>3. \A x \in Workers : HandlerInv(x)'
  BY DEF CacheMiss, Goto, IInv, TypeOK, HandlerInv, Faithful
<1>4. QED
  BY <1>1, <1>2, <1>3 DEF CacheMiss, IInv

LEMMA QueryFoundInv ==
  ASSUME IInv, NEW w \in Workers, QueryFound(w)
  PROVE  IInv'
<1> DEFINE v == IF req[w].op = "list" THEN rows ELSE {req[w].key}
           a == Answer(200, v)
<1>1. /\ reply' = [reply EXCEPT ![w] = a] /\ req' = req
      /\ v \in SUBSET Ids
      /\ req[w].op = "list" \/ (req[w].op = "get" /\ v \subseteq rows)
  BY DEF QueryFound, Decide, IInv, TypeOK
<1>2. a \in Replies /\ a.status = 200 /\ a.body = v /\ a # NoReply /\ NotFound.status = 404
  BY <1>1 DEF Replies, Answer, NoReply, NotFound
<1>3. Faithful(req[w].key, v)
  BY <1>1, AllKeyAssumption DEF Faithful, IInv, TypeOK, Requests, NoReq
<1> HIDE DEF a, v
<1>4. TypeOK'
  BY <1>1, <1>2 DEF QueryFound, Goto, IInv, TypeOK, Steps
<1>5. CacheFaithful'
  BY DEF QueryFound, IInv, CacheFaithful, Faithful
<1>6. ItemReadYourWrites'
  BY <1>1, <1>2 DEF QueryFound, IInv, TypeOK, ItemReadYourWrites
<1>7. CreatesDurable'
  BY <1>1, <1>2 DEF QueryFound, IInv, TypeOK, CreatesDurable
<1>8. \A x \in Workers : HandlerInv(x)'
  BY <1>1, <1>2, <1>3 DEF QueryFound, Goto, IInv, TypeOK, HandlerInv, Faithful
<1>9. QED
  BY <1>4, <1>5, <1>6, <1>7, <1>8 DEF QueryFound, IInv

\* A row that is not in the table now is in no 201 sent before the get began.
LEMMA QueryNotFoundInv ==
  ASSUME IInv, NEW w \in Workers, QueryNotFound(w)
  PROVE  IInv'
<1>1. NotFound \in Replies /\ NotFound.status = 404 /\ NotFound # NoReply
  BY DEF Replies, Answer, NoReply, NotFound
<1>2. req[w].key \notin began[w]
  BY DEF QueryNotFound, IInv, HandlerInv, CreatesDurable
<1>3. TypeOK'
  BY <1>1 DEF QueryNotFound, Decide, Goto, IInv, TypeOK, Steps
<1>4. CacheFaithful'
  BY DEF QueryNotFound, IInv, CacheFaithful, Faithful
<1>5. ItemReadYourWrites'
  BY <1>1, <1>2 DEF QueryNotFound, Decide, IInv, TypeOK, ItemReadYourWrites
<1>6. CreatesDurable'
  BY <1>1 DEF QueryNotFound, Decide, IInv, TypeOK, CreatesDurable
<1>7. \A x \in Workers : HandlerInv(x)'
  BY <1>1 DEF QueryNotFound, Decide, Goto, IInv, TypeOK, HandlerInv, Faithful
<1>8. QED
  BY <1>3, <1>4, <1>5, <1>6, <1>7 DEF QueryNotFound, IInv

LEMMA QueryFailedInv ==
  ASSUME IInv, NEW w \in Workers, QueryFailed(w)
  PROVE  IInv'
<1>1. Unavailable \in Replies /\ Unavailable.status = 503 /\ Unavailable # NoReply
      /\ NotFound.status = 404
  BY DEF Replies, Answer, NoReply, Unavailable, NotFound
<1>2. TypeOK'
  BY <1>1 DEF QueryFailed, Decide, Goto, IInv, TypeOK, Steps
<1>3. CacheFaithful'
  BY DEF QueryFailed, IInv, CacheFaithful, Faithful
<1>4. ItemReadYourWrites'
  BY <1>1 DEF QueryFailed, Decide, IInv, TypeOK, ItemReadYourWrites
<1>5. CreatesDurable'
  BY <1>1 DEF QueryFailed, Decide, IInv, TypeOK, CreatesDurable
<1>6. \A x \in Workers : HandlerInv(x)'
  BY <1>1 DEF QueryFailed, Decide, Goto, IInv, TypeOK, HandlerInv, Faithful
<1>7. QED
  BY <1>2, <1>3, <1>4, <1>5, <1>6 DEF QueryFailed, IInv

\* What the query read is still what may be stored when the SET is executed,
\* now or late.
LEMMA FillInv ==
  ASSUME IInv, NEW w \in Workers, Fill(w)
  PROVE  IInv'
<1> DEFINE c == Command(w, "SET", req[w].key, reply[w].body)
<1>1. c \in Commands /\ c.key = req[w].key /\ c.val = reply[w].body
  BY AllKeyAssumption
     DEF IInv, TypeOK, Command, Commands, Requests, NoReq, Replies, Keys
<1>2. /\ DOMAIN cache' \in SUBSET Keys
      /\ cache' \in [DOMAIN cache' -> SUBSET Ids]
      /\ late' \in SUBSET Commands
      /\ \A k \in DOMAIN cache' : Faithful(k, cache'[k])
      /\ \A d \in late' : d.op = "SET" => Faithful(d.key, d.val)
  <2>1. Faithful(c.key, c.val)
    BY <1>1 DEF Fill, IInv, HandlerInv
  <2>2. Send(c)
    BY DEF Fill
  <2> HIDE DEF c
  <2>3. QED
    BY <1>1, <2>1, <2>2, SendFaithful DEF IInv, TypeOK
<1>3. TypeOK'
  BY <1>2 DEF Fill, Goto, IInv, TypeOK, Steps
<1>4. CacheFaithful' /\ ItemReadYourWrites' /\ CreatesDurable'
  BY <1>2 DEF Fill, IInv, CacheFaithful, Faithful, ItemReadYourWrites, CreatesDurable
<1>5. \A x \in Workers : HandlerInv(x)'
  BY DEF Fill, Goto, IInv, TypeOK, HandlerInv, Faithful
<1>6. QED
  BY <1>3, <1>4, <1>5 DEF Fill, IInv

\* The row is fresh, so no 201, sent or on its way, names it.
LEMMA InsertedInv ==
  ASSUME IInv, NEW w \in Workers, Inserted(w)
  PROVE  IInv'
<1>1. PICK i \in Ids : Commit(i) /\ Decide(w, Answer(201, {i}))
  BY DEF Inserted
<1> DEFINE a == Answer(201, {i})
<1>2. a \in Replies /\ a.status = 201 /\ a.body = {i} /\ a # NoReply /\ NotFound.status = 404
  BY DEF Replies, Answer, NoReply, NotFound
<1>3. /\ rows \subseteq rows' /\ past \subseteq past'
      /\ rows' \in SUBSET Ids /\ past' \in SUBSET (SUBSET Ids)
      /\ rows' \in past'
  BY <1>1, CommitGrows DEF IInv, TypeOK
<1>4. TypeOK'
  BY <1>1, <1>2, <1>3 DEF Inserted, Decide, Goto, IInv, TypeOK, Steps
<1>5. CacheFaithful'
  BY <1>3, FaithfulStable DEF Inserted, IInv, CacheFaithful
<1>6. ItemReadYourWrites'
  BY <1>1, <1>2 DEF Inserted, Decide, IInv, TypeOK, ItemReadYourWrites
<1>7. CreatesDurable'
  <2>1. i \in rows' /\ i \notin rows /\ acked' = acked
    BY <1>1 DEF Commit, Inserted
  <2>2. reply' = [reply EXCEPT ![w] = a]
    BY <1>1 DEF Decide
  <2> HIDE DEF a
  <2>3. \A x \in Workers \ {w} : reply[x].status = 201 => reply[x].body # {i}
    BY <2>1 DEF IInv, CreatesDurable
  <2>4. /\ reply'[w].status = 201 /\ reply'[w].body = {i}
        /\ \A x \in Workers \ {w} : reply'[x] = reply[x]
    BY <1>2, <2>2 DEF IInv, TypeOK
  <2>5. i \in rows' \ acked'
    BY <2>1 DEF IInv, CreatesDurable
  <2>6. acked' \subseteq rows'
    BY <2>1, <1>3 DEF IInv, CreatesDurable
  <2>7. ASSUME NEW x \in Workers \ {w}, reply'[x].status = 201
        PROVE  /\ \E j \in rows' \ acked' : reply'[x].body = {j}
               /\ \A y \in Workers \ {x} :
                    reply'[y].status = 201 => reply'[x].body # reply'[y].body
    BY <2>1, <2>3, <2>4, <2>7, <1>3 DEF IInv, CreatesDurable
  <2>8. QED
    BY <2>3, <2>4, <2>5, <2>6, <2>7 DEF CreatesDurable
<1>8. \A x \in Workers : HandlerInv(x)'
  <2>1. \A x \in Workers : pc[x] = "fill" => Faithful(req[x].key, reply[x].body)'
    <3>1. \A x \in Workers : pc[x] = "fill" =>
            Faithful(req[x].key, reply[x].body) /\ req'[x] = req[x] /\ reply'[x] = reply[x]
      BY <1>1 DEF Inserted, Decide, IInv, TypeOK, HandlerInv
    <3>2. QED
      BY <3>1, <1>3 DEF Faithful
  <2>2. QED
    BY <1>1, <1>2, <2>1 DEF Inserted, Decide, Goto, IInv, TypeOK, HandlerInv
<1>9. QED
  BY <1>3, <1>4, <1>5, <1>6, <1>7, <1>8 DEF Inserted, IInv

LEMMA InsertFailedInv ==
  ASSUME IInv, NEW w \in Workers, InsertFailed(w)
  PROVE  IInv'
<1>1. Unavailable \in Replies /\ Unavailable.status = 503 /\ Unavailable # NoReply
      /\ NotFound.status = 404
  BY DEF Replies, Answer, NoReply, Unavailable, NotFound
<1>2. /\ rows \subseteq rows' /\ past \subseteq past'
      /\ rows' \in SUBSET Ids /\ past' \in SUBSET (SUBSET Ids)
      /\ rows' \in past'
  BY CommitGrows DEF InsertFailed, IInv, TypeOK
<1>3. TypeOK'
  BY <1>1, <1>2 DEF InsertFailed, Decide, Goto, IInv, TypeOK, Steps
<1>4. CacheFaithful'
  BY <1>2, FaithfulStable DEF InsertFailed, IInv, CacheFaithful
<1>5. ItemReadYourWrites'
  BY <1>1 DEF InsertFailed, Decide, IInv, TypeOK, ItemReadYourWrites
<1>6. CreatesDurable'
  BY <1>1, <1>2 DEF InsertFailed, Decide, IInv, TypeOK, CreatesDurable
<1>7. \A x \in Workers : HandlerInv(x)'
  <2>1. \A x \in Workers : pc[x] = "fill" => Faithful(req[x].key, reply[x].body)'
    <3>1. \A x \in Workers : pc[x] = "fill" =>
            Faithful(req[x].key, reply[x].body) /\ req'[x] = req[x] /\ reply'[x] = reply[x]
      BY DEF InsertFailed, Decide, IInv, TypeOK, HandlerInv
    <3>2. QED
      BY <3>1, <1>2 DEF Faithful
  <2>2. QED
    BY <1>1, <2>1 DEF InsertFailed, Decide, Goto, IInv, TypeOK, HandlerInv
<1>8. QED
  BY <1>2, <1>3, <1>4, <1>5, <1>6, <1>7 DEF InsertFailed, IInv

LEMMA InvalidateInv ==
  ASSUME IInv, NEW w \in Workers, Invalidate(w)
  PROVE  IInv'
<1> DEFINE c == Command(w, "DEL", AllKey, {})
<1>1. c \in Commands /\ c.op # "SET"
  BY DEF Command, Commands, Keys
<1>2. /\ DOMAIN cache' \in SUBSET Keys
      /\ cache' \in [DOMAIN cache' -> SUBSET Ids]
      /\ late' \in SUBSET Commands
      /\ \A k \in DOMAIN cache' : Faithful(k, cache'[k])
      /\ \A d \in late' : d.op = "SET" => Faithful(d.key, d.val)
  <2>1. Send(c)
    BY DEF Invalidate
  <2> HIDE DEF c
  <2>2. QED
    BY <1>1, <2>1, SendFaithful DEF IInv, TypeOK
<1>3. TypeOK'
  BY <1>2 DEF Invalidate, Goto, IInv, TypeOK, Steps
<1>4. CacheFaithful' /\ ItemReadYourWrites' /\ CreatesDurable'
  BY <1>2 DEF Invalidate, IInv, CacheFaithful, Faithful, ItemReadYourWrites, CreatesDurable
<1>5. \A x \in Workers : HandlerInv(x)'
  BY DEF Invalidate, Goto, IInv, TypeOK, HandlerInv, Faithful
<1>6. QED
  BY <1>3, <1>4, <1>5 DEF Invalidate, IInv

\* Sending a 201 moves its row from the answers on their way to `acked`; no other
\* 201 names it, so the others stay distinct from what was sent.
LEMMA ResetInv ==
  ASSUME IInv, NEW w \in Workers, Respond(w) \/ Crash(w)
  PROVE  IInv'
<1>1. /\ Reset(w) /\ acked \subseteq acked'
      /\ acked' # acked => reply[w].status = 201 /\ acked' = acked \cup reply[w].body
  BY DEF Respond, Crash
<1>2. /\ NoReply \in Replies /\ NoReply.status = 0 /\ NotFound.status = 404
  BY DEF Replies, Answer, NoReply, NotFound
<1> HIDE DEF NoReply, NotFound
<1>3. acked' \subseteq rows
  BY <1>1 DEF IInv, CreatesDurable
<1>4. TypeOK'
  BY <1>1, <1>2, <1>3 DEF Reset, Goto, IInv, TypeOK, Steps
<1>5. CacheFaithful'
  BY <1>1 DEF Reset, IInv, CacheFaithful, Faithful
<1>6. ItemReadYourWrites'
  BY <1>1, <1>2 DEF Reset, IInv, TypeOK, ItemReadYourWrites
<1>7. CreatesDurable'
  <2>1. \A x \in Workers \ {w} : reply'[x] = reply[x]
    BY <1>1 DEF Reset, IInv, TypeOK
  <2>2. reply'[w].status # 201 /\ rows' = rows
    BY <1>1, <1>2 DEF Reset, IInv, TypeOK
  <2>3. ASSUME NEW x \in Workers \ {w}, reply[x].status = 201
        PROVE  \E i \in rows \ acked' : reply[x].body = {i}
    <3>1. PICK i \in rows \ acked : reply[x].body = {i}
      BY <2>3 DEF IInv, CreatesDurable
    <3>2. CASE acked' = acked
      BY <3>1, <3>2
    <3>3. CASE acked' # acked
      <4>1. PICK j \in rows : reply[w].body = {j}
        BY <1>1, <3>3 DEF IInv, CreatesDurable
      <4>2. reply[w].body # reply[x].body
        BY <1>1, <2>3, <3>3 DEF IInv, CreatesDurable
      <4>3. QED
        BY <1>1, <3>1, <3>3, <4>1, <4>2
    <3>4. QED
      BY <3>2, <3>3
  <2>4. QED
    BY <1>3, <2>1, <2>2, <2>3 DEF IInv, CreatesDurable
<1>8. \A x \in Workers : HandlerInv(x)'
  BY <1>1, <1>2 DEF Reset, Goto, IInv, TypeOK, HandlerInv, Faithful
<1>9. QED
  BY <1>1, <1>4, <1>5, <1>6, <1>7, <1>8 DEF Reset, IInv

LEMMA RedisInv ==
  ASSUME IInv, Redis
  PROVE  IInv'
<1>1. RedisStep
  BY DEF Redis, Expire, Flush, LateExecuted, LateLost
<1> DEFINE Good == /\ DOMAIN cache' \in SUBSET Keys
                   /\ cache' \in [DOMAIN cache' -> SUBSET Ids]
                   /\ late' \in SUBSET Commands
                   /\ \A k \in DOMAIN cache' : Faithful(k, cache'[k])
                   /\ \A d \in late' : d.op = "SET" => Faithful(d.key, d.val)
<1>2. Good
  <2>1. CASE \E k \in Keys : Expire(k)
    BY <2>1 DEF Expire, Without, IInv, TypeOK, CacheFaithful
  <2>2. CASE Flush
    BY <2>2 DEF Flush, NoKeys, IInv, TypeOK, CacheFaithful
  <2>3. ASSUME NEW c \in late, LateExecuted(c)
        PROVE  Good
    <3>1. cache' = Apply(c) /\ late' \subseteq late /\ c \in Commands
      BY <2>3 DEF LateExecuted, IInv, TypeOK
    <3>2. QED
      BY <3>1, ApplyFaithful DEF IInv, TypeOK, CacheFaithful
  <2>4. ASSUME NEW c \in late, LateLost(c)
        PROVE  Good
    BY <2>4 DEF LateLost, IInv, TypeOK, CacheFaithful
  <2>5. QED
    BY <2>1, <2>2, <2>3, <2>4 DEF Redis
<1>3. TypeOK'
  BY <1>1, <1>2 DEF RedisStep, IInv, TypeOK
<1>4. CacheFaithful'
  BY <1>1, <1>2 DEF RedisStep, CacheFaithful, Faithful
<1>5. ItemReadYourWrites' /\ CreatesDurable'
  BY <1>1 DEF RedisStep, IInv, ItemReadYourWrites, CreatesDurable
<1>6. \A x \in Workers : HandlerInv(x)'
  BY <1>1 DEF RedisStep, IInv, HandlerInv, Faithful
<1>7. QED
  BY <1>1, <1>3, <1>4, <1>5, <1>6 DEF RedisStep, IInv

-----------------------------------------------------------------------------
LEMMA NextInv == IInv /\ [CNext]_vars => IInv'
<1> SUFFICES ASSUME IInv, [CNext]_vars PROVE IInv'
  OBVIOUS
<1>1. ASSUME NEW w \in Workers, StartRead(w) \/ StartCreate(w) PROVE IInv'
  BY <1>1, BeginInv
<1>2. ASSUME NEW w \in Workers, Work(w) \/ Crash(w) PROVE IInv'
  BY <1>2, CacheHitInv, CacheMissInv, QueryFoundInv, QueryNotFoundInv, QueryFailedInv,
     FillInv, InsertedInv, InsertFailedInv, InvalidateInv, ResetInv DEF Work
<1>3. CASE Redis
  BY <1>3, RedisInv
<1>4. CASE UNCHANGED vars
  BY <1>4 DEF vars, IInv, TypeOK, CacheFaithful, Faithful, ItemReadYourWrites,
              CreatesDurable, HandlerInv
<1>5. QED
  BY <1>1, <1>2, <1>3, <1>4 DEF CNext

\* Every value the variables take has its type.
THEOREM TypeCorrect == CSpec => []TypeOK
<1>1. IInv => TypeOK
  BY DEF IInv
<1>2. QED
  BY <1>1, InitInv, NextInv, PTL DEF CSpec

\* Whatever interleaving of fills, invalidations, timeouts and crashes, Redis
\* holds only rows and lists that Postgres had committed.
THEOREM CacheNeverLies == CSpec => []CacheFaithful
<1>1. IInv => CacheFaithful
  BY DEF IInv
<1>2. QED
  BY <1>1, InitInv, NextInv, PTL DEF CSpec

\* A single row is never reported missing to a get that arrived after its 201.
THEOREM ItemsAreFresh == CSpec => []ItemReadYourWrites
<1>1. IInv => ItemReadYourWrites
  BY DEF IInv
<1>2. QED
  BY <1>1, InitInv, NextInv, PTL DEF CSpec

\* No 201 is lost, and no two name the same row.
THEOREM CreatesAreDurable == CSpec => []CreatesDurable
<1>1. IInv => CreatesDurable
  BY DEF IInv
<1>2. QED
  BY <1>1, InitInv, NextInv, PTL DEF CSpec

-----------------------------------------------------------------------------
(***************************************************************************)
(* CacheAside implements DataApi: each step is one of its steps, or none.  *)
(***************************************************************************)

\* A handler that has not decided yet serves a request that is open.
LEMMA OpenRequest ==
  ASSUME IInv, NEW w \in Workers, pc[w] \in {"lookup", "query", "insert"}
  PROVE  Open(w)
BY DEF IInv, HandlerInv, Open

LEMMA ReadSteps ==
  ASSUME IInv, NEW w \in Workers,
         CacheHit(w) \/ QueryFound(w) \/ QueryNotFound(w) \/ QueryFailed(w)
  PROVE  Next
<1>1. Open(w) /\ req[w].op \in {"list", "get"} /\ UNCHANGED <<rows, past>>
  BY OpenRequest DEF CacheHit, QueryFound, QueryNotFound, QueryFailed, IInv, HandlerInv
<1>2. req[w].op = "list" <=> req[w].key = AllKey
  BY <1>1, AllKeyAssumption DEF IInv, TypeOK, Requests, NoReq
<1>3. CASE CacheHit(w)
  <2>1. Faithful(req[w].key, cache[req[w].key])
    BY <1>3 DEF CacheHit, IInv, CacheFaithful
  <2>2. CASE req[w].op = "list"
    BY <1>1, <1>2, <1>3, <2>1, <2>2 DEF Next, List, CacheHit, Faithful
  <2>3. CASE req[w].op = "get"
    BY <1>1, <1>2, <1>3, <2>1, <2>3 DEF Next, Get, CacheHit, Faithful
  <2>4. QED
    BY <1>1, <2>2, <2>3
<1>4. CASE QueryFound(w)
  BY <1>1, <1>4 DEF Next, List, Get, QueryFound, IInv
<1>5. CASE QueryNotFound(w)
  BY <1>1, <1>5 DEF Next, Get, QueryNotFound
<1>6. CASE QueryFailed(w)
  BY <1>1, <1>6 DEF Next, Refuse, QueryFailed
<1>7. QED
  BY <1>3, <1>4, <1>5, <1>6

LEMMA StepImplements == IInv /\ [CNext]_vars => [Next]_apiVars
<1> SUFFICES ASSUME IInv, [CNext]_vars PROVE [Next]_apiVars
  OBVIOUS
<1>1. ASSUME NEW w \in Workers, StartRead(w) \/ StartCreate(w) PROVE Next
  BY <1>1 DEF StartRead, StartCreate, Begin, Next, Invoke, IInv, HandlerInv
<1>2. ASSUME NEW w \in Workers, Work(w) \/ Crash(w) PROVE [Next]_apiVars
  <2>1. CASE CacheHit(w) \/ QueryFound(w) \/ QueryNotFound(w) \/ QueryFailed(w)
    BY <2>1, ReadSteps
  <2>2. CASE CacheMiss(w) \/ Fill(w) \/ Invalidate(w)
    BY <2>2 DEF CacheMiss, Fill, Invalidate, apiVars
  <2>3. CASE Inserted(w)
    BY <2>3, OpenRequest DEF Inserted, Next, Create, IInv, HandlerInv
  <2>4. CASE InsertFailed(w)
    BY <2>4, OpenRequest DEF InsertFailed, Next, Refuse, IInv, HandlerInv
  <2>5. CASE Respond(w) \/ Crash(w)
    BY <2>5 DEF Respond, Crash, Reset, Next, Finish, IInv, HandlerInv
  <2>6. QED
    BY <1>2, <2>1, <2>2, <2>3, <2>4, <2>5 DEF Work
<1>3. CASE Redis
  BY <1>3 DEF Redis, Expire, Flush, LateExecuted, LateLost, RedisStep, apiVars
<1>4. CASE UNCHANGED vars
  BY <1>4 DEF vars, apiVars
<1>5. QED
  BY <1>1, <1>2, <1>3, <1>4 DEF CNext

\* The four services with their cache implement the API without one: the cache
\* cannot be told from its absence, but that a list may be an old snapshot.
THEOREM ImplementsApi == CSpec => ApiSpec
<1>1. CInit => Init
  BY DEF CInit
<1>2. QED
  BY <1>1, InitInv, NextInv, StepImplements, PTL DEF CSpec, ApiSpec, Spec

=============================================================================
