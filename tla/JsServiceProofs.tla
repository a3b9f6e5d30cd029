----------------------------- MODULE JsServiceProofs -----------------------------
(***************************************************************************)
(* JsService, for any number of requests, client objects and pools and any *)
(* timeout shorter than the cooldown.  The Redis client and the Postgres   *)
(* pool have an invariant each; a step of the service is a step, or a      *)
(* stutter, of each.                                                       *)
(***************************************************************************)
EXTENDS JsService, TLAPS

(***************************************************************************)
(* A command left over from a client that is no longer the open shared one *)
(* is at least as old as the last failure: so none is left when the        *)
(* cooldown ends and the next client is dialled.                           *)
(***************************************************************************)
CallInv(o) ==
  /\ op[o] = "waiting" => connecting # None
  /\ op[o] # "running" => on[o] = None /\ age[o] = 0
  /\ op[o] = "running" =>
       /\ connecting = None
       /\ on[o] \in Clients
       /\ client \in {on[o], None}
       /\ ~IsOpen(client) => sinceFailure <= age[o]

IInv == /\ TypeOK
        /\ OneConnection
        /\ connecting = None => dialled = 0
        /\ \A o \in Ops : CallInv(o)

-----------------------------------------------------------------------------
LEMMA InitInv == Init => IInv
BY NoneAssumption, TimeAssumption DEF Init, IInv, TypeOK, OneConnection, CallInv

LEMMA CallInvStep ==
  ASSUME IInv, NEW o \in Ops, Call(o)
  PROVE  IInv'
<1>1. CASE CallOnClient(o)
  BY <1>1, NoneAssumption, TimeAssumption
     DEF CallOnClient, IsOpen, IInv, TypeOK, OneConnection, CallInv
<1>2. CASE CallRefused(o)
  BY <1>2, NoneAssumption, TimeAssumption
     DEF CallRefused, CatchFailure, IsOpen, IInv, TypeOK, OneConnection, CallInv
<1>3. CASE CallWaits(o)
  <2>1. \A p \in Ops : op[p] # "running"
    BY <1>3, TimeAssumption DEF CallWaits, IInv, TypeOK, CallInv
  <2>2. QED
    BY <1>3, <2>1, NoneAssumption, TimeAssumption
       DEF CallWaits, InUse, IsOpen, IInv, TypeOK, OneConnection, CallInv
<1>4. QED
  BY <1>1, <1>2, <1>3 DEF Call

LEMMA DialInvStep ==
  ASSUME IInv, Connected \/ ConnectFailed
  PROVE  IInv'
<1>1. CASE Connected
  BY <1>1, NoneAssumption, TimeAssumption
     DEF Connected, Waiting, IsOpen, IInv, TypeOK, OneConnection, CallInv
<1>2. CASE ConnectFailed
  BY <1>2, NoneAssumption, TimeAssumption
     DEF ConnectFailed, CatchFailure, Waiting, IsOpen, IInv, TypeOK, OneConnection, CallInv
<1>3. QED
  BY <1>1, <1>2

LEMMA EndInvStep ==
  ASSUME IInv, NEW o \in Ops, Answered(o) \/ Failed(o)
  PROVE  IInv'
<1>1. CASE Answered(o)
  BY <1>1, NoneAssumption, TimeAssumption
     DEF Answered, Return, IsOpen, IInv, TypeOK, OneConnection, CallInv
<1>2. CASE Failed(o)
  BY <1>2, NoneAssumption, TimeAssumption
     DEF Failed, CatchFailure, Return, IsOpen, IInv, TypeOK, OneConnection, CallInv
<1>3. QED
  BY <1>1, <1>2

LEMMA OutsideInvStep ==
  ASSUME IInv, SocketBreaks \/ RedisGoes
  PROVE  IInv'
<1>1. CASE SocketBreaks
  BY <1>1, NoneAssumption, TimeAssumption
     DEF SocketBreaks, IsOpen, IInv, TypeOK, OneConnection, CallInv
<1>2. CASE RedisGoes
  BY <1>2, NoneAssumption, TimeAssumption
     DEF RedisGoes, IsOpen, IInv, TypeOK, OneConnection, CallInv
<1>3. QED
  BY <1>1, <1>2

LEMMA TickInvStep ==
  ASSUME IInv, Tick
  PROVE  IInv'
BY NoneAssumption, TimeAssumption DEF Tick, IsOpen, IInv, TypeOK, OneConnection, CallInv

LEMMA NextInv == IInv /\ [Next]_vars => IInv'
<1> SUFFICES ASSUME IInv, [Next]_vars PROVE IInv'
  OBVIOUS
<1>1. CASE UNCHANGED vars
  BY <1>1 DEF vars, IsOpen, IInv, TypeOK, OneConnection, CallInv
<1>2. CASE Next
  BY <1>2, CallInvStep, DialInvStep, EndInvStep, OutsideInvStep, TickInvStep DEF Next
<1>3. QED
  BY <1>1, <1>2

-----------------------------------------------------------------------------
(***************************************************************************)
(* The pool.  An ended pool is one that a caller still refers to, so a new *)
(* pool is none of them; and after a reset no query runs on a connection   *)
(* from before unless it was given to a pool that is detached by now.      *)
(***************************************************************************)
Busy == {"queued", "dialling", "running", "ending"}

PInv == /\ DbTypeOK
        /\ SharedPoolIsOpen
        /\ OneFailureCleans
        /\ \A c \in Calls : of[c] # NoPool <=> call[c] \in Busy
        /\ \A c \in lost : call[c] = "running"
        /\ \A p \in ending : \E c \in Calls : of[c] = p
        /\ \A c \in Calls : of[c] \in ending \cup {pool, NoPool}
        /\ pool = NoPool => fresh = 0 /\ dead = 0

LEMMA InitPool == DbInit => PInv
<1> SUFFICES ASSUME DbInit PROVE PInv
  OBVIOUS
<1>1. dbUp \in BOOLEAN /\ clean \in BOOLEAN /\ OneFailureCleans
  BY Zenon DEF DbInit, OneFailureCleans
<1>2. DbTypeOK
  BY <1>1 DEF DbInit, DbTypeOK
<1>3. SharedPoolIsOpen
  BY DEF DbInit, SharedPoolIsOpen
<1>4. \A c \in Calls : of[c] # NoPool <=> call[c] \in Busy
  BY DEF DbInit, Busy
<1>5. /\ \A c \in lost : call[c] = "running"
      /\ \A p \in ending : \E c \in Calls : of[c] = p
  BY DEF DbInit
<1>6. /\ \A c \in Calls : of[c] \in ending \cup {pool, NoPool}
      /\ pool = NoPool => fresh = 0 /\ dead = 0
  BY DEF DbInit
<1>7. QED
  BY <1>1, <1>2, <1>3, <1>4, <1>5, <1>6 DEF PInv

LEMMA NewPoolIsNew ==
  ASSUME DbTypeOK
  PROVE  NewPool \in Pools /\ \A c \in Calls : of[c] # NewPool
<1>1. \E p \in Pools : \A c \in Calls : of[c] # p
  BY PoolsAssumption DEF DbTypeOK
<1>2. QED
  BY <1>1 DEF NewPool

LEMMA SubmitPool == ASSUME PInv, NEW c \in Calls, Submit(c) PROVE PInv'
<1>1. CASE pool = NoPool
  BY <1>1, NewPoolIsNew, NoPoolAssumption
     DEF Submit, Set, PInv, DbTypeOK, SharedPoolIsOpen, OneFailureCleans, Busy
<1>2. CASE pool # NoPool
  BY <1>2, NoPoolAssumption
     DEF Submit, Set, PInv, DbTypeOK, SharedPoolIsOpen, OneFailureCleans, Busy
<1>3. QED
  BY <1>1, <1>2

LEMMA WaitPool == ASSUME PInv, NEW c \in Calls, Wait(c) PROVE PInv'
<1>1. CASE GivenIdle(c)
  BY <1>1 DEF GivenIdle, Set, PInv, DbTypeOK, SharedPoolIsOpen, OneFailureCleans, Busy
<1>2. CASE GivenRoom(c)
  BY <1>2 DEF GivenRoom, Set, PInv, DbTypeOK, SharedPoolIsOpen, OneFailureCleans, Busy
<1>3. CASE DialDone(c)
  BY <1>3 DEF DialDone, Set, PInv, DbTypeOK, SharedPoolIsOpen, OneFailureCleans, Busy
<1>4. CASE QueueTimeout(c) \/ DialFailed(c) \/ QueryLost(c)
  BY <1>4 DEF QueueTimeout, DialFailed, QueryLost, Over, Ends, Set,
              PInv, DbTypeOK, SharedPoolIsOpen, OneFailureCleans, Busy
<1>5. QED
  BY <1>1, <1>2, <1>3, <1>4 DEF Wait

LEMMA FinishPool == ASSUME PInv, NEW c \in Calls, Finish(c) PROVE PInv'
<1>1. CASE QueryOk(c) \/ QueryError(c) \/ Ended(c)
  <2>1. /\ Over(c, "idle")
        /\ dead' = dead /\ pool' = pool /\ dbUp' = dbUp /\ clean' = clean
    BY <1>1 DEF QueryOk, QueryError, Ended
  <2>2. fresh' \in Nat /\ (pool = NoPool => fresh' = 0)
    BY <1>1, NoPoolAssumption DEF QueryOk, QueryError, Ended, PInv, DbTypeOK, Busy
  <2>3. DbTypeOK' /\ SharedPoolIsOpen' /\ OneFailureCleans'
    BY <2>1, <2>2 DEF Over, Ends, Set, PInv, DbTypeOK, SharedPoolIsOpen, OneFailureCleans
  <2>4. QED
    BY <2>1, <2>2, <2>3 DEF Over, Ends, Set, PInv, DbTypeOK, Busy
<1>2. CASE Reset(c)
  <2>1. clean' \in BOOLEAN /\ dbUp' \in BOOLEAN
    BY <1>2, Zenon DEF Reset, PInv, DbTypeOK
  <2>2. CASE pool = NoPool
    <3>1. DbTypeOK' /\ SharedPoolIsOpen'
      BY <1>2, <2>1, <2>2 DEF Reset, Set, PInv, DbTypeOK, SharedPoolIsOpen
    <3>2. dead' = 0 /\ \A d \in lost' : of'[d] # pool'
      BY <1>2, <2>2 DEF Reset, PInv, DbTypeOK, Busy
    <3>3. QED
      BY <1>2, <2>2, <3>1, <3>2 DEF Reset, Set, PInv, DbTypeOK, OneFailureCleans, Busy
  <2>3. CASE pool # NoPool
    <3>1. /\ pool' = NoPool /\ ending' = ending \cup {pool}
          /\ fresh' = 0 /\ dead' = 0 /\ lost' = lost
          /\ call' = [call EXCEPT ![c] = "ending"]
          /\ of' = [of EXCEPT ![c] = pool]
          /\ call[c] = "failed"
      BY <1>2, <2>3 DEF Reset, Set
    <3>2. DbTypeOK' /\ SharedPoolIsOpen'
      BY <2>1, <2>3, <3>1, NoPoolAssumption DEF PInv, DbTypeOK, SharedPoolIsOpen
    <3>3. \A d \in lost' : call'[d] = "running" /\ of'[d] # pool'
      BY <2>3, <3>1 DEF PInv, DbTypeOK, Busy
    <3>4. \A d \in Calls : /\ of'[d] # NoPool <=> call'[d] \in Busy
                          /\ of'[d] \in ending' \cup {pool', NoPool}
      BY <2>3, <3>1 DEF PInv, DbTypeOK, Busy
    <3>5. \A p \in ending' : \E d \in Calls : of'[d] = p
      <4>1. of[c] = NoPool
        BY <3>1 DEF PInv, Busy
      <4>2. ASSUME NEW p \in ending PROVE \E d \in Calls : of'[d] = p
        <5>1. PICK d \in Calls : of[d] = p
          BY DEF PInv
        <5>2. d # c
          BY <4>1, <5>1, NoPoolAssumption DEF PInv, DbTypeOK
        <5>3. QED
          BY <3>1, <5>1, <5>2 DEF PInv, DbTypeOK
      <4>3. of'[c] = pool
        BY <3>1 DEF PInv, DbTypeOK
      <4>4. QED
        BY <3>1, <4>2, <4>3
    <3>6. QED
      BY <3>1, <3>2, <3>3, <3>4, <3>5 DEF PInv, OneFailureCleans
  <2>4. QED
    BY <2>2, <2>3
<1>3. CASE NoReset(c)
  BY <1>3 DEF NoReset, Set, PInv, DbTypeOK, SharedPoolIsOpen, OneFailureCleans, Busy
<1>4. QED
  BY <1>1, <1>2, <1>3 DEF Finish

LEMMA OthersPool == ASSUME PInv, DetachedByOthers \/ Postgres PROVE PInv'
<1>1. CASE DetachedByOthers
  <2>1. ending' = {p \in ending \cup {pool} : \E c \in Calls : of[c] = p}
    BY <1>1 DEF DetachedByOthers, Ends
  <2>2. DbTypeOK'
    BY <1>1, <2>1 DEF DetachedByOthers, PInv, DbTypeOK
  <2>3. SharedPoolIsOpen'
    BY <1>1, <2>1, NoPoolAssumption DEF DetachedByOthers, PInv, DbTypeOK, SharedPoolIsOpen
  <2>4. OneFailureCleans'
    BY <1>1 DEF DetachedByOthers, PInv, DbTypeOK, OneFailureCleans, Busy
  <2>5. QED
    BY <1>1, <2>1, <2>2, <2>3, <2>4 DEF DetachedByOthers, PInv
<1>2. CASE GoesDown
  <2>1. OneFailureCleans'
    BY <1>2, Zenon DEF GoesDown, OneFailureCleans
  <2>2. dbUp' \in BOOLEAN /\ clean' \in BOOLEAN
    BY <1>2, Zenon DEF GoesDown
  <2>3. DbTypeOK'
    BY <1>2, <2>2 DEF GoesDown, PInv, DbTypeOK
  <2>4. QED
    BY <1>2, <2>1, <2>3 DEF GoesDown, PInv, SharedPoolIsOpen
<1>3. CASE ComesUp
  <2>1. dbUp' \in BOOLEAN
    BY <1>3, Zenon DEF ComesUp
  <2>2. QED
    BY <1>3, <2>1 DEF ComesUp, PInv, DbTypeOK, SharedPoolIsOpen, OneFailureCleans
<1>4. CASE IdleDropped
  BY <1>4 DEF IdleDropped, PInv, DbTypeOK, SharedPoolIsOpen, OneFailureCleans
<1>5. QED
  BY <1>1, <1>2, <1>3, <1>4 DEF Postgres

LEMMA NextPool == PInv /\ [DbNext]_dbVars => PInv'
<1> SUFFICES ASSUME PInv, [DbNext]_dbVars PROVE PInv'
  OBVIOUS
<1>1. CASE UNCHANGED dbVars
  BY <1>1 DEF dbVars, PInv, DbTypeOK, SharedPoolIsOpen, OneFailureCleans, Busy
<1>2. CASE DbNext
  BY <1>2, SubmitPool, WaitPool, FinishPool, OthersPool DEF DbNext
<1>3. QED
  BY <1>1, <1>2

-----------------------------------------------------------------------------
(***************************************************************************)
(* The service.                                                            *)
(***************************************************************************)
LEMMA ServiceSteps ==
  ASSUME [SvcNext]_svc
  PROVE  [Next]_vars /\ [DbNext]_dbVars
<1>1. CASE UNCHANGED svc
  BY <1>1 DEF svc
<1>2. ASSUME NEW r \in Ops, Resume(r)
      PROVE  [Next]_vars /\ [DbNext]_dbVars
  BY <1>2, CallersAssumption
     DEF Resume, Hit, Miss, Store, NothingToStore, Refuse, Stored, Next, DbNext, Finish
<1>3. ASSUME NEW r \in Ops, Arrive(r)
      PROVE  [Next]_vars /\ [DbNext]_dbVars
  BY <1>3, CallersAssumption DEF Arrive, Lookup, Create, Login, Next, DbNext
<1>4. ASSUME NEW r \in Ops, Query(r) \/ Command(r)
      PROVE  [Next]_vars /\ [DbNext]_dbVars
  BY <1>4, CallersAssumption DEF Query, Command, Next, DbNext, Finish
<1>5. CASE Dial \/ Time \/ Outage
  BY <1>5 DEF Dial, Time, Outage, Next, DbNext
<1>6. QED
  BY <1>1, <1>2, <1>3, <1>4, <1>5 DEF SvcNext

Labels == {"idle", "lookup", "query", "login", "store"}

LEMMA LabelsStep ==
  ASSUME at \in [Ops -> Labels], [SvcNext]_svc
  PROVE  at' \in [Ops -> Labels]
BY DEF SvcNext, svc, Resume, Hit, Miss, Store, NothingToStore, Refuse, Stored, Labels,
       Arrive, Lookup, Create, Login, Goto, Query, Command, Dial, Time, Outage

LEMMA ServiceInv == SvcSpec => [](IInv /\ PInv)
<1>1. SvcInit => IInv /\ PInv
  BY InitInv, InitPool DEF SvcInit
<1>2. IInv /\ PInv /\ [SvcNext]_svc => (IInv /\ PInv)'
  BY ServiceSteps, NextInv, NextPool
<1>3. QED
  BY <1>1, <1>2, PTL DEF SvcSpec

\* Every variable of the service keeps its type.
THEOREM ServiceTypeCorrect == SvcSpec => []SvcTypeOK
<1>1. SvcInit => at \in [Ops -> Labels]
  BY DEF SvcInit, Labels
<1>2. at \in [Ops -> Labels] /\ [SvcNext]_svc => (at \in [Ops -> Labels])'
  BY LabelsStep
<1>3. IInv /\ PInv /\ at \in [Ops -> Labels] => SvcTypeOK
  BY DEF IInv, PInv, SvcTypeOK, Labels
<1>4. QED
  BY <1>1, <1>2, <1>3, ServiceInv, PTL DEF SvcSpec

\* An operation that fails tears down the connection it failed on, never one
\* that was dialled since, for every timeout shorter than the cooldown.
THEOREM FailuresStayLocal == SvcSpec => []FailsItsOwnClient
<1>1. IInv => FailsItsOwnClient
  BY DEF IInv, CallInv, FailsItsOwnClient
<1>2. QED
  BY <1>1, ServiceInv, PTL

\* At most one socket to Redis is open or being dialled.
THEOREM NoSocketLeaks == SvcSpec => []OneConnection
<1>1. IInv => OneConnection
  BY DEF IInv
<1>2. QED
  BY <1>1, ServiceInv, PTL

\* No query is given to a pool that was ended: the shared pool is never one that
\* a reset has begun to end, however many calls still wait in those.
THEOREM NoQueryToEndedPool == SvcSpec => []SharedPoolIsOpen
<1>1. PInv => SharedPoolIsOpen
  BY DEF PInv
<1>2. QED
  BY <1>1, ServiceInv, PTL

\* The first reset after an outage leaves no connection from before it to the
\* queries that come.
THEOREM ResetsAreClean == SvcSpec => []OneFailureCleans
<1>1. PInv => OneFailureCleans
  BY DEF PInv
<1>2. QED
  BY <1>1, ServiceInv, PTL

\* What the handlers do to the two clients, each sees as a behaviour of its own
\* module: the guards a client puts on its callers are met by every handler.
THEOREM HandlersKeepToTheClients == SvcSpec => Spec /\ DbSpec
<1>1. SvcInit => Init /\ DbInit
  BY DEF SvcInit
<1>2. [SvcNext]_svc => [Next]_vars /\ [DbNext]_dbVars
  BY ServiceSteps
<1>3. QED
  BY <1>1, <1>2, PTL DEF SvcSpec, Spec, DbSpec
=============================================================================
