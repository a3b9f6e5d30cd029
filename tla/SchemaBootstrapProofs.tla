------------------------- MODULE SchemaBootstrapProofs -------------------------
(***************************************************************************)
(* Safety of SchemaBootstrap for any number of processes of each service.  *)
(***************************************************************************)
EXTENDS SchemaBootstrap, TLAPS

\* Only an outage makes a connection dead, and an outage clears `lost` and
\* `fair`; so a call that counts can fail only on a dead connection left from
\* before it, and its failure drops that connection.
Sound(s) == /\ conn[s] = "open" => dbUp
            /\ ready[s] => table
            /\ fair[s] => dbUp /\ table
            /\ fair[s] /\ pc[s] = "create" => saw[s]
            /\ conn[s] = "gone" => lost[s] = 0
            /\ lost[s] <= 1

IInv == TypeOK /\ \A s \in Services : Sound(s)

LEMMA InitIInv == Init => IInv
  <1> SUFFICES ASSUME Init PROVE IInv
    OBVIOUS
  <1>1. 0 \in 0 .. MaxLost
    BY DEF MaxLost
  <1>2. TypeOK
    BY <1>1 DEF Init, TypeOK
  <1>3. ASSUME NEW s \in Services PROVE Sound(s)
    BY DEF Init, Sound
  <1> QED
    BY <1>2, <1>3 DEF IInv

\* A step of s that touches no other service, and takes no table away, keeps
\* the others sound.
LEMMA OthersSound ==
  ASSUME IInv, NEW s \in Services, NEW x \in Services, x # s,
         dbUp' = dbUp, table => table',
         conn'[x] = conn[x], pc'[x] = pc[x], saw'[x] = saw[x],
         ready'[x] = ready[x], fair'[x] = fair[x], lost'[x] = lost[x]
  PROVE  Sound(x)'
  BY DEF IInv, Sound

LEMMA ProgressSteps ==
  ASSUME IInv, NEW s \in Services,
         Call(s) \/ Connect(s) \/ CreateSent(s) \/ Created(s)
           \/ Retry(s) \/ QueryDone(s) \/ Restart(s)
  PROVE  IInv'
  <1>1. TypeOK'
    <2>1. TypeOK /\ 0 \in 0 .. MaxLost
      BY DEF IInv, MaxLost
    <2>2. CASE Call(s)
      BY <2>1, <2>2 DEF Call, Goto, SameWorld, TypeOK
    <2>3. CASE Connect(s)
      BY <2>1, <2>3 DEF Connect, Conn, SameWorld, TypeOK
    <2>4. CASE CreateSent(s)
      BY <2>1, <2>4 DEF CreateSent, Goto, SameWorld, TypeOK
    <2>5. CASE Created(s)
      BY <2>1, <2>5 DEF Created, Goto, TypeOK
    <2>6. CASE Retry(s) \/ QueryDone(s)
      BY <2>1, <2>6 DEF Retry, QueryDone, Goto, SameWorld, TypeOK
    <2>7. CASE Restart(s)
      BY <2>1, <2>7 DEF Restart, Goto, Conn, SameWorld, TypeOK
    <2> QED
      BY <2>2, <2>3, <2>4, <2>5, <2>6, <2>7
  <1>2. ASSUME NEW x \in Services, x # s PROVE Sound(x)'
    BY <1>2, OthersSound
       DEF Call, Connect, CreateSent, Created, Retry, QueryDone, Restart,
           Goto, Conn, SameWorld, IInv, TypeOK
  <1>3. Sound(s)'
    <2>1. TypeOK /\ Sound(s)
      BY DEF IInv
    <2>2. CASE Call(s)
      BY <2>1, <2>2 DEF Call, Goto, SameWorld, TypeOK, Sound
    <2>3. CASE Connect(s)
      BY <2>1, <2>3 DEF Connect, Conn, SameWorld, TypeOK, Sound
    <2>4. CASE CreateSent(s)
      BY <2>1, <2>4 DEF CreateSent, Goto, SameWorld, TypeOK, Sound
    <2>5. CASE Created(s)
      BY <2>1, <2>5 DEF Created, Goto, TypeOK, Sound
    <2>6. CASE Retry(s)
      BY <2>1, <2>6 DEF Retry, Goto, SameWorld, TypeOK, Sound
    <2>7. CASE QueryDone(s)
      BY <2>1, <2>7 DEF QueryDone, Goto, SameWorld, TypeOK, Sound
    <2>8. CASE Restart(s)
      BY <2>1, <2>8 DEF Restart, Goto, Conn, SameWorld, TypeOK, Sound
    <2> QED
      BY <2>2, <2>3, <2>4, <2>5, <2>6, <2>7, <2>8
  <1> QED
    BY <1>1, <1>2, <1>3 DEF IInv

\* A failure that counts was met on a dead connection, which is now dropped.
LEMMA FailureSteps ==
  ASSUME IInv, NEW s \in Services, EnsureFailed(s) \/ QueryFailed(s)
  PROVE  IInv'
  <1>1. TypeOK /\ Sound(s)
    BY DEF IInv
  <1>2. /\ SameWorld /\ AfterFailure(s) /\ Refuse(s)
        /\ saw' = saw /\ ready' = ready
        /\ pc' = [pc EXCEPT ![s] = pc'[s]]
        /\ pc'[s] \in {"idle", "delay"}
    BY <1>1 DEF EnsureFailed, QueryFailed, Goto, TypeOK
  <1>3. fair[s] => conn[s] = "gone"
    BY <1>1 DEF EnsureFailed, QueryFailed, CreateFails, QueryFails, Unreachable, Sound
  <1>4. /\ conn'[s] \in {"none", "open"}
        /\ conn'[s] = "open" => conn[s] = "open"
        /\ conn' = [conn EXCEPT ![s] = conn'[s]]
    BY <1>1, <1>2 DEF AfterFailure, Conn, TypeOK
  <1>5. /\ lost'[s] \in 0 .. MaxLost /\ lost'[s] <= 1
        /\ lost' = [lost EXCEPT ![s] = lost'[s]]
        /\ fair' = [fair EXCEPT ![s] = FALSE]
    BY <1>1, <1>2, <1>3 DEF Refuse, TypeOK, Sound, MaxLost
  <1>6. TypeOK'
    <2>1. serving' \in [Services -> BOOLEAN]
      BY <1>1 DEF EnsureFailed, QueryFailed, TypeOK
    <2> QED
      BY <1>1, <1>2, <1>4, <1>5, <2>1, ZenonT(60) DEF SameWorld, TypeOK
  <1>7. ASSUME NEW x \in Services, x # s PROVE Sound(x)'
    BY <1>1, <1>2, <1>4, <1>5, <1>7, OthersSound DEF SameWorld, TypeOK
  <1>8. Sound(s)'
    BY <1>1, <1>2, <1>4, <1>5 DEF SameWorld, TypeOK, Sound
  <1> QED
    BY <1>6, <1>7, <1>8 DEF IInv

LEMMA OutageStep == ASSUME IInv, DbGoes PROVE IInv'
  <1>1. TypeOK'
    <2>1. TypeOK /\ 0 \in 0 .. MaxLost
      BY DEF IInv, MaxLost
    <2>2. /\ conn' \in [Services -> {"none", "open", "gone"}]
          /\ dbUp' \in BOOLEAN /\ table' \in BOOLEAN
      BY <2>1 DEF DbGoes, TypeOK
    <2>3. fair' \in [Services -> BOOLEAN] /\ lost' \in [Services -> 0 .. MaxLost]
      BY <2>1 DEF DbGoes
    <2> QED
      BY <2>1, <2>2, <2>3 DEF DbGoes, TypeOK
  <1>2. ASSUME NEW s \in Services PROVE Sound(s)'
    BY <1>2 DEF DbGoes, IInv, TypeOK, Sound
  <1> QED
    BY <1>1, <1>2 DEF IInv

LEMMA NextIInv == IInv /\ [Next]_vars => IInv'
  <1> SUFFICES ASSUME IInv, [Next]_vars PROVE IInv'
    OBVIOUS
  <1>1. CASE UNCHANGED vars
    BY <1>1 DEF vars, IInv, TypeOK, Sound
  <1>2. CASE DbGoes
    BY <1>2, OutageStep
  <1>3. ASSUME NEW s \in Services, Call(s) \/ Work(s) \/ Restart(s) PROVE IInv'
    BY <1>3, ProgressSteps, FailureSteps DEF Work
  <1> QED
    BY <1>1, <1>2, <1>3 DEF Next

LEMMA InvariantHolds == Spec => []IInv
  BY InitIInv, NextIInv, PTL DEF Spec

\* Connections, and the calls a service loses to an outage, stay in their ranges.
THEOREM TypeCorrect == Spec => []TypeOK
  <1>1. IInv => TypeOK
    BY DEF IInv
  <1> QED
    BY <1>1, InvariantHolds, PTL

\* schema_ready of a Python process is set only once the table exists, whichever
\* service created it.
THEOREM ReadyIsTrue == Spec => []ReadyMeansTable
  <1>1. IInv => ReadyMeansTable
    BY DEF IInv, Sound, ReadyMeansTable
  <1> QED
    BY <1>1, InvariantHolds, PTL

\* A service loses at most one call to an outage that is over.
THEOREM OneCallIsLost == Spec => [](TypeOK /\ LosesOneCall)
  <1>1. IInv => TypeOK /\ LosesOneCall
    BY DEF IInv, Sound, LosesOneCall
  <1> QED
    BY <1>1, InvariantHolds, PTL
=============================================================================
