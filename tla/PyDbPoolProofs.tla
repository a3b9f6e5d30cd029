--------------------------- MODULE PyDbPoolProofs ---------------------------
(***************************************************************************)
(* Safety of PyDbPool for any number of threads and pools.                 *)
(***************************************************************************)
EXTENDS PyDbPool, TLAPS

\* A call that runs alone, in good times, keeps to the path on which every step
\* succeeds.
OnTrack(t) ==
  alone[t] /\ clean[t] /\ t \notin unfit =>
    /\ dbUp
    /\ \A y \in Threads \ {t} : pc[y] = "idle"
    /\ pc[t] \in {"check", "take", "open", "use", "query"}
    /\ pc[t] \in {"check", "take"} => pool \notin stale
    /\ pc[t] = "take" => pool # None
    /\ pc[t] \in {"use", "query"} => mine[t] \notin closed \cup stale \cup {None}

IInv == TypeOK /\ ClosedPoolIsLeaving /\ \A t \in Threads : OnTrack(t)

LEMMA InitIInv == Init => IInv
  BY DEF Init, IInv, TypeOK, ClosedPoolIsLeaving, OnTrack, Places

\* No step of a call takes a value out of its type.
LEMMA StepsKeepTypes ==
  ASSUME TypeOK, NEW t \in Threads, Call(t) \/ Step(t)
  PROVE  TypeOK'
  <1> USE DEF TypeOK, Goto, Got, Here, Return, Places
  <1>1. CASE Call(t)
    BY <1>1 DEF Call
  <1>2. CASE Check(t)
    BY <1>2 DEF Check
  <1>3. CASE Take(t)
    BY <1>3 DEF Take
  <1>4. CASE Opened(t)
    BY <1>4 DEF Opened
  <1>5. CASE OpenFailed(t)
    BY <1>5 DEF OpenFailed
  <1>6. CASE Connection(t) \/ NoConnection(t)
    BY <1>6 DEF Connection, NoConnection
  <1>7. CASE QueryDone(t) \/ Refused(t)
    BY <1>7 DEF QueryDone, Refused
  <1>8. CASE QueryFailed(t)
    BY <1>8 DEF QueryFailed
  <1>9. CASE CloseCheck(t)
    BY <1>9 DEF CloseCheck
  <1>10. CASE ClosePool(t)
    BY <1>10 DEF ClosePool
  <1>11. CASE Forget(t)
    BY <1>11 DEF Forget
  <1>12. CASE StatementRefused(t)
    BY <1>12 DEF StatementRefused
  <1> QED
    BY <1>1, <1>2, <1>3, <1>4, <1>5, <1>6, <1>7, <1>8, <1>9, <1>10, <1>11, <1>12
       DEF Step

\* Only the thread at "forget" that clears `_pool` leaves that place, so a closed
\* pool never outlives the last of them.
LEMMA ClosedPoolStep ==
  ASSUME TypeOK, ClosedPoolIsLeaving, NEW t \in Threads, Call(t) \/ Step(t)
  PROVE  ClosedPoolIsLeaving'
  <1>1. CASE ClosePool(t)
    BY <1>1 DEF ClosePool, Goto, TypeOK, ClosedPoolIsLeaving
  <1>2. CASE Forget(t) \/ OpenFailed(t)
    BY <1>2, NoneAssumption DEF Forget, OpenFailed, TypeOK, ClosedPoolIsLeaving
  <1>3. CASE Opened(t)
    BY <1>3 DEF Opened, ClosedPoolIsLeaving
  <1>4. ASSUME ~(ClosePool(t) \/ Forget(t) \/ OpenFailed(t) \/ Opened(t))
        PROVE  ClosedPoolIsLeaving'
    <2>1. /\ UNCHANGED <<pool, closed>>
          /\ pc[t] # "forget"
          /\ \A y \in Threads \ {t} : pc'[y] = pc[y]
      BY <1>4 DEF Step, Call, Check, Take, Connection, NoConnection, QueryDone,
                  QueryFailed, StatementRefused, CloseCheck, Refused, Return, Goto, TypeOK
    <2> QED
      BY <2>1 DEF ClosedPoolIsLeaving
  <1> QED
    BY <1>1, <1>2, <1>3, <1>4

LEMMA OnTrackStep ==
  ASSUME IInv, NEW t \in Threads, Call(t) \/ Step(t), NEW x \in Threads
  PROVE  OnTrack(x)'
  <1> SUFFICES ASSUME alone'[x], clean'[x], x \notin unfit'
               PROVE  /\ dbUp'
                      /\ \A y \in Threads \ {x} : pc'[y] = "idle"
                      /\ pc'[x] \in {"check", "take", "open", "use", "query"}
                      /\ pc'[x] \in {"check", "take"} => pool' \notin stale'
                      /\ pc'[x] = "take" => pool' # None
                      /\ pc'[x] \in {"use", "query"} =>
                           mine'[x] \notin closed' \cup stale' \cup {None}
    BY DEF OnTrack
  <1>1. TypeOK /\ OnTrack(x)
    BY DEF IInv
  <1>2. CASE Call(t)
    <2>1. x = t /\ \A y \in Threads \ {t} : pc[y] = "idle"
      BY <1>1, <1>2 DEF Call, TypeOK
    <2> QED
      BY <1>1, <1>2, <2>1 DEF Call, Goto, TypeOK
  <1>3. CASE Step(t)
    <2>0. ~StatementRefused(t)
      <3> SUFFICES ASSUME StatementRefused(t) PROVE FALSE
        OBVIOUS
      <3>1. alone[x] /\ clean[x] /\ x \notin unfit /\ x # t /\ pc[t] = "query"
        BY DEF StatementRefused
      <3> QED
        BY <1>1, <3>1 DEF OnTrack
    <2>1. alone[x] /\ clean[x] /\ x \notin unfit /\ x = t
      <3>1. CASE QueryDone(t) \/ Refused(t)
        <4>1. x # t
          BY <1>1, <3>1 DEF QueryDone, Refused, Return, TypeOK
        <4>2. alone[x] /\ clean[x] /\ x \notin unfit
          BY <1>1, <3>1, <4>1 DEF QueryDone, Refused, Return, TypeOK
        <4> QED
          BY <1>1, <3>1, <4>1, <4>2 DEF QueryDone, Refused, OnTrack
      <3>2. CASE ~(QueryDone(t) \/ Refused(t))
        <4>1. alone[x] /\ clean[x] /\ x \notin unfit /\ pc[t] # "idle"
          BY <1>3, <2>0, <3>2
             DEF Step, Check, Take, Opened, OpenFailed, Connection, NoConnection,
                 QueryFailed, CloseCheck, ClosePool, Forget, Here
        <4> QED
          BY <1>1, <4>1 DEF OnTrack
      <3> QED
        BY <3>1, <3>2
    <2>2. /\ dbUp
          /\ \A y \in Threads \ {t} : pc[y] = "idle"
          /\ pc[t] \in {"check", "take", "open", "use", "query"}
          /\ pc[t] \in {"check", "take"} => pool \notin stale
          /\ pc[t] = "take" => pool # None
          /\ pc[t] \in {"use", "query"} => mine[t] \notin closed \cup stale \cup {None}
      BY <1>1, <2>1 DEF OnTrack
    <2>3. pc[t] \in {"check", "take"} => pool \notin closed
      BY <2>2 DEF IInv, ClosedPoolIsLeaving
    <2>4. CASE Check(t)
      BY <1>1, <2>1, <2>2, <2>4 DEF Check, Goto, Here, TypeOK
    <2>5. CASE Take(t)
      BY <1>1, <2>1, <2>2, <2>3, <2>5 DEF Take, Got, Goto, Here, TypeOK
    <2>6. CASE Opened(t)
      BY <1>1, <2>1, <2>2, <2>6, NoneAssumption DEF Opened, Got, Goto, Here, TypeOK
    <2>7. CASE Connection(t)
      BY <1>1, <2>1, <2>2, <2>7 DEF Connection, Goto, Here, TypeOK
    <2>8. CASE QueryDone(t)
      BY <1>1, <2>1, <2>8 DEF QueryDone, Return, TypeOK
    <2>9. ~(\/ OpenFailed(t) \/ NoConnection(t) \/ QueryFailed(t)
            \/ CloseCheck(t) \/ ClosePool(t) \/ Forget(t) \/ Refused(t))
      BY <2>2 DEF OpenFailed, NoConnection, QueryFailed, CloseCheck, ClosePool,
                  Forget, Refused
    <2> QED
      BY <1>3, <2>0, <2>4, <2>5, <2>6, <2>7, <2>8, <2>9 DEF Step
  <1> QED
    BY <1>2, <1>3

LEMMA OutageStep == ASSUME IInv, DbGoes PROVE IInv'
  BY DEF DbGoes, IInv, TypeOK, ClosedPoolIsLeaving, OnTrack

LEMMA NextIInv == IInv /\ [Next]_vars => IInv'
  <1> SUFFICES ASSUME IInv, [Next]_vars PROVE IInv'
    OBVIOUS
  <1>1. CASE UNCHANGED vars
    BY <1>1 DEF vars, IInv, TypeOK, ClosedPoolIsLeaving, OnTrack
  <1>2. CASE DbGoes
    BY <1>2, OutageStep
  <1>3. ASSUME NEW t \in Threads, Call(t) \/ Step(t) PROVE IInv'
    BY <1>3, StepsKeepTypes, ClosedPoolStep, OnTrackStep DEF IInv
  <1> QED
    BY <1>1, <1>2, <1>3 DEF Next

LEMMA InvariantHolds == Spec => []IInv
  BY InitIInv, NextIInv, PTL DEF Spec

\* No thread uses a pool that is not one, and none takes None for one.
THEOREM TypeCorrect == Spec => []TypeOK
  <1>1. IInv => TypeOK
    BY DEF IInv
  <1> QED
    BY <1>1, InvariantHolds, PTL

\* db.py never leaves a closed pool in `_pool` (Database.close).
THEOREM NoClosedPoolStays == Spec => [](TypeOK /\ ClosedPoolIsLeaving)
  <1>1. IInv => TypeOK /\ ClosedPoolIsLeaving
    BY DEF IInv
  <1> QED
    BY <1>1, InvariantHolds, PTL

\* A database call that overlaps no other, begun in good times, is never refused but
\* for its own statement.
THEOREM LoneCallSucceeds == Spec => []RetriesCleanlyAlone
  <1>1. IInv => RetriesCleanlyAlone
    BY DEF IInv, OnTrack, RetriesCleanlyAlone
  <1> QED
    BY <1>1, InvariantHolds, PTL
=============================================================================
