------------------------------ MODULE FleetProofs ------------------------------
(***************************************************************************)
(* Proofs about Fleet for any number of commits, services, files and       *)
(* migrator tasks.  First Migrations by itself; what its invariant says of *)
(* the runners carries over to the fleet, since a step of the fleet is a   *)
(* step of Migrations or leaves its variables alone.                       *)
(***************************************************************************)
EXTENDS Fleet, TLAPS, FiniteSetTheorems

-----------------------------------------------------------------------------
(***************************************************************************)
(* Migrations.                                                             *)
(***************************************************************************)

\* A runner that has left files behind has seen each of them recorded, and it
\* applies nothing beyond the last file of its commit.
Passed(r) == /\ pc[r] # "stopped" =>
                  \A v \in Versions : v < at[r] => v \in recorded
             /\ pc[r] = "apply" => at[r] <= upto[r]
             /\ pc[r] = "done" => at[r] > upto[r]

IInv == TypeOK /\ ExactlyOnce /\ InOrder /\ \A r \in Runners : Passed(r)

\* Committing a version that no commit has recorded, after all versions below
\* it, keeps the record in order and counts the version once.
LEMMA CommitKeepsRecord ==
  ASSUME IInv, NEW v \in Versions, v \notin recorded,
         \A u \in Versions : u < v => u \in recorded,
         Commit(v)
  PROVE  /\ recorded' \in SUBSET Versions
         /\ times' \in [Versions -> 0 .. MaxTimes]
         /\ ExactlyOnce'
         /\ InOrder'
         /\ recorded \subseteq recorded'
         /\ v \in recorded'
  <1>1. /\ recorded' = recorded \cup {v}
        /\ times' = [times EXCEPT ![v] = IF @ < MaxTimes THEN @ + 1 ELSE @]
    BY DEF Commit
  <1>2. times[v] = 0 /\ 0 < MaxTimes /\ times'[v] = 1
    BY <1>1, MaxTimesAssumption DEF IInv, TypeOK, ExactlyOnce
  <1>3. times' \in [Versions -> 0 .. MaxTimes]
    BY <1>1, MaxTimesAssumption DEF IInv, TypeOK
  <1>4. ExactlyOnce'
    BY <1>1, <1>2 DEF IInv, TypeOK, ExactlyOnce
  <1>5. InOrder'
    <2> SUFFICES ASSUME NEW u \in recorded', NEW x \in 1 .. u
                 PROVE  x \in recorded'
      BY DEF InOrder
    <2>1. CASE u \in recorded
      BY <2>1, <1>1 DEF IInv, InOrder
    <2>2. CASE u = v
      BY <2>2, <1>1, LastAssumption DEF Versions
    <2> QED
      BY <2>1, <2>2, <1>1
  <1> QED
    BY <1>1, <1>3, <1>4, <1>5 DEF IInv, TypeOK

LEMMA InitIInv == Init => IInv
  <1> SUFFICES ASSUME Init PROVE IInv
    OBVIOUS
  <1>1. 1 \in 1 .. Last + 1 /\ 0 \in 0 .. MaxTimes /\ 0 \in 0 .. Last
    BY LastAssumption, MaxTimesAssumption
  <1>2. TypeOK
    BY <1>1 DEF Init, TypeOK
  <1>3. ExactlyOnce /\ InOrder /\ \A r \in Runners : Passed(r)
    BY DEF Init, ExactlyOnce, InOrder, Passed
  <1> QED
    BY <1>2, <1>3 DEF IInv

\* Steps that leave the schema alone.
LEMMA QuietSteps ==
  ASSUME IInv, NEW r \in Runners, UNCHANGED <<recorded, times>>,
         (\E n \in 0 .. Last : Start(r, n)) \/ EnsureTracker(r) \/ Skip(r) \/ Pending(r) \/ Done(r) \/ Killed(r)
  PROVE  IInv'
  <1>1. TypeOK'
    <2>1. CASE Skip(r)
      BY <2>1, LastAssumption, SMTT(20) DEF Skip, Advance, IInv, TypeOK, Versions
    <2>2. ASSUME NEW n \in 0 .. Last, Start(r, n) PROVE TypeOK'
      <3>1. 1 \in 1 .. Last + 1
        BY LastAssumption
      <3> QED
        BY <2>2, <3>1 DEF Start, Goto, IInv, TypeOK
    <2> QED
      BY <2>1, <2>2 DEF EnsureTracker, Pending, Done, Killed, Goto, IInv, TypeOK
  <1>2. ExactlyOnce' /\ InOrder'
    BY DEF IInv, ExactlyOnce, InOrder
  <1>3. ASSUME NEW x \in Runners PROVE Passed(x)'
    <2>1. Passed(x) /\ Passed(r)
      BY DEF IInv
    <2>2. ASSUME NEW n \in 0 .. Last, Start(r, n) PROVE Passed(x)'
      BY <2>1, <2>2 DEF Start, Goto, IInv, TypeOK, Passed, Versions
    <2>3. CASE EnsureTracker(r)
      BY <2>1, <2>3 DEF EnsureTracker, Goto, IInv, TypeOK, Passed
    <2>4. CASE Skip(r)
      BY <2>1, <2>4, LastAssumption DEF Skip, Advance, IInv, TypeOK, Passed, Versions
    <2>5. CASE Pending(r)
      BY <2>1, <2>5 DEF Pending, Goto, IInv, TypeOK, Passed
    <2>6. CASE Done(r)
      BY <2>1, <2>6, LastAssumption DEF Done, Goto, IInv, TypeOK, Passed
    <2>7. CASE Killed(r)
      BY <2>1, <2>7 DEF Killed, Goto, IInv, TypeOK, Passed
    <2> QED
      BY <2>2, <2>3, <2>4, <2>5, <2>6, <2>7
  <1> QED
    BY <1>1, <1>2, <1>3 DEF IInv

\* What a commit made by runner r does, whether r learns of it or not.
LEMMA CommitStep ==
  ASSUME IInv, NEW r \in Runners, pc[r] = "apply",
         at[r] \notin recorded, Commit(at[r]), UNCHANGED <<tracker, upto>>,
         \/ Goto(r, "check") /\ Advance(r)
         \/ Goto(r, "stopped") /\ UNCHANGED at
  PROVE  IInv'
  <1>1. /\ at[r] \in Versions
        /\ \A u \in Versions : u < at[r] => u \in recorded
    <2>1. at[r] \in 1 .. Last + 1 /\ upto[r] \in 0 .. Last
      BY DEF IInv, TypeOK
    <2>2. Passed(r)
      BY DEF IInv
    <2>3. at[r] <= upto[r]
      BY <2>2 DEF Passed
    <2> QED
      BY <2>1, <2>2, <2>3, LastAssumption DEF Passed, Versions
  <1>2. /\ recorded' \in SUBSET Versions
        /\ times' \in [Versions -> 0 .. MaxTimes]
        /\ ExactlyOnce' /\ InOrder'
        /\ recorded \subseteq recorded'
        /\ at[r] \in recorded'
    BY <1>1, CommitKeepsRecord
  <1>3. TypeOK'
    <2>1. at' \in [Runners -> 1 .. Last + 1]
      <3>1. at[r] + 1 \in 1 .. Last + 1
        BY <1>1, LastAssumption DEF Versions
      <3> QED
        BY <3>1 DEF IInv, TypeOK, Advance
    <2>2. pc' \in [Runners -> {"stopped", "tracker", "check", "apply", "done"}]
      BY DEF IInv, TypeOK, Goto
    <2> QED
      BY <1>2, <2>1, <2>2 DEF IInv, TypeOK
  <1>4. ASSUME NEW x \in Runners PROVE Passed(x)'
    <2>1. Passed(x) /\ Passed(r)
      BY DEF IInv
    <2>2. CASE x # r
      BY <2>1, <2>2, <1>2 DEF IInv, TypeOK, Passed, Goto, Advance
    <2>3. CASE x = r /\ pc' = [pc EXCEPT ![r] = "check"] /\ Advance(r)
      <3>1. at'[r] = at[r] + 1
        BY <2>3 DEF IInv, TypeOK, Advance
      <3>2. ASSUME NEW v \in Versions, v < at[r] + 1 PROVE v \in recorded'
        <4>1. CASE v = at[r]
          BY <4>1, <1>2
        <4>2. CASE v # at[r]
          <5>1. v < at[r]
            BY <4>2, <3>2, <1>1 DEF Versions
          <5> QED
            BY <5>1, <1>1, <1>2
        <4> QED
          BY <4>1, <4>2
      <3>3. pc'[r] = "check"
        BY <2>3 DEF IInv, TypeOK
      <3> QED
        BY <2>3, <3>1, <3>2, <3>3 DEF Passed
    <2>4. CASE x = r /\ pc' = [pc EXCEPT ![r] = "stopped"]
      BY <2>4 DEF IInv, TypeOK, Passed
    <2> QED
      BY <2>2, <2>3, <2>4 DEF Goto
  <1> QED
    BY <1>2, <1>3, <1>4 DEF IInv

LEMMA NextIInv == IInv /\ [Next]_vars => IInv'
  <1> SUFFICES ASSUME IInv, [Next]_vars PROVE IInv'
    OBVIOUS
  <1>1. CASE UNCHANGED vars
    BY <1>1 DEF vars, IInv, TypeOK, ExactlyOnce, InOrder, Passed
  <1>2. ASSUME NEW r \in Runners,
               (\E n \in 0 .. Last : Start(r, n)) \/ Run(r) \/ Killed(r)
        PROVE  IInv'
    <2>1. CASE (\E n \in 0 .. Last : Start(r, n)) \/ EnsureTracker(r) \/ Skip(r) \/ Pending(r) \/ Done(r) \/ Killed(r)
      <3>1. UNCHANGED <<recorded, times>>
        BY <2>1 DEF Start, EnsureTracker, Skip, Pending, Done, Killed
      <3> QED
        BY <2>1, <3>1, QuietSteps
    <2>2. CASE Apply(r)
      BY <2>2, CommitStep DEF Apply
    <2>3. CASE ApplyFailed(r)
      <3>1. CASE UNCHANGED <<recorded, times>>
        BY <2>3, <3>1
           DEF ApplyFailed, Goto, IInv, TypeOK, ExactlyOnce, InOrder, Passed
      <3>2. CASE at[r] \notin recorded /\ Commit(at[r])
        BY <2>3, <3>2, CommitStep DEF ApplyFailed
      <3> QED
        BY <2>3, <3>1, <3>2 DEF ApplyFailed
    <2> QED
      BY <1>2, <2>1, <2>2, <2>3 DEF Run
  <1>3. CASE Status
    BY <1>3 DEF Status, IInv, TypeOK, ExactlyOnce, InOrder, Passed
  <1> QED
    BY <1>1, <1>2, <1>3 DEF Next

LEMMA InvariantHolds == Spec => []IInv
  BY InitIInv, NextIInv, PTL DEF Spec

LEMMA DoneIsCurrent == IInv => DoneMeansCurrent
  <1> SUFFICES ASSUME IInv, NEW r \in Runners, pc[r] = "done", NEW v \in 1 .. upto[r]
               PROVE  v \in recorded
    BY DEF DoneMeansCurrent
  <1>1. Passed(r) /\ at[r] > upto[r]
    BY DEF IInv, Passed
  <1>2. v \in Versions /\ v < at[r]
    BY <1>1, LastAssumption DEF Versions, IInv, TypeOK
  <1> QED
    BY <1>1, <1>2 DEF Passed

\* Every migration takes effect exactly once, in version order, whatever the
\* runners do (cmd_up).
THEOREM MigrationsTakeEffectOnce == Spec => [](TypeOK /\ ExactlyOnce /\ InOrder)
  <1>1. IInv => TypeOK /\ ExactlyOnce /\ InOrder
    BY DEF IInv
  <1> QED
    BY <1>1, InvariantHolds, PTL

\* Exit code 0 of any runner means that no file of its commit is pending, which
\* is what lets the pipeline go on to roll the services.
THEOREM ExitZeroMeansCurrent == Spec => []DoneMeansCurrent
  BY DoneIsCurrent, InvariantHolds, PTL

-----------------------------------------------------------------------------
(***************************************************************************)
(* Fleet.                                                                  *)
(***************************************************************************)

Applied(c) == 1 .. Files[c] \subseteq recorded

\* A workflow waits for a task of its own, which has its commit's files; it
\* rolls services only when its own files are applied.
Gated(c) ==
  /\ IF job[c] = "migrating"
       THEN task[c] \in Runners /\ upto[task[c]] = Files[c]
       ELSE task[c] = NoRunner
  /\ \A d \in Commits \ {c} : task[c] \in Runners => task[d] # task[c]
  /\ job[c] = "rolling" => Applied(c)

FInv == /\ IInv
        /\ FleetTypeOK
        /\ \A c \in Commits : Gated(c)
        /\ MigratedBeforeRolled

LEMMA InitFInv == FleetInit => FInv
  <1> SUFFICES ASSUME FleetInit PROVE FInv
    OBVIOUS
  <1>1. IInv /\ TypeOK
    BY InitIInv DEF FleetInit, IInv
  <1>2. FleetTypeOK
    BY <1>1 DEF FleetInit, FleetTypeOK
  <1>3. (\A c \in Commits : Gated(c)) /\ MigratedBeforeRolled
    BY NoneAssumption DEF FleetInit, Gated, MigratedBeforeRolled, Live
  <1> QED
    BY <1>1, <1>2, <1>3 DEF FInv

\* What a step does to the migrators' part of the state.
LEMMA IsMigrationStep ==
  ASSUME FInv, [FleetNext]_fleetVars
  PROVE  [Next]_vars
  <1> USE FilesAssumption DEF FInv, FleetTypeOK
  <1>1. CASE UNCHANGED fleetVars
    BY <1>1 DEF fleetVars
  <1>2. ASSUME NEW r \in Runners, Migrator(r) PROVE Next
    <2>1. CASE revision # NoCommit /\ Start(r, Files[revision])
      BY <2>1 DEF Next
    <2> QED
      BY <1>2, <2>1 DEF Migrator, Next
  <1>3. ASSUME NEW c \in Commits, Workflow(c) PROVE [Next]_vars
    <2>1. CASE RunMigrator(c)
      <3>1. PICK r \in Runners : Start(r, Files[c])
        BY <2>1 DEF RunMigrator
      <3> QED
        BY <3>1 DEF Next
    <2> QED
      BY <1>3, <2>1 DEF Workflow, RegisterMigrator, Migrated, MigrateFailed, Roll,
                        Deployed, DeployFailed, RerunAll
  <1>4. ASSUME NEW s \in Services, Ecs(s) PROVE UNCHANGED vars
    BY <1>4 DEF Ecs, StartTask, StopTask, Complete, RollBack
  <1> QED
    BY <1>1, <1>2, <1>3, <1>4 DEF FleetNext, Next

\* The schema stays or gains one file; a task that has ended keeps its files.
LEMMA OneMore ==
  ASSUME IInv, [Next]_vars
  PROVE  recorded' = recorded \/ \E v \in Versions \ recorded : recorded' = recorded \cup {v}
  <1>1. CASE UNCHANGED vars
    BY <1>1 DEF vars
  <1>2. ASSUME NEW r \in Runners,
               (\E n \in 0 .. Last : Start(r, n)) \/ Run(r) \/ Killed(r),
               recorded' # recorded
        PROVE  \E v \in Versions \ recorded : recorded' = recorded \cup {v}
    <2>1. pc[r] = "apply" /\ at[r] \notin recorded /\ Commit(at[r])
      BY <1>2 DEF Start, Run, Killed, EnsureTracker, Skip, Pending, Apply,
                  ApplyFailed, Done
    <2>2. at[r] \in 1 .. Last + 1 /\ upto[r] \in 0 .. Last /\ at[r] <= upto[r]
      BY <2>1 DEF IInv, TypeOK, Passed
    <2>3. at[r] \in Versions
      BY <2>2, LastAssumption DEF Versions
    <2> QED
      BY <2>1, <2>3 DEF Commit
  <1>3. CASE Status
    BY <1>3 DEF Status
  <1> QED
    BY <1>1, <1>2, <1>3 DEF Next

LEMMA AppliedStays ==
  ASSUME FInv, [FleetNext]_fleetVars, NEW c \in Commits, Applied(c)
  PROVE  Applied(c)'
  <1>1. recorded \subseteq recorded'
    BY IsMigrationStep, OneMore DEF FInv
  <1> QED
    BY <1>1 DEF Applied

LEMMA TypeStep ==
  ASSUME FInv, [FleetNext]_fleetVars
  PROVE  FleetTypeOK'
  <1>1. IInv' /\ TypeOK'
    BY IsMigrationStep, NextIInv DEF FInv, IInv
  <1> USE DEF FInv, FleetTypeOK
  <1>2. CASE UNCHANGED fleetVars
    BY <1>1, <1>2 DEF fleetVars, fleet
  <1>3. ASSUME NEW r \in Runners, Migrator(r) PROVE FleetTypeOK'
    BY <1>1, <1>3 DEF Migrator, fleet
  <1>4. ASSUME NEW c \in Commits, Workflow(c) PROVE FleetTypeOK'
    <2>1. CASE RegisterMigrator(c)
      BY <1>1, <2>1 DEF RegisterMigrator, Step
    <2>2. CASE RunMigrator(c)
      BY <1>1, <2>2 DEF RunMigrator, Step
    <2>3. CASE Migrated(c)
      BY <1>1, <2>3 DEF Migrated, Step
    <2>4. CASE MigrateFailed(c)
      BY <1>1, <2>4 DEF MigrateFailed, Step
    <2>5. ASSUME NEW s \in Services, Roll(c, s) PROVE FleetTypeOK'
      BY <1>1, <2>5 DEF Roll
    <2>6. CASE Deployed(c)
      BY <1>1, <2>6 DEF Deployed, Step
    <2>7. CASE DeployFailed(c)
      BY <1>1, <2>7 DEF DeployFailed
    <2>8. CASE RerunAll(c)
      BY <1>1, <2>8 DEF RerunAll, Step
    <2> QED
      BY <1>4, <2>1, <2>2, <2>3, <2>4, <2>5, <2>6, <2>7, <2>8 DEF Workflow
  <1>5. ASSUME NEW s \in Services, Ecs(s) PROVE FleetTypeOK'
    <2>1. CASE StartTask(s)
      BY <1>1, <2>1 DEF StartTask
    <2>2. CASE StopTask(s)
      BY <1>1, <2>2 DEF StopTask
    <2>3. CASE Complete(s)
      BY <1>1, <2>3 DEF Complete
    <2>4. CASE RollBack(s)
      BY <1>1, <2>4 DEF RollBack
    <2> QED
      BY <1>5, <2>1, <2>2, <2>3, <2>4 DEF Ecs
  <1>6. CASE UNCHANGED fleet
    BY <1>1, <1>6 DEF fleet
  <1> QED
    BY <1>2, <1>3, <1>4, <1>5, <1>6 DEF FleetNext

\* A task somebody waits for keeps the files it was started with.
LEMMA UptoStays ==
  ASSUME FInv, [FleetNext]_fleetVars,
         NEW c \in Commits, job[c] = "migrating"
  PROVE  upto'[task[c]] = upto[task[c]]
  <1> USE DEF FInv, FleetTypeOK, IInv, TypeOK
  <1>0. task[c] \in Runners
    BY DEF Gated
  <1>1. CASE UNCHANGED fleetVars
    BY <1>1 DEF fleetVars, vars
  <1>2. ASSUME NEW r \in Runners, Migrator(r) PROVE upto'[task[c]] = upto[task[c]]
    <2>1. CASE Unawaited(r) /\ Start(r, Files[revision])
      <3>1. task[c] # r
        BY <2>1 DEF Unawaited
      <3> QED
        BY <2>1, <3>1, <1>0 DEF Start
    <2>2. CASE Run(r) \/ Killed(r)
      BY <2>2 DEF Run, Killed, EnsureTracker, Skip, Pending, Apply, ApplyFailed, Done
    <2> QED
      BY <1>2, <2>1, <2>2 DEF Migrator
  <1>3. ASSUME NEW d \in Commits, Workflow(d) PROVE upto'[task[c]] = upto[task[c]]
    <2>1. CASE RunMigrator(d)
      <3>1. PICK r \in Runners : Unawaited(r) /\ Start(r, Files[d])
        BY <2>1 DEF RunMigrator
      <3>2. task[c] # r
        BY <3>1 DEF Unawaited
      <3> QED
        BY <3>1, <3>2, <1>0 DEF Start
    <2> QED
      BY <1>3, <2>1 DEF Workflow, RegisterMigrator, Migrated, MigrateFailed, Roll,
                        Deployed, DeployFailed, RerunAll, vars
  <1>4. ASSUME NEW s \in Services, Ecs(s) PROVE upto'[task[c]] = upto[task[c]]
    BY <1>4 DEF Ecs, StartTask, StopTask, Complete, RollBack, vars
  <1>5. CASE Status
    BY <1>5 DEF Status
  <1> QED
    BY <1>1, <1>2, <1>3, <1>4, <1>5 DEF FleetNext

\* Steps that leave a workflow where it is keep what it knows.
LEMMA GatedStays ==
  ASSUME FInv, [FleetNext]_fleetVars, NEW c \in Commits, UNCHANGED <<job[c], task>>
  PROVE  Gated(c)'
  <1>1. Gated(c)
    BY DEF FInv
  <1>2. job[c] = "rolling" => Applied(c)'
    BY <1>1, AppliedStays DEF Gated
  <1>3. job[c] = "migrating" => upto'[task[c]] = upto[task[c]]
    BY UptoStays
  <1> QED
    BY <1>1, <1>2, <1>3 DEF Gated

LEMMA GatedStep ==
  ASSUME FInv, [FleetNext]_fleetVars, NEW c \in Commits
  PROVE  Gated(c)'
  <1> USE DEF FInv, FleetTypeOK
  <1>1. CASE UNCHANGED <<job[c], task>>
    BY <1>1, GatedStays
  <1>2. ASSUME NEW d \in Commits, Workflow(d) PROVE Gated(c)'
    <2>0. Gated(c) /\ Gated(d)
      OBVIOUS
    <2>1. CASE RegisterMigrator(d)
      <3>1. task' = task
        BY <2>1 DEF RegisterMigrator
      <3>2. CASE c = d
        BY <2>0, <2>1, <3>1, <3>2 DEF RegisterMigrator, Step, Gated
      <3> QED
        BY <2>1, <3>1, <3>2, GatedStays DEF RegisterMigrator, Step
    <2>2. CASE RunMigrator(d)
      <3>1. PICK r \in Runners : /\ Unawaited(r)
                                 /\ Start(r, Files[d])
                                 /\ task' = [task EXCEPT ![d] = r]
        BY <2>2 DEF RunMigrator
      <3>2. job' = [job EXCEPT ![d] = "migrating"] /\ job[d] = "registered"
        BY <2>2 DEF RunMigrator, Step
      <3>3. upto' = [upto EXCEPT ![r] = Files[d]] /\ UNCHANGED recorded
        BY <3>1 DEF Start
      <3>4. upto \in [Runners -> 0 .. Last]
        BY DEF TypeOK
      <3>5. CASE c = d
        BY <3>1, <3>2, <3>3, <3>4, <3>5 DEF Gated, Unawaited
      <3>6. CASE c # d
        BY <2>0, <3>1, <3>2, <3>3, <3>4, <3>6 DEF Gated, Unawaited, Applied
      <3> QED
        BY <3>5, <3>6
    <2>3. CASE Migrated(d)
      <3>1. /\ job' = [job EXCEPT ![d] = "rolling"] /\ job[d] = "migrating"
            /\ task' = [task EXCEPT ![d] = NoRunner]
            /\ UNCHANGED <<upto, recorded>>
        BY <2>3 DEF Migrated, Step, vars
      <3>2. Applied(d)
        <4>1. pc[task[d]] = "done" /\ task[d] \in Runners /\ upto[task[d]] = Files[d]
          BY <2>3, <3>1, <2>0 DEF Migrated, Gated
        <4> QED
          BY <4>1, DoneIsCurrent DEF DoneMeansCurrent, Applied
      <3> QED
        BY <2>0, <3>1, <3>2, NoneAssumption DEF Gated, Applied
    <2>4. CASE MigrateFailed(d)
      <3>1. /\ job' = [job EXCEPT ![d] = "built"]
            /\ task' = [task EXCEPT ![d] = NoRunner]
            /\ UNCHANGED <<upto, recorded>>
        BY <2>4 DEF MigrateFailed, Step, vars
      <3> QED
        BY <2>0, <3>1, NoneAssumption DEF Gated, Applied
    <2>5. CASE Deployed(d) \/ RerunAll(d)
      <3>1. /\ task' = task
            /\ \E l \in {"deployed", "built"} : job' = [job EXCEPT ![d] = l]
            /\ job[d] # "migrating"
            /\ UNCHANGED <<upto, recorded>>
        BY <2>5 DEF Deployed, RerunAll, Step, vars
      <3> QED
        BY <2>0, <3>1 DEF Gated, Applied
    <2>6. CASE DeployFailed(d) \/ \E s \in Services : Roll(d, s)
      BY <1>1, <2>6 DEF DeployFailed, Roll
    <2> QED
      BY <1>2, <2>1, <2>2, <2>3, <2>4, <2>5, <2>6 DEF Workflow
  <1>3. ASSUME NEW s \in Services, Ecs(s) PROVE UNCHANGED <<job[c], task>>
    BY <1>3 DEF Ecs, StartTask, StopTask, Complete, RollBack
  <1>4. ASSUME NEW r \in Runners, Migrator(r) PROVE UNCHANGED <<job[c], task>>
    BY <1>4 DEF Migrator, fleet
  <1>5. CASE UNCHANGED fleet
    BY <1>5, <1>1 DEF fleet
  <1> QED
    BY <1>1, <1>2, <1>3, <1>4, <1>5 DEF FleetNext, fleetVars

\* How a step may change what a service runs: not at all, to commits it already
\* had, or by a roll, whose commit is applied.
LEMMA LiveStep ==
  ASSUME FInv, [FleetNext]_fleetVars
  PROVE  \/ \A s \in Services : Live(s)' = Live(s)
         \/ /\ recorded' = recorded
            /\ \E s \in Services :
                 /\ \A x \in Services \ {s} : Live(x)' = Live(x)
                 /\ \A c \in Live(s)' \ Live(s) : Applied(c)
  <1> USE DEF FInv, FleetTypeOK
  <1>1. CASE UNCHANGED <<primary, stable, running>>
    BY <1>1 DEF Live
  <1>2. ASSUME NEW c \in Commits, NEW s \in Services, Roll(c, s)
        PROVE  /\ recorded' = recorded
               /\ \A x \in Services \ {s} : Live(x)' = Live(x)
               /\ \A d \in Live(s)' \ Live(s) : Applied(d)
    <2>1. /\ primary' = [primary EXCEPT ![s] = c]
          /\ UNCHANGED <<stable, running, recorded>>
      BY <1>2 DEF Roll, vars
    <2>2. Applied(c)
      BY <1>2 DEF Roll, Gated
    <2> QED
      BY <2>1, <2>2 DEF Live
  <1>3. ASSUME NEW s \in Services, Ecs(s)
        PROVE  /\ recorded' = recorded
               /\ \A x \in Services \ {s} : Live(x)' = Live(x)
               /\ Live(s)' \subseteq Live(s)
    <2>1. CASE StartTask(s)
      BY <2>1 DEF StartTask, Live, vars
    <2>2. CASE StopTask(s)
      BY <2>2 DEF StopTask, Live, vars
    <2>3. CASE Complete(s)
      BY <2>3 DEF Complete, Live, vars
    <2>4. CASE RollBack(s)
      BY <2>4 DEF RollBack, Live, vars
    <2> QED
      BY <1>3, <2>1, <2>2, <2>3, <2>4 DEF Ecs
  <1>4. ASSUME NEW c \in Commits, Workflow(c)
        PROVE  UNCHANGED <<primary, stable, running>> \/ \E s \in Services : Roll(c, s)
    BY <1>4 DEF Workflow, RegisterMigrator, RunMigrator, Migrated, MigrateFailed,
                Deployed, DeployFailed, RerunAll
  <1>5. ASSUME NEW r \in Runners, Migrator(r) PROVE UNCHANGED <<primary, stable, running>>
    BY <1>5 DEF Migrator, fleet
  <1>6. CASE UNCHANGED fleet
    BY <1>1, <1>6 DEF fleet
  <1> QED
    BY <1>1, <1>2, <1>3, <1>4, <1>5, <1>6 DEF FleetNext, fleetVars

LEMMA NextFInv == FInv /\ [FleetNext]_fleetVars => FInv'
  <1> SUFFICES ASSUME FInv, [FleetNext]_fleetVars PROVE FInv'
    OBVIOUS
  <1>1. IInv'
    BY IsMigrationStep, NextIInv DEF FInv
  <1>2. MigratedBeforeRolled'
    <2> SUFFICES ASSUME NEW s \in Services, NEW c \in Live(s)' PROVE Applied(c)'
      BY DEF MigratedBeforeRolled, Applied
    <2>1. c \in Commits
      BY TypeStep DEF FleetTypeOK, Live
    <2>2. CASE c \in Live(s)
      BY <2>1, <2>2, AppliedStays DEF FInv, MigratedBeforeRolled, Applied
    <2>3. CASE c \notin Live(s)
      BY <2>1, <2>3, LiveStep DEF Applied
    <2> QED
      BY <2>2, <2>3
  <1> QED
    BY <1>1, <1>2, TypeStep, GatedStep DEF FInv

LEMMA FInvHolds == FleetSpec => []FInv
  BY InitFInv, NextFInv, PTL DEF FleetSpec

\* The types of the workflows', the services' and the migrators' state.
THEOREM FleetTypeCorrect == FleetSpec => []FleetTypeOK
  <1>1. FInv => FleetTypeOK
    BY DEF FInv
  <1> QED
    BY <1>1, FInvHolds, PTL

\* No service runs, or is ever rolled back to, a commit with a migration that is
\* not applied (deploy.yml, jobs `migrate` and `deploy`).
THEOREM MigrationsComeFirst == FleetSpec => []MigratedBeforeRolled
  <1>1. FInv => MigratedBeforeRolled
    BY DEF FInv
  <1> QED
    BY <1>1, FInvHolds, PTL

\* Whatever the fleet does, each migration takes effect once and in order, and
\* exit code 0 means that a migrator's commit has all of its own.
THEOREM FleetMigrates == FleetSpec => [](ExactlyOnce /\ InOrder /\ DoneMeansCurrent)
  <1>1. FInv => ExactlyOnce /\ InOrder /\ DoneMeansCurrent
    BY DoneIsCurrent DEF FInv, IInv
  <1> QED
    BY <1>1, FInvHolds, PTL

\* Whatever starts and stops them, what the migrators do is a behaviour of
\* migrate.sh alone: the pipeline adds no step to it, and takes no promise away.
THEOREM FleetRunsMigrations == FleetSpec => Spec
  <1>1. FleetInit => Init
    BY DEF FleetInit
  <1>2. FInv /\ [FleetNext]_fleetVars => [Next]_vars
    BY IsMigrationStep
  <1> QED
    BY <1>1, <1>2, FInvHolds, PTL DEF FleetSpec, Spec

-----------------------------------------------------------------------------
(***************************************************************************)
(* Refinement.                                                             *)
(***************************************************************************)

\* The number of applied files: at least those of any commit that has all of
\* its own applied, and one more after each commit of a migration.
LEMMA Counting ==
  ASSUME FInv
  PROVE  /\ IsFiniteSet(recorded)
         /\ Cardinality(recorded) \in Nat
         /\ \A c \in Commits : Applied(c) => Files[c] <= Cardinality(recorded)
         /\ \A v \in Versions \ recorded :
              /\ Cardinality(recorded \cup {v}) = Cardinality(recorded) + 1
              /\ Cardinality(recorded) < Last
  <1>1. IsFiniteSet(Versions) /\ Cardinality(Versions) = Last
    BY LastAssumption, FS_Interval DEF Versions
  <1>2. recorded \subseteq Versions
    BY DEF FInv, IInv, TypeOK
  <1>3. IsFiniteSet(recorded) /\ Cardinality(recorded) \in Nat
    BY <1>1, <1>2, FS_Subset, FS_CardinalityType
  <1>4. ASSUME NEW c \in Commits, Applied(c) PROVE Files[c] <= Cardinality(recorded)
    <2>1. Files[c] \in Nat
      BY FilesAssumption, LastAssumption
    <2>2. Cardinality(1 .. Files[c]) = Files[c]
      BY <2>1, FS_Interval
    <2> QED
      BY <1>3, <1>4, <2>2, FS_Subset DEF Applied
  <1>5. ASSUME NEW v \in Versions \ recorded
        PROVE  /\ Cardinality(recorded \cup {v}) = Cardinality(recorded) + 1
               /\ Cardinality(recorded) < Last
    <2>1. Cardinality(recorded \cup {v}) = Cardinality(recorded) + 1
      BY <1>3, FS_AddElement
    <2>2. Cardinality(recorded \cup {v}) <= Last
      BY <1>1, <1>2, FS_Subset
    <2> QED
      BY <2>1, <2>2, <1>3, LastAssumption
  <1> QED
    BY <1>3, <1>4, <1>5

\* The pipeline implements Release: overlapping, failing and repeated workflows
\* look like one schema that advances by single migrations, and services that
\* take up a commit only behind it.
THEOREM ImplementsRelease == FleetSpec => ReleaseSpec
  <1>1. FleetInit => R!Init
    <2> SUFFICES ASSUME FleetInit PROVE R!Init
      OBVIOUS
    <2>1. Cardinality(recorded) = 0
      BY FS_EmptySet DEF FleetInit, Init
    <2>2. \A s \in Services : Live(s) = {}
      BY DEF FleetInit, Live
    <2> QED
      BY <2>1, <2>2 DEF R!Init
  <1>2. FInv /\ [FleetNext]_fleetVars => [R!Next]_(R!vars)
    <2> SUFFICES ASSUME FInv, [FleetNext]_fleetVars PROVE [R!Next]_(R!vars)
      OBVIOUS
    <2> DEFINE live == [s \in Services |-> Live(s)]
    <2>1. CASE \A s \in Services : Live(s)' = Live(s)
      <3>1. live' = live
        BY <2>1
      <3>2. CASE recorded' = recorded
        BY <3>1, <3>2 DEF R!vars
      <3>3. CASE \E v \in Versions \ recorded : recorded' = recorded \cup {v}
        BY <3>1, <3>3, Counting DEF R!Next, R!Migrate
      <3> QED
        BY <3>2, <3>3, IsMigrationStep, OneMore DEF FInv
    <2>2. ASSUME recorded' = recorded,
                 NEW s \in Services,
                 \A x \in Services \ {s} : Live(x)' = Live(x),
                 \A c \in Live(s)' \ Live(s) : Applied(c)
          PROVE  R!Next
      <3>1. live' = [live EXCEPT ![s] = Live(s)']
        BY <2>2
      <3>2. Live(s)' \in SUBSET Commits
        BY TypeStep DEF FleetTypeOK, Live
      <3>3. \A c \in Live(s)' \ live[s] : Files[c] <= Cardinality(recorded)
        BY <2>2, <3>2, Counting
      <3>4. R!Change(s, Live(s)')
        BY <2>2, <3>1, <3>3 DEF R!Change
      <3> QED
        BY <3>2, <3>4 DEF R!Next
    <2> QED
      BY <2>1, <2>2, LiveStep
  <1> QED
    BY <1>1, <1>2, FInvHolds, PTL DEF FleetSpec, ReleaseSpec, R!Spec
=============================================================================
