--------------------------------- MODULE Fleet ---------------------------------
(***************************************************************************)
(* The deploy workflow of every push to main (.github/workflows/deploy.yml,*)
(* jobs `migrate` and `deploy`) over the ECS services it rolls.  Nothing   *)
(* orders the workflows of two pushes, a workflow may be rerun after a     *)
(* failure, and ECS rolls a service back by itself (the circuit breaker of *)
(* terraform/modules/ecs/main.tf).  The migrator tasks are the runners of  *)
(* Migrations; an operator may start one too (README.md, Deploying).       *)
(*                                                                         *)
(* A commit stands for its images.  The images the services had before     *)
(* the first workflow are NoCommit: the pipeline does not gate them.       *)
(***************************************************************************)
EXTENDS Migrations, FiniteSets

CONSTANTS Commits, Services,
          Files,      \* Files[c]: the last migration file of commit c
          NoCommit, NoRunner

ASSUME FilesAssumption == Files \in [Commits -> 0 .. Last]
ASSUME NoneAssumption == NoCommit \notin Commits /\ NoRunner \notin Runners

VARIABLES
  job,        \* job[c]: how far the workflow of c is
  revision,   \* the commit in the newest revision of the migrator's family
  task,       \* task[c]: the migrator task the workflow waits for
  left,       \* left[c]: the services the deploy job has still to update
  primary,    \* primary[s]: the commit service s is to run
  stable,     \* stable[s]: the commit of its last completed deployment
  running     \* running[s]: the commits its tasks run

fleet == <<job, revision, task, left, primary, stable, running>>
fleetVars == <<vars, fleet>>

Step(c, from, to) == job[c] = from /\ job' = [job EXCEPT ![c] = to]

\* A task nobody waits for can stand for a new one.
Unawaited(r) == \A c \in Commits : task[c] # r

-----------------------------------------------------------------------------
FleetInit == /\ Init
             /\ job = [c \in Commits |-> "built"]
             /\ revision = NoCommit
             /\ task = [c \in Commits |-> NoRunner]
             /\ left = [c \in Commits |-> {}]
             /\ primary = [s \in Services |-> NoCommit]
             /\ stable = primary
             /\ running = [s \in Services |-> {NoCommit}]

(***************************************************************************)
(* Job `migrate`.                                                          *)
(***************************************************************************)

\* The image is pushed; a new revision of the migrator's family names it.
RegisterMigrator(c) ==
  /\ Step(c, "built", "registered")
  /\ revision' = c
  /\ UNCHANGED <<vars, task, left, primary, stable, running>>

\* Mutant: run-task is given the family, which is its newest revision.
RunNewestMigrator(c) ==
  /\ Step(c, "registered", "migrating")
  /\ \E r \in Runners : /\ Unawaited(r)
                        /\ Start(r, Files[revision])
                        /\ task' = [task EXCEPT ![c] = r]
  /\ UNCHANGED <<revision, left, primary, stable, running>>

\* run-task is given the revision registered above.
RunMigrator(c) ==
  /\ Step(c, "registered", "migrating")
  /\ \E r \in Runners : /\ Unawaited(r)
                        /\ Start(r, Files[c])
                        /\ task' = [task EXCEPT ![c] = r]
  /\ UNCHANGED <<revision, left, primary, stable, running>>

\* Mutant: the exit code is not looked at.
MigratedAnyhow(c) ==
  /\ Step(c, "migrating", "rolling")
  /\ pc[task[c]] \in {"done", "stopped"}
  /\ task' = [task EXCEPT ![c] = NoRunner]
  /\ left' = [left EXCEPT ![c] = Services]
  /\ UNCHANGED <<vars, revision, primary, stable, running>>

\* The task stopped with exit code 0: the deploy job may start.
Migrated(c) ==
  /\ Step(c, "migrating", "rolling")
  /\ pc[task[c]] = "done"
  /\ task' = [task EXCEPT ![c] = NoRunner]
  /\ left' = [left EXCEPT ![c] = Services]
  /\ UNCHANGED <<vars, revision, primary, stable, running>>

\* Any other exit code, no exit code, an aws call that fails, or
\* `wait tasks-stopped` giving up while the task goes on.
MigrateFailed(c) ==
  /\ \E from \in {"registered", "migrating"} : Step(c, from, "built")
  /\ task' = [task EXCEPT ![c] = NoRunner]
  /\ UNCHANGED <<vars, revision, left, primary, stable, running>>

(***************************************************************************)
(* Job `deploy`.                                                           *)
(***************************************************************************)

\* describe, register and update-service for one language: its service is told
\* to run c, whatever it was doing.
Roll(c, s) ==
  /\ job[c] = "rolling"
  /\ s \in left[c]
  /\ left' = [left EXCEPT ![c] = @ \ {s}]
  /\ primary' = [primary EXCEPT ![s] = c]
  /\ UNCHANGED <<vars, job, revision, task, stable, running>>

IsStable(s) == stable[s] = primary[s] /\ running[s] = {primary[s]}

\* `wait services-stable` has seen every service stable, on c or not.
Deployed(c) ==
  /\ left[c] = {}
  /\ \A s \in Services : IsStable(s)
  /\ Step(c, "rolling", "deployed")
  /\ UNCHANGED <<vars, revision, task, left, primary, stable, running>>

\* An aws call fails or the wait gives up; a rerun repeats the job from its
\* start, and not the migrate job, which had passed.
DeployFailed(c) ==
  /\ job[c] = "rolling"
  /\ left' = [left EXCEPT ![c] = Services]
  /\ UNCHANGED <<vars, job, revision, task, primary, stable, running>>

\* "Re-run all jobs" of a workflow that is over.
RerunAll(c) ==
  /\ \E from \in {"rolling", "deployed"} : Step(c, from, "built")
  /\ left' = [left EXCEPT ![c] = {}]
  /\ UNCHANGED <<vars, revision, task, primary, stable, running>>

(***************************************************************************)
(* ECS, for one service.                                                   *)
(***************************************************************************)

\* A task starts: one of the deployment's, or one in place of a task of the
\* last completed deployment, which is kept up until the new one completes.
StartTask(s) ==
  /\ \E c \in {primary[s], stable[s]} : running' = [running EXCEPT ![s] = @ \cup {c}]
  /\ UNCHANGED <<vars, job, revision, task, left, primary, stable>>

\* The last task of a commit is gone: drained, unhealthy or killed.
StopTask(s) ==
  /\ \E c \in running[s] : running' = [running EXCEPT ![s] = @ \ {c}]
  /\ UNCHANGED <<vars, job, revision, task, left, primary, stable>>

\* Only the deployment's tasks are left: it is complete.
Complete(s) ==
  /\ running[s] = {primary[s]}
  /\ stable' = [stable EXCEPT ![s] = primary[s]]
  /\ UNCHANGED <<vars, job, revision, task, left, primary, running>>

\* Mutant: the breaker goes back to the newest commit ever registered.
RollForward(s) ==
  /\ primary[s] # stable[s]
  /\ primary' = [primary EXCEPT ![s] = revision]
  /\ UNCHANGED <<vars, job, revision, task, left, stable, running>>

\* The circuit breaker rolls back to the last completed deployment.
RollBack(s) ==
  /\ primary[s] # stable[s]
  /\ primary' = [primary EXCEPT ![s] = stable[s]]
  /\ UNCHANGED <<vars, job, revision, task, left, stable, running>>

-----------------------------------------------------------------------------
\* The tasks run by themselves; an operator starts the newest revision.
Migrator(r) ==
  /\ \/ Run(r) \/ Killed(r)
     \/ Unawaited(r) /\ revision # NoCommit /\ Start(r, Files[revision])
  /\ UNCHANGED fleet

Workflow(c) == \/ RegisterMigrator(c) \/ RunMigrator(c) \/ Migrated(c)
               \/ MigrateFailed(c)
               \/ (\E s \in Services : Roll(c, s))
               \/ Deployed(c) \/ DeployFailed(c) \/ RerunAll(c)

Ecs(s) == StartTask(s) \/ StopTask(s) \/ Complete(s) \/ RollBack(s)

FleetNext == \/ \E r \in Runners : Migrator(r)
             \/ \E c \in Commits : Workflow(c)
             \/ \E s \in Services : Ecs(s)
             \/ Status /\ UNCHANGED fleet

FleetSpec == FleetInit /\ [][FleetNext]_fleetVars

-----------------------------------------------------------------------------
FleetTypeOK ==
  /\ TypeOK
  /\ job \in [Commits -> {"built", "registered", "migrating", "rolling", "deployed"}]
  /\ revision \in Commits \cup {NoCommit}
  /\ task \in [Commits -> Runners \cup {NoRunner}]
  /\ left \in [Commits -> SUBSET Services]
  /\ primary \in [Services -> Commits \cup {NoCommit}]
  /\ stable \in [Services -> Commits \cup {NoCommit}]
  /\ running \in [Services -> SUBSET (Commits \cup {NoCommit})]

\* The commits a service runs, or may be made to run by ECS alone.
Live(s) == (running[s] \cup {primary[s], stable[s]}) \ {NoCommit}

\* "A schema-changing release cannot roll services until the schema is applied"
\* (CHANGELOG.md:95-96): no service runs, or can be rolled back to, a commit with
\* a migration that is not applied, however the workflows of several commits
\* overlap, fail, time out and are rerun.
MigratedBeforeRolled ==
  \A s \in Services : \A c \in Live(s) : 1 .. Files[c] \subseteq recorded

\* The pipeline implements Release: the migrators of all workflows together
\* advance one schema, and Live changes as Release allows.
R == INSTANCE Release WITH schema <- Cardinality(recorded),
                           live <- [s \in Services |-> Live(s)]
ReleaseSpec == R!Spec
=============================================================================
