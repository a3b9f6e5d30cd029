------------------------------ MODULE Migrations ------------------------------
(***************************************************************************)
(* `migrate.sh up` (db/migrate.sh), which the deploy pipeline and compose  *)
(* run to bring the schema up to date.  Nothing keeps two runners apart: a *)
(* retried CI job, the job of a second push and an operator's manual run   *)
(* may overlap, so every psql call is a step of its own.  The call that    *)
(* applies a file is one step, since `psql -1` makes it one transaction.   *)
(*                                                                         *)
(* The files are numbered 1..Last, in the order `sort` gives them.  Runners  *)
(* may come from different commits: a commit has the files up to some      *)
(* number, since later ones only add to db/migrations.                      *)
(***************************************************************************)
EXTENDS Naturals

CONSTANTS
  Runners,    \* processes running migrate.sh
  Last,       \* number of migration files
  MaxTimes    \* bound: how often `times` counts a file

ASSUME LastAssumption == Last \in Nat
ASSUME MaxTimesAssumption == MaxTimes \in Nat /\ MaxTimes >= 2

VARIABLES
  tracker,    \* the table schema_migrations exists
  recorded,   \* versions in schema_migrations
  times,      \* history: how many commits contained each file's statements
  pc,         \* where each runner is in cmd_up
  at,         \* the file each runner has reached
  upto        \* the last file of each runner's commit

vars == <<tracker, recorded, times, pc, at, upto>>

Versions == 1 .. Last
Goto(r, l) == pc' = [pc EXCEPT ![r] = l]
Advance(r) == at' = [at EXCEPT ![r] = @ + 1]

\* The statements of v are committed along with the row that records v.
Commit(v) ==
  /\ recorded' = recorded \cup {v}
  /\ times' = [times EXCEPT ![v] = IF @ < MaxTimes THEN @ + 1 ELSE @]

-----------------------------------------------------------------------------
Init == /\ tracker = FALSE
        /\ recorded = {}
        /\ times = [v \in Versions |-> 0]
        /\ pc = [r \in Runners |-> "stopped"]
        /\ at = [r \in Runners |-> 1]
        /\ upto = [r \in Runners |-> 0]

\* migrate.sh of a commit with n files
Start(r, n) == /\ pc[r] \in {"stopped", "done"}
               /\ Goto(r, "tracker")
               /\ at' = [at EXCEPT ![r] = 1]
               /\ upto' = [upto EXCEPT ![r] = n]
               /\ UNCHANGED <<tracker, recorded, times>>

\* CREATE TABLE IF NOT EXISTS schema_migrations
EnsureTracker(r) == /\ pc[r] = "tracker"
                    /\ tracker' = TRUE
                    /\ Goto(r, "check")
                    /\ UNCHANGED <<recorded, times, at, upto>>

\* is_applied counts one row: on to the next file.
Skip(r) == /\ pc[r] = "check"
           /\ at[r] <= upto[r]
           /\ at[r] \in recorded
           /\ Advance(r)
           /\ UNCHANGED <<tracker, recorded, times, pc, upto>>

\* Mutant: the loop runs one file too far.
PendingPastEnd(r) == /\ pc[r] = "check"
                     /\ at[r] <= upto[r] + 1
                     /\ Goto(r, "apply")
                     /\ UNCHANGED <<tracker, recorded, times, at, upto>>

\* is_applied counts no row, or its psql fails: `set -e` does not reach into
\* an `if`, so a failed count is taken for a pending file.
Pending(r) == /\ pc[r] = "check"
              /\ at[r] <= upto[r]
              /\ Goto(r, "apply")
              /\ UNCHANGED <<tracker, recorded, times, at, upto>>

\* Mutant: psql without -1 commits the file's statements on their own, before
\* the INSERT that finds the version taken.
ApplyInPieces(r) ==
  /\ pc[r] = "apply"
  /\ Commit(at[r])
  /\ IF at[r] \in recorded
       THEN Goto(r, "stopped") /\ UNCHANGED at
       ELSE Goto(r, "check") /\ Advance(r)
  /\ UNCHANGED <<tracker, upto>>

\* The transaction commits: the primary key lets its INSERT through only if
\* no other runner has recorded the version.
Apply(r) == /\ pc[r] = "apply"
            /\ at[r] \notin recorded
            /\ Commit(at[r])
            /\ Goto(r, "check")
            /\ Advance(r)
            /\ UNCHANGED <<tracker, upto>>

\* Mutant: a failing psql does not stop the script.
ApplyFailedGoesOn(r) == /\ pc[r] = "apply"
                        /\ Goto(r, "check")
                        /\ Advance(r)
                        /\ UNCHANGED <<tracker, recorded, times, upto>>

\* psql exits non-zero, which stops the script: a statement failed (the version
\* is taken, or a service is creating the same table) and all is rolled back, or
\* the connection broke, before the commit or just after it.
ApplyFailed(r) == /\ pc[r] = "apply"
                  /\ \/ UNCHANGED <<recorded, times>>
                     \/ at[r] \notin recorded /\ Commit(at[r])
                  /\ Goto(r, "stopped")
                  /\ UNCHANGED <<tracker, at, upto>>

\* Mutant: the loop leaves out the last file.
DoneTooEarly(r) == /\ pc[r] = "check"
                   /\ at[r] >= upto[r]
                   /\ Goto(r, "done")
                   /\ UNCHANGED <<tracker, recorded, times, at, upto>>

\* No file is left: exit 0.
Done(r) == /\ pc[r] = "check"
           /\ at[r] > upto[r]
           /\ Goto(r, "done")
           /\ UNCHANGED <<tracker, recorded, times, at, upto>>

\* The task is stopped, or the tracker table cannot be created; the server
\* rolls an open transaction back.
Killed(r) == /\ pc[r] \in {"tracker", "check", "apply"}
             /\ Goto(r, "stopped")
             /\ UNCHANGED <<tracker, recorded, times, at, upto>>

Run(r) == \/ EnsureTracker(r) \/ Skip(r) \/ Pending(r)
          \/ Apply(r) \/ ApplyFailed(r) \/ Done(r)

\* `migrate.sh status` only makes sure that the tracker is there.
Status == tracker' = TRUE /\ UNCHANGED <<recorded, times, pc, at, upto>>

Next == \/ \E r \in Runners : (\E n \in 0 .. Last : Start(r, n)) \/ Run(r) \/ Killed(r)
        \/ Status

Spec == Init /\ [][Next]_vars

-----------------------------------------------------------------------------
TypeOK == /\ tracker \in BOOLEAN
          /\ recorded \in SUBSET Versions
          /\ times \in [Versions -> 0 .. MaxTimes]
          /\ pc \in [Runners -> {"stopped", "tracker", "check", "apply", "done"}]
          /\ at \in [Runners -> 1 .. Last + 1]
          /\ upto \in [Runners -> 0 .. Last]

\* However runners overlap, fail, mistake a failed check for a pending file and
\* start over, the statements of a recorded migration were committed exactly
\* once and those of any other never (`psql -1`, the key of schema_migrations).
ExactlyOnce == \A v \in Versions : times[v] = IF v \in recorded THEN 1 ELSE 0

\* Migrations are applied in version order, with no gaps: each one finds the
\* schema its predecessors left.
InOrder == \A v \in recorded : 1 .. v \subseteq recorded

\* A runner that exits 0 leaves every file of its commit applied, whatever
\* runners of other commits do: the deploy job rolls the services after it,
\* relying on that (deploy.yml, job `migrate`).
DoneMeansCurrent ==
  \A r \in Runners : pc[r] = "done" => 1 .. upto[r] \subseteq recorded
=============================================================================
