-------------------------------- MODULE Release --------------------------------
(***************************************************************************)
(* What the deploy pipeline promises (CHANGELOG.md:93-96): the schema      *)
(* advances one migration at a time, and a commit comes into service only  *)
(* once the schema has all of its migrations.                              *)
(***************************************************************************)
EXTENDS Naturals

CONSTANTS
  Commits,    \* commits of the main branch
  Services,   \* the ECS services, one per language
  Last,       \* number of migrations there are
  Files       \* Files[c]: the last migration of commit c

VARIABLES
  schema,     \* number of migrations applied
  live        \* live[s]: commits whose image service s runs, or may start

vars == <<schema, live>>

Init == /\ schema = 0
        /\ live = [s \in Services |-> {}]

Migrate == /\ schema < Last
           /\ schema' = schema + 1
           /\ UNCHANGED live

\* A service is given to some commits and taken from others.
Change(s, L) == /\ \A c \in L \ live[s] : Files[c] <= schema
                /\ live' = [live EXCEPT ![s] = L]
                /\ UNCHANGED schema

Next == Migrate \/ \E s \in Services, L \in SUBSET Commits : Change(s, L)

Spec == Init /\ [][Next]_vars
=============================================================================
