------------------------------- MODULE MCFleet -------------------------------
(* Fleet on small instances; the services are interchangeable. *)
EXTENDS Fleet, TLC

CONSTANTS older, newer

\* The newer commit has all files, the older one all but the last.
MCFiles == older :> Last - 1 @@ newer :> Last

Symmetry == Permutations(Services) \cup Permutations(Runners)
=============================================================================
