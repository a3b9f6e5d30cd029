-------------------------------- MODULE MCGate --------------------------------
(* Gate on small instances; tasks, callers, keys and secrets are interchangeable. *)
EXTENDS Gate, TLC

Symmetry == Permutations(Tasks) \cup Permutations(Callers)
            \cup Permutations(Keys) \cup Permutations(JwtSecrets)
=============================================================================
