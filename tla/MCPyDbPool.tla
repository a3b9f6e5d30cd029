------------------------------ MODULE MCPyDbPool ------------------------------
(* PyDbPool on small instances: threads and pools are each interchangeable. *)
EXTENDS PyDbPool, TLC

Symmetry == Permutations(Threads) \cup Permutations(Pools)
=============================================================================
