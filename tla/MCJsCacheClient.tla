--------------------------- MODULE MCJsCacheClient ---------------------------
(* JsCacheClient on small instances: callers and client objects are each *)
(* interchangeable.                                                      *)
EXTENDS JsCacheClient, TLC

Symmetry == Permutations(Ops) \cup Permutations(Clients)
=============================================================================
