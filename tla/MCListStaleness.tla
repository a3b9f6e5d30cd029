--------------------------- MODULE MCListStaleness ---------------------------
(* ListStaleness on small instances; the readers are interchangeable. *)
EXTENDS ListStaleness, TLC

Symmetry == Permutations(Readers)
=============================================================================
