---------------------------- MODULE MCCacheAside ----------------------------
(***************************************************************************)
(* CacheAside on small instances.  Workers and rows are interchangeable in *)
(* every action and state property, so both are symmetric in the runs that *)
(* check no liveness.                                                      *)
(***************************************************************************)
EXTENDS CacheAside, TLC

Symmetry == Permutations(Workers) \cup Permutations(Ids)

(***************************************************************************)
(* Days on which nothing goes wrong: every SET and DEL is executed at      *)
(* once, no database call fails, no worker dies, and Redis keeps its keys. *)
(***************************************************************************)
SentAtOnce(w) ==
  /\ pc[w] = "fill" => cache' = Apply(Command(w, "SET", req[w].key, reply[w].body))
  /\ pc[w] = "invalidate" => cache' = Apply(Command(w, "DEL", AllKey, {}))

\* Bound: no create arrives that would find every row of the instance taken.
Room == Cardinality(rows) + Cardinality({w \in Workers : pc[w] = "insert"})
          < Cardinality(Ids)

CalmNext ==
  \E w \in Workers :
    \/ StartRead(w)
    \/ StartCreate(w) /\ Room
    \/ CacheHit(w)
    \/ CacheMiss(w) /\ req[w].key \notin DOMAIN cache
    \/ QueryFound(w) \/ QueryNotFound(w)
    \/ Inserted(w)
    \/ (Fill(w) \/ Invalidate(w)) /\ SentAtOnce(w)
    \/ Respond(w)

CalmSpec == CInit /\ [][CalmNext]_vars
=============================================================================
