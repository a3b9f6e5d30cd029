---------------------------- MODULE ListStaleness ----------------------------
(***************************************************************************)
(* How old the list served from Redis can be.  CacheAside says that it is  *)
(* a snapshot the table once had; this module adds time to the part of it  *)
(* that concerns the key `data:all`: commits, the DELs that follow them,   *)
(* the fills of the list handlers, and the TTL.                            *)
(*                                                                         *)
(* Rows are numbered in the order of their commits, so that a snapshot is  *)
(* the number of rows it holds.  Time is discrete.                         *)
(***************************************************************************)
EXTENDS Integers

CONSTANTS
  Readers,    \* list handlers, and SETs their client gave up on
  MaxRows,    \* bound: rows committed
  TTL,        \* CACHE_TTL_SECONDS, in ticks
  MaxLag      \* longest time from the snapshot of a SELECT to the execution of its SET

\* The TTL is positive in every client (the C client turns any other value into 30).
ASSUME StalenessAssumption ==
  MaxRows \in Nat /\ TTL \in Nat \ {0} /\ MaxLag \in Nat

VARIABLES
  n,          \* rows committed
  age,        \* age[j]: time since the commit of row j, up to Horizon
  due,        \* rows whose DEL has yet to be executed or lost
  cached,     \* snapshot under the list key
  left,       \* its TTL; 0 when the key is absent
  snap,       \* snapshot each reader's SELECT saw; -1 when it is not filling
  lag,        \* time since
  missed      \* history: age of the oldest row the last list served lacked, or 0

vars == <<n, age, due, cached, left, snap, lag, missed>>

Rows == 1..MaxRows
Horizon == MaxLag + TTL + 1
Older(t) == IF t < Horizon THEN t + 1 ELSE Horizon

Init == /\ n = 0
        /\ age = [j \in Rows |-> 0]
        /\ due = {}
        /\ cached = 0
        /\ left = 0
        /\ snap = [r \in Readers |-> -1]
        /\ lag = [r \in Readers |-> 0]
        /\ missed = 0

Insert == /\ n < MaxRows
          /\ n' = n + 1
          /\ due' = due \cup {n + 1}
          /\ UNCHANGED <<age, cached, left, snap, lag, missed>>

Deleted(j) == /\ j \in due
              /\ due' = due \ {j}
              /\ left' = 0
              /\ UNCHANGED <<n, age, cached, snap, lag, missed>>

DeleteLost(j) == /\ j \in due
                 /\ due' = due \ {j}
                 /\ UNCHANGED <<n, age, cached, left, snap, lag, missed>>

Missed == missed' = IF cached < n THEN age[cached + 1] ELSE 0

\* Mutant: a hit gives the key a new lease.
HitRenewing == /\ left > 0
               /\ Missed
               /\ left' = TTL
               /\ UNCHANGED <<n, age, due, cached, snap, lag>>

\* GET found the list: it is served as it is.
Hit == /\ left > 0
       /\ Missed
       /\ UNCHANGED <<n, age, due, cached, left, snap, lag>>

\* GET found no list, or failed: the SELECT sees every row committed by now.
Select(r) == /\ snap[r] = -1
             /\ snap' = [snap EXCEPT ![r] = n]
             /\ lag' = [lag EXCEPT ![r] = 0]
             /\ UNCHANGED <<n, age, due, cached, left, missed>>

Done(r) == /\ snap' = [snap EXCEPT ![r] = -1]
           /\ lag' = [lag EXCEPT ![r] = 0]

Fill(r) == /\ snap[r] # -1
           /\ cached' = snap[r]
           /\ left' = TTL
           /\ Done(r)
           /\ UNCHANGED <<n, age, due, missed>>

FillLost(r) == /\ snap[r] # -1
               /\ Done(r)
               /\ UNCHANGED <<n, age, due, cached, left, missed>>

\* Mutant: a SET has no deadline.
TickWithoutDeadline ==
  /\ lag' = [r \in Readers |-> IF snap[r] # -1 THEN lag[r] + 1 ELSE 0]
  /\ age' = [j \in Rows |-> IF j <= n THEN Older(age[j]) ELSE 0]
  /\ left' = IF left > 0 THEN left - 1 ELSE 0
  /\ UNCHANGED <<n, due, cached, snap, missed>>

Tick == /\ \A r \in Readers : snap[r] # -1 => lag[r] < MaxLag
        /\ lag' = [r \in Readers |-> IF snap[r] # -1 THEN lag[r] + 1 ELSE 0]
        /\ age' = [j \in Rows |-> IF j <= n THEN Older(age[j]) ELSE 0]
        /\ left' = IF left > 0 THEN left - 1 ELSE 0
        /\ UNCHANGED <<n, due, cached, snap, missed>>

Next == \/ Insert
        \/ Hit
        \/ \E j \in Rows : Deleted(j) \/ DeleteLost(j)
        \/ \E r \in Readers : Select(r) \/ Fill(r) \/ FillLost(r)
        \/ Tick

Spec == Init /\ [][Next]_vars

-----------------------------------------------------------------------------
TypeOK == /\ n \in 0..MaxRows
          /\ age \in [Rows -> 0..Horizon]
          /\ due \in SUBSET Rows
          /\ cached \in 0..n
          /\ left \in 0..TTL
          /\ snap \in [Readers -> {-1} \cup 0..n]
          /\ lag \in [Readers -> 0..MaxLag]
          /\ missed \in 0..Horizon

\* A list answered from Redis lacks only rows committed less than TTL + MaxLag ago,
\* however many fills race, whatever DELs are lost: cache-aside on `data:all` with
\* an expiry that only a SET renews (the SET ... EX of the four cache clients).
BoundedStaleness == missed < TTL + MaxLag
=============================================================================
