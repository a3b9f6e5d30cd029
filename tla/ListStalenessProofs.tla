------------------------- MODULE ListStalenessProofs -------------------------
(***************************************************************************)
(* The bound on the age of a cached list, for every TTL, every bound on    *)
(* the time a fill takes, and any number of rows and readers.              *)
(***************************************************************************)
EXTENDS ListStaleness, TLAPS

(***************************************************************************)
(* A snapshot of k rows is as old as row k + 1.  What a fill carries has   *)
(* grown no older than the fill; what Redis holds, no older than the       *)
(* longest fill plus the part of the TTL that has passed.                  *)
(***************************************************************************)
AgeOf(k) == IF k < n THEN age[k + 1] ELSE 0

FillsYoung == \A r \in Readers : snap[r] # -1 => AgeOf(snap[r]) <= lag[r]
EntryYoung == left > 0 => AgeOf(cached) <= MaxLag + TTL - left
NotYetAged == \A j \in Rows : j > n => age[j] = 0

IInv == /\ TypeOK
        /\ NotYetAged
        /\ FillsYoung
        /\ EntryYoung
        /\ BoundedStaleness

-----------------------------------------------------------------------------
LEMMA InitInv == Init => IInv
BY StalenessAssumption
   DEF Init, IInv, TypeOK, NotYetAged, FillsYoung, EntryYoung, BoundedStaleness, AgeOf,
       Rows, Horizon

\* A new row has age 0, so it makes no snapshot older.
LEMMA InsertInv ==
  ASSUME IInv, Insert
  PROVE  IInv'
<1>1. \A k \in 0..n : AgeOf(k)' <= AgeOf(k)
  BY StalenessAssumption DEF Insert, AgeOf, IInv, TypeOK, NotYetAged, Rows, Horizon
<1>2. TypeOK' /\ NotYetAged' /\ BoundedStaleness'
  BY StalenessAssumption
     DEF Insert, IInv, TypeOK, NotYetAged, BoundedStaleness, Rows, Horizon
<1>3. \A k \in 0..n : AgeOf(k) \in 0..Horizon /\ AgeOf(k)' \in 0..Horizon
  BY <1>2, StalenessAssumption DEF Insert, AgeOf, IInv, TypeOK, Rows, Horizon
<1>4. FillsYoung'
  <2> SUFFICES ASSUME NEW r \in Readers, snap[r] # -1
               PROVE  AgeOf(snap[r])' <= lag[r]
    BY DEF Insert, FillsYoung, AgeOf
  <2>1. snap[r] \in 0..n /\ lag[r] \in 0..MaxLag /\ AgeOf(snap[r]) <= lag[r]
    BY DEF IInv, TypeOK, FillsYoung
  <2>2. AgeOf(snap[r])' = IF snap[r] < n' THEN age'[snap[r] + 1] ELSE 0
    BY DEF Insert, AgeOf
  <2>3. QED
    BY <1>1, <1>3, <2>1, <2>2, StalenessAssumption DEF Insert, AgeOf, Horizon
<1>5. EntryYoung'
  BY <1>1, <1>3, StalenessAssumption DEF Insert, AgeOf, IInv, TypeOK, EntryYoung, Horizon
<1>6. QED
  BY <1>2, <1>4, <1>5 DEF IInv

LEMMA RedisInv ==
  ASSUME IInv, Hit \/ \E j \in Rows : Deleted(j) \/ DeleteLost(j)
  PROVE  IInv'
<1>1. CASE Hit
  BY <1>1, StalenessAssumption
     DEF Hit, Missed, IInv, TypeOK, NotYetAged, FillsYoung, EntryYoung, BoundedStaleness,
         AgeOf, Rows, Horizon
<1>2. ASSUME NEW j \in Rows, Deleted(j) \/ DeleteLost(j)
      PROVE  IInv'
  <2>1. UNCHANGED <<n, age, cached, snap, lag, missed>> /\ left' \in {0, left}
        /\ due' \subseteq due
    BY <1>2 DEF Deleted, DeleteLost
  <2>2. TypeOK' /\ NotYetAged' /\ BoundedStaleness'
    BY <2>1, StalenessAssumption DEF IInv, TypeOK, NotYetAged, BoundedStaleness, Rows
  <2>3. FillsYoung'
    BY <2>1 DEF IInv, FillsYoung, AgeOf
  <2>4. EntryYoung'
    BY <2>1 DEF IInv, EntryYoung, AgeOf
  <2>5. QED
    BY <2>2, <2>3, <2>4 DEF IInv
<1>3. QED
  BY <1>1, <1>2

LEMMA ReaderInv ==
  ASSUME IInv, NEW r \in Readers, Select(r) \/ Fill(r) \/ FillLost(r)
  PROVE  IInv'
<1>1. CASE Select(r)
  BY <1>1, StalenessAssumption
     DEF Select, IInv, TypeOK, NotYetAged, FillsYoung, EntryYoung, BoundedStaleness,
         AgeOf, Rows, Horizon
<1>2. CASE Fill(r)
  <2>1. TypeOK' /\ NotYetAged' /\ BoundedStaleness'
    BY <1>2, StalenessAssumption
       DEF Fill, Done, IInv, TypeOK, NotYetAged, BoundedStaleness
  <2>2. FillsYoung'
    BY <1>2 DEF Fill, Done, IInv, TypeOK, FillsYoung, AgeOf
  <2>3. EntryYoung'
    <3>1. AgeOf(snap[r]) <= lag[r] /\ lag[r] \in 0..MaxLag /\ AgeOf(snap[r]) \in 0..Horizon
      BY <1>2, StalenessAssumption
         DEF Fill, IInv, TypeOK, FillsYoung, AgeOf, Rows, Horizon
    <3>2. AgeOf(cached)' = AgeOf(snap[r]) /\ left' = TTL
      BY <1>2 DEF Fill, AgeOf
    <3>3. QED
      BY <3>1, <3>2, StalenessAssumption DEF EntryYoung, Horizon
  <2>4. QED
    BY <2>1, <2>2, <2>3 DEF IInv
<1>3. CASE FillLost(r)
  BY <1>3, StalenessAssumption
     DEF FillLost, Done, IInv, TypeOK, NotYetAged, FillsYoung, EntryYoung,
         BoundedStaleness, AgeOf, Rows, Horizon
<1>4. QED
  BY <1>1, <1>2, <1>3

\* Fills and the entry age together with the rows they lack.
LEMMA TickInv ==
  ASSUME IInv, Tick
  PROVE  IInv'
<1>1. \A k \in 0..n : AgeOf(k) \in 0..Horizon /\ AgeOf(k)' \in 0..Horizon
                      /\ AgeOf(k)' <= AgeOf(k) + 1
  BY StalenessAssumption DEF Tick, AgeOf, Older, IInv, TypeOK, Rows, Horizon
<1>2. TypeOK' /\ NotYetAged' /\ BoundedStaleness'
  BY StalenessAssumption
     DEF Tick, Older, IInv, TypeOK, NotYetAged, BoundedStaleness, Rows, Horizon
<1>3. FillsYoung'
  <2> SUFFICES ASSUME NEW r \in Readers, snap[r] # -1
               PROVE  AgeOf(snap[r])' <= lag[r] + 1
    BY DEF Tick, FillsYoung, AgeOf, IInv, TypeOK
  <2>1. snap[r] \in 0..n /\ lag[r] \in 0..MaxLag /\ AgeOf(snap[r]) <= lag[r]
    BY DEF IInv, TypeOK, FillsYoung
  <2>2. AgeOf(snap[r])' = IF snap[r] < n THEN age'[snap[r] + 1] ELSE 0
    BY DEF Tick, AgeOf
  <2>3. QED
    BY <1>1, <2>1, <2>2, StalenessAssumption DEF Tick, AgeOf, Horizon
<1>4. EntryYoung'
  BY <1>1, StalenessAssumption DEF Tick, AgeOf, IInv, TypeOK, EntryYoung, Horizon
<1>5. QED
  BY <1>2, <1>3, <1>4 DEF IInv

LEMMA NextInv == IInv /\ [Next]_vars => IInv'
<1> SUFFICES ASSUME IInv, [Next]_vars PROVE IInv'
  OBVIOUS
<1>1. CASE UNCHANGED vars
  BY <1>1 DEF vars, IInv, TypeOK, NotYetAged, FillsYoung, EntryYoung, BoundedStaleness,
              AgeOf, Rows, Horizon
<1>2. CASE Next
  BY <1>2, InsertInv, RedisInv, ReaderInv, TickInv DEF Next
<1>3. QED
  BY <1>1, <1>2

-----------------------------------------------------------------------------
\* Ages and the entry's time left stay in the ranges the constants give.
THEOREM TypeCorrect == Spec => []TypeOK
<1>1. IInv => TypeOK
  BY DEF IInv
<1>2. QED
  BY <1>1, InitInv, NextInv, PTL DEF Spec

\* A list served from Redis lacks only rows younger than the TTL plus the longest
\* fill, for every value of both.
THEOREM StalenessIsBounded == Spec => [](TypeOK /\ BoundedStaleness)
<1>1. IInv => TypeOK /\ BoundedStaleness
  BY DEF IInv
<1>2. QED
  BY <1>1, InitInv, NextInv, PTL DEF Spec
=============================================================================
