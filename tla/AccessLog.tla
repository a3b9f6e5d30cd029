------------------------------ MODULE AccessLog ------------------------------
(***************************************************************************)
(* The rotating access log of the C and C++ services: the file at          *)
(* ACCESS_LOG_PATH and its backups .1 (newest) to .N (oldest).  One mutex, *)
(* or one thread, makes a write with the rotation in it one step.          *)
(*                                                                         *)
(* A line is its number; all lines have one length and the file's limit is *)
(* a number of lines.  Renames and opens may fail, each on its own (a full *)
(* or read-only disk, a quota); an append does not.  The copy of each line *)
(* on stderr is left out.                                                  *)
(***************************************************************************)
EXTENDS Integers, FiniteSets, Sequences, SequencesExt

CONSTANTS
  Backups,    \* ACCESS_LOG_BACKUPS
  MaxLines,   \* ACCESS_LOG_MAX_BYTES, in lines
  MaxWritten, \* bound: lines written by one task
  MaxFaults   \* bound: renames that fail in one task

ASSUME LogAssumption == Backups \in Nat \ {0} /\ MaxLines \in Nat \ {0}
ASSUME LogBounds == MaxWritten \in Nat /\ MaxFaults \in Nat

VARIABLES
  file,       \* 0 is the current file, i is backup i; <<>> if there is none
  open,       \* fp is not null
  written,    \* history: lines written by this task, whatever became of them
  faults      \* history: renames that failed

logVars == <<file, open, written, faults>>

Files == 0..Backups

\* Of renames i-1 -> i, for i = Backups down to 1, those in failed fail.
Moves(i, failed) == i \in 1..Backups \ failed /\ file[i - 1] # <<>>

\* Mutant: the loop counts up, so that each file is moved on at once to the end.
ShiftUp(failed) ==
  IF failed # {} THEN file
  ELSE [i \in Files |-> IF i = Backups /\ file[1] # <<>> THEN file[1]
                        ELSE IF i = 1 THEN file[0]
                        ELSE IF i = 0 THEN <<>> ELSE file[i]]

\* Mutant: the backups are a ring, and the current file replaces one of them.
ShiftRing(failed) ==
  LET last == 1 + ((written \div MaxLines) % Backups)
  IN [file EXCEPT ![last] = file[0], ![0] = <<>>]

Shift(failed) == [i \in Files |-> IF Moves(i, failed) THEN file[i - 1]
                                  ELSE IF Moves(i + 1, failed) THEN <<>>
                                  ELSE file[i]]

\* Mutant: the limit is looked at only after it has been passed.
DueLate == open /\ Len(file[0]) > MaxLines

Due == open /\ Len(file[0]) >= MaxLines

\* access_log_write appends to what fopen gives it; after a failed fopen fp stays
\* null and neither writes nor rotates again.
Appended(f, opened) == IF opened THEN [f EXCEPT ![0] = Append(@, written + 1)] ELSE f

Write ==
  /\ written < MaxWritten
  /\ written' = written + 1
  /\ \/ /\ ~Due
        /\ file' = Appended(file, open)
        /\ UNCHANGED <<open, faults>>
     \/ /\ Due
        /\ \E failed \in SUBSET {i \in 1..Backups : file[i - 1] # <<>>} :
             /\ faults' = faults + Cardinality(failed)
             /\ faults' <= MaxFaults
             /\ open' \in BOOLEAN
             /\ file' = Appended(Shift(failed), open')

\* The task starts on a disk of its own; the first fopen may fail as well.
LogInit == /\ file = [i \in Files |-> <<>>]
           /\ open \in BOOLEAN
           /\ written = 0
           /\ faults = 0

LogRestart == /\ file' = [i \in Files |-> <<>>]
              /\ open' \in BOOLEAN
              /\ written' = 0
              /\ faults' = 0

-----------------------------------------------------------------------------
LogTypeOK == /\ file \in [Files -> Seq(1..MaxWritten)]
             /\ open \in BOOLEAN
             /\ written \in 0..MaxWritten
             /\ faults \in 0..MaxFaults

Held == UNION {ToSet(file[i]) : i \in Files}

Least(a, b) == IF a < b THEN a ELSE b

\* Reading the files from the oldest to the current gives the lines in the order in
\* which they were written, none twice, whatever renames failed in whatever rotations
\* (rotate_locked's loop from the oldest backup down).
InOrder ==
  \A i, j \in Files : \A x \in DOMAIN file[i], y \in DOMAIN file[j] :
    i > j \/ (i = j /\ x < y) => file[i][x] < file[j][y]

\* While the file is open it and its backups hold all lines, or Backups full files of
\* them at least, less one file for each rename that ever failed; and if none did,
\* they are the newest, without a gap (rotate_locked, its ignored renames).
NewestKept ==
  open => /\ Cardinality(Held) >= Least(written, Backups * MaxLines + 1) - faults * MaxLines
          /\ faults = 0 => Held = (written - Cardinality(Held) + 1)..written

\* The files take no more room than Backups + 1 full ones, and one line more for
\* each rename that failed: a current file that could not be renamed goes on being
\* appended to (access_log_write's test before each line).
DiskBounded == Cardinality(Held) <= (Backups + 1) * MaxLines + faults
=============================================================================
