----------------------------- MODULE ReadLocks -----------------------------
(***************************************************************************)
(* pkg/fsutil/lock_manager.go: the streams and generators that read one    *)
(* file, which are cancelled before the file is deleted.  (Different files *)
(* have nothing in common.)                                                *)
(*                                                                         *)
(* A Go slice is an array and a length; Cancel copies it under the mutex   *)
(* and ranges over it without, while goroutines shift the array's elements *)
(* in place and append to it.                                              *)
(***************************************************************************)
EXTENDS Naturals, Sequences, FiniteSets

CONSTANTS
  Locks,       \* LockContexts; bound: in all
  Cancellers,  \* bound: calls of Cancel
  NoLock

ASSUME LockAssumption == NoLock \notin Locks

VARIABLES
  arrays,      \* the arrays there have been, with their capacities
  len,         \* the length of readLocks[fn], a slice of the last array
  held,        \* contexts not yet done
  waiting,     \* contexts whose waitAndUnlock has not returned
  taken,       \* history: contexts there have been
  cancel       \* canceller -> its call

lockVars == <<arrays, len, held, waiting, taken, cancel>>

LocksInit ==
  /\ arrays = << <<>> >> /\ len = 0
  /\ held = {} /\ waiting = {} /\ taken = {}
  /\ cancel = [c \in Cancellers |->
                 [at |-> "no", array |-> 1, len |-> 0, i |-> 1]]

Current == arrays[Len(arrays)]
Entries == {Current[i] : i \in 1..len}

\* A slice that is full is copied to an array of twice the capacity.
Grown == [i \in 1..(IF len = 0 THEN 1 ELSE 2 * len) |->
            IF i <= len THEN Current[i] ELSE NoLock]

ReadLock(l) ==
  /\ l \notin taken
  /\ taken' = taken \cup {l} /\ held' = held \cup {l} /\ waiting' = waiting \cup {l}
  /\ arrays' = IF len < Len(Current)
               THEN [arrays EXCEPT ![Len(arrays)][len + 1] = l]
               ELSE Append(arrays, [Grown EXCEPT ![len + 1] = l])
  /\ len' = len + 1
  /\ UNCHANGED cancel

\* The reader is done, or its client has gone.
Release(l) ==
  /\ l \in held /\ held' = held \ {l}
  /\ UNCHANGED <<arrays, len, waiting, taken, cancel>>

\* Mutant: off by one, so that the next element goes.
ShiftedNext(a, i) ==
  [j \in 1..Len(a) |-> IF j \in (i + 1)..(len - 1) THEN a[j + 1] ELSE a[j]]

\* The later elements of the slice move down; those after it stay as they are.
Shifted(a, i) ==
  [j \in 1..Len(a) |-> IF j \in i..(len - 1) THEN a[j + 1] ELSE a[j]]

WaitAndUnlock(l) ==
  /\ l \in waiting \ held
  /\ waiting' = waiting \ {l}
  /\ IF l \in Entries
     THEN LET i == CHOOSE j \in 1..len : Current[j] = l
          IN arrays' = [arrays EXCEPT ![Len(arrays)] = Shifted(@, i)] /\ len' = len - 1
     ELSE UNCHANGED <<arrays, len>>
  /\ UNCHANGED <<held, taken, cancel>>

CancelBegin(c) ==
  /\ cancel[c].at = "no"
  /\ cancel' = [cancel EXCEPT ![c] =
       [at |-> "each", array |-> Len(arrays), len |-> len, i |-> 1]]
  /\ UNCHANGED <<arrays, len, held, waiting, taken>>

\* What the element is now: one that has moved down meanwhile is passed over.
\* The context is done at once, and its process is waited for no longer than
\* five seconds.
CancelEach(c) ==
  /\ cancel[c].at = "each" /\ cancel[c].i <= cancel[c].len
  /\ held' = held \ {arrays[cancel[c].array][cancel[c].i]}
  /\ cancel' = [cancel EXCEPT ![c].i = @ + 1]
  /\ UNCHANGED <<arrays, len, waiting, taken>>

CancelEnd(c) ==
  /\ cancel[c].at = "each" /\ cancel[c].i > cancel[c].len
  /\ cancel' = [cancel EXCEPT ![c].at = "done"]
  /\ UNCHANGED <<arrays, len, held, waiting, taken>>

LocksNext ==
  \/ \E l \in Locks : ReadLock(l) \/ Release(l) \/ WaitAndUnlock(l)
  \/ \E c \in Cancellers : CancelBegin(c) \/ CancelEach(c) \/ CancelEnd(c)

-----------------------------------------------------------------------------
(***************************************************************************)
(* The list holds the contexts that wait to be taken out, each once and in *)
(* the order they came, although slices of the same array are read without *)
(* the mutex and its elements are shifted and written over (waitAndUnlock, *)
(* lock_manager.go:89-103); so no reader of the file is unknown to a       *)
(* Cancel that begins.                                                     *)
(***************************************************************************)
ReadersAreListed ==
  /\ Entries = waiting
  /\ len = Cardinality(waiting)
  /\ held \subseteq waiting
=============================================================================
