--------------------------- MODULE ScanJobProofs ---------------------------
(***************************************************************************)
(* The claims of MutexManager are exclusive, for any tasks and keys and    *)
(* whatever its callers do, and it implements HashLocks.  A scan uses the  *)
(* hash claims as MutexManager offers them, so what is proved of the       *)
(* manager holds of every scan, for any files, contents, items and number  *)
(* of parallel tasks.  From the claims, the unique indexes and the write   *)
(* transactions follows what a scan makes of files: no contents are        *)
(* recorded twice, none that could be read are left out, and no item is    *)
(* taken from a file that is there.                                        *)
(***************************************************************************)
EXTENDS ScanJob, SequenceTheorems, TLAPS

-----------------------------------------------------------------------------
(* The manager of the claims.                                              *)

LEMMA MutexInitial == MutexInit => MutexInv
BY NoTaskAssumption
   DEF MutexInit, MutexInv, MutexTypeOK, HolderIsEntry, SeenIsClosed, Holds, Call

\* A turn with the map replaces only entries whose channel is closed.
LEMMA AttemptKeepsInv ==
  ASSUME MutexInv, NEW t \in Tasks, NEW k \in Keys, Attempt(t, k)
  PROVE  MutexInv'
<1> USE NoTaskAssumption
<1> DEFINE c == calls[t][k]
<1>1. c \in Call /\ entry[k] \in Tasks \cup {NoTask}
  BY DEF MutexInv, MutexTypeOK
<1>2. calls' \in [Tasks -> [Keys -> Call]] /\ calls'[t][k] \in Call
  BY <1>1 DEF MutexInv, MutexTypeOK, Attempt, Available, Call
<1>3. \A u \in Tasks, l \in Keys : u # t \/ l # k => calls'[u][l] = calls[u][l]
  BY DEF MutexInv, MutexTypeOK, Attempt
<1>4. MutexTypeOK'
  BY <1>2 DEF MutexInv, MutexTypeOK, Attempt, Available
<1>5. calls'[t][k].at # "idle"
  BY DEF MutexInv, MutexTypeOK, Attempt
<1>6. calls'[t][k].at # "trying"
  BY DEF MutexInv, MutexTypeOK, Attempt
<1>7. ASSUME calls'[t][k].at = "installed" PROVE calls'[t][k].seen \in closed
  <2>1. entry[k] # NoTask /\ Available(t, k) /\ calls'[t][k].seen = entry[k]
    BY <1>7 DEF MutexInv, MutexTypeOK, Attempt
  <2>2. c.seen = entry[k] /\ c.at \in {"idle", "trying"}
    BY <2>1 DEF Available, Attempt
  <2> QED
    BY <2>1, <2>2 DEF MutexInv, SeenIsClosed
<1>8. SeenIsClosed'
  BY <1>3, <1>5, <1>6, <1>7 DEF MutexInv, SeenIsClosed, Attempt
<1>9. HolderIsEntry'
  <2> SUFFICES ASSUME NEW u \in Tasks, NEW l \in Keys, Holds(u, l)'
               PROVE  entry'[l] = u
    BY DEF HolderIsEntry
  <2>1. CASE l # k
    BY <2>1, <1>3 DEF MutexInv, MutexTypeOK, HolderIsEntry, Holds, Attempt
  <2>2. CASE l = k /\ u = t
    <3>1. calls'[t][k].at \in {"installed", "held"}
      BY <2>2 DEF Holds
    <3>2. Available(t, k)
      BY <3>1 DEF Attempt, Available, MutexInv, MutexTypeOK
    <3> QED
      BY <2>2, <3>2 DEF Attempt, MutexInv, MutexTypeOK
  <2>3. CASE l = k /\ u # t
    <3>1. Holds(u, k) /\ entry[k] = u
      BY <2>3, <1>3 DEF Holds, Attempt, MutexInv, HolderIsEntry
    <3>2. u # NoTask /\ u \notin closed
      BY <3>1 DEF Holds
    <3>3. c.seen # u
      BY <3>2 DEF Attempt, MutexInv, SeenIsClosed
    <3>4. ~Available(t, k)
      BY <3>1, <3>2, <3>3 DEF Available
    <3> QED
      BY <2>3, <3>1, <3>4 DEF Attempt
  <2> QED
    BY <2>1, <2>2, <2>3
<1> QED
  BY <1>4, <1>8, <1>9 DEF MutexInv

LEMMA WaitOverKeepsInv ==
  ASSUME MutexInv, NEW t \in Tasks, NEW k \in Keys, WaitOver(t, k)
  PROVE  MutexInv'
<1>1. calls[t][k] \in Call
  BY DEF MutexInv, MutexTypeOK
<1>2. calls'[t][k] \in Call /\ calls'[t][k].seen = calls[t][k].seen
      /\ calls'[t][k].at = IF calls[t][k].at = "waiting" THEN "trying" ELSE "held"
  BY <1>1 DEF WaitOver, MutexInv, MutexTypeOK, Call
<1>3. \A u \in Tasks, l \in Keys : u # t \/ l # k => calls'[u][l] = calls[u][l]
  BY DEF MutexInv, MutexTypeOK, WaitOver
<1>4. MutexTypeOK'
  BY <1>2 DEF MutexInv, MutexTypeOK, WaitOver
<1>5. HolderIsEntry'
  BY <1>2, <1>3 DEF MutexInv, HolderIsEntry, Holds, WaitOver
<1>6. SeenIsClosed'
  BY <1>2, <1>3 DEF MutexInv, SeenIsClosed, WaitOver
<1> QED
  BY <1>4, <1>5, <1>6 DEF MutexInv

LEMMA CloseKeepsInv ==
  ASSUME MutexInv, NEW t \in Tasks, Close(t)
  PROVE  MutexInv'
BY DEF MutexInv, MutexTypeOK, HolderIsEntry, SeenIsClosed, Holds, Close

LEMMA CleanUpKeepsInv ==
  ASSUME MutexInv, NEW t \in Tasks, NEW k \in Keys, CleanUp(t, k)
  PROVE  MutexInv'
<1>1. calls[t][k] \in Call /\ calls[t][k].at = "held" /\ t \in closed
  BY DEF MutexInv, MutexTypeOK, CleanUp
<1>2. calls'[t][k] \in Call /\ calls'[t][k].at = "clean"
  BY <1>1 DEF CleanUp, MutexInv, MutexTypeOK, Call
<1>3. \A u \in Tasks, l \in Keys : u # t \/ l # k => calls'[u][l] = calls[u][l]
  BY DEF MutexInv, MutexTypeOK, CleanUp
<1>4. MutexTypeOK'
  BY <1>2 DEF MutexInv, MutexTypeOK, CleanUp
<1>5. HolderIsEntry'
  BY <1>1, <1>2, <1>3 DEF MutexInv, MutexTypeOK, HolderIsEntry, Holds, CleanUp
<1>6. SeenIsClosed'
  BY <1>2, <1>3 DEF MutexInv, SeenIsClosed, CleanUp
<1> QED
  BY <1>4, <1>5, <1>6 DEF MutexInv

LEMMA MutexStep == MutexInv /\ [MutexNext]_mutexVars => MutexInv'
<1> SUFFICES ASSUME MutexInv, [MutexNext]_mutexVars PROVE MutexInv'
  OBVIOUS
<1>1. CASE UNCHANGED mutexVars
  BY <1>1 DEF mutexVars, MutexInv, MutexTypeOK, HolderIsEntry, SeenIsClosed, Holds
<1>2. CASE MutexNext
  BY <1>2, AttemptKeepsInv, WaitOverKeepsInv, CloseKeepsInv, CleanUpKeepsInv
     DEF MutexNext, Claim
<1> QED
  BY <1>1, <1>2

(***************************************************************************)
(* The channel of every holder is in the map and every channel waited for  *)
(* is closed, always (Claim, mutex.go:30-51).                              *)
(***************************************************************************)
THEOREM HoldersAreEntries == MutexSpec => []MutexInv
BY MutexInitial, MutexStep, PTL DEF MutexSpec

LEMMA InvMakesExclusive == MutexInv => Exclusive
BY DEF MutexInv, HolderIsEntry, Exclusive

(***************************************************************************)
(* No two tasks ever work under the same hash.                             *)
(***************************************************************************)
THEOREM ClaimsExclude == MutexSpec => []Exclusive
BY HoldersAreEntries, InvMakesExclusive, PTL

-----------------------------------------------------------------------------
LEMMA LocksInitial == MutexInit => Locks!Init
BY DEF MutexInit, Locks!Init, Holders, Holds

LEMMA SameHolders ==
  ASSUME \A u \in Tasks, l \in Keys : Holds(u, l)' <=> Holds(u, l)
  PROVE  Holders' = Holders
BY DEF Holders

\* What is installed for an open channel is acquired, and was free.
LEMMA AttemptAcquires ==
  ASSUME MutexInv, NEW t \in Tasks, NEW k \in Keys, Attempt(t, k)
  PROVE  Locks!Acquire(t, k) \/ UNCHANGED Holders
<1> USE NoTaskAssumption
<1>1. \A u \in Tasks, l \in Keys : u # t \/ l # k => calls'[u][l] = calls[u][l]
  BY DEF MutexInv, MutexTypeOK, Attempt
<1>2. \A u \in Tasks, l \in Keys :
        u # t \/ l # k => (Holds(u, l)' <=> Holds(u, l))
  BY <1>1 DEF Holds, Attempt
<1>3. ~Holds(t, k)
  BY DEF Holds, Attempt
<1>4. CASE Holds(t, k)'
  <2>1. Available(t, k) /\ t \notin closed
    BY <1>4 DEF Holds, Attempt, MutexInv, MutexTypeOK, Available
  <2>2. \A u \in Tasks : ~Holds(u, k)
    <3> SUFFICES ASSUME NEW u \in Tasks, Holds(u, k) PROVE FALSE
      OBVIOUS
    <3>1. entry[k] = u /\ u # NoTask /\ u \notin closed
      BY DEF MutexInv, HolderIsEntry, Holds
    <3>2. calls[t][k].seen = u
      BY <2>1, <3>1 DEF Available
    <3> QED
      BY <3>1, <3>2 DEF MutexInv, SeenIsClosed, Attempt
  <2>3. Holders[k] = {}
    BY <2>2 DEF Holders
  <2>4. Holders' = [Holders EXCEPT ![k] = {t}]
    BY <1>2, <1>4, <2>2 DEF Holders
  <2> QED
    BY <2>3, <2>4 DEF Locks!Acquire
<1>5. CASE ~Holds(t, k)'
  BY <1>2, <1>3, <1>5, SameHolders
<1> QED
  BY <1>4, <1>5

LEMMA LocksStep ==
  MutexInv /\ [MutexNext]_mutexVars => [Locks!Next]_Holders
<1> SUFFICES ASSUME MutexInv, [MutexNext]_mutexVars
             PROVE  Locks!Next \/ UNCHANGED Holders
  OBVIOUS
<1>1. CASE UNCHANGED mutexVars
  BY <1>1, SameHolders DEF mutexVars, Holds
<1>2. ASSUME NEW t \in Tasks, NEW k \in Keys, Attempt(t, k)
      PROVE  Locks!Next \/ UNCHANGED Holders
  BY <1>2, AttemptAcquires DEF Locks!Next
<1>3. ASSUME NEW t \in Tasks, NEW k \in Keys, WaitOver(t, k)
      PROVE  UNCHANGED Holders
  <2>1. calls[t][k] \in Call
    BY DEF MutexInv, MutexTypeOK
  <2>2. calls[t][k].at # "waiting" => calls'[t][k].at = "held"
    BY <1>3, <2>1 DEF WaitOver, MutexInv, MutexTypeOK, Call
  <2>3. calls[t][k].at = "waiting" => calls'[t][k].at = "trying"
    BY <1>3, <2>1 DEF WaitOver, MutexInv, MutexTypeOK, Call
  <2>4. \A u \in Tasks, l \in Keys : u # t \/ l # k => calls'[u][l] = calls[u][l]
    BY <1>3 DEF MutexInv, MutexTypeOK, WaitOver
  <2> QED
    BY <1>3, <2>2, <2>3, <2>4, SameHolders DEF Holds, WaitOver
<1>4. ASSUME NEW t \in Tasks, Close(t) PROVE Locks!Release(t)
  BY <1>4 DEF Close, Locks!Release, Holders, Holds
<1>5. ASSUME NEW t \in Tasks, NEW k \in Keys, CleanUp(t, k)
      PROVE  UNCHANGED Holders
  <2>1. \A u \in Tasks, l \in Keys : u # t \/ l # k => calls'[u][l] = calls[u][l]
    BY <1>5 DEF MutexInv, MutexTypeOK, CleanUp
  <2> QED
    BY <1>5, <2>1, SameHolders DEF Holds, CleanUp
<1> QED
  BY <1>1, <1>2, <1>3, <1>4, <1>5 DEF MutexNext, Claim, Locks!Next

(***************************************************************************)
(* The map, the retries and the late cleanups implement locks that are     *)
(* acquired free and given back at once (Claim, mutex.go:20-63).           *)
(***************************************************************************)
THEOREM ManagerIsLocks == MutexSpec => ImplementsLocks
BY LocksInitial, LocksStep, HoldersAreEntries, PTL
   DEF MutexSpec, ImplementsLocks, Locks!Spec

-----------------------------------------------------------------------------
(* The scan.                                                               *)

\* What a scan's files contain, and of which kind they are, is settled.
FilesOK == content \in [Tasks -> Contents] /\ media \in {"scene", "image", "gallery"}

LEMMA FilesInitial == Init => FilesOK
BY ScanAssumption DEF Init, FilesOK

LEMMA KeysAreKeys ==
  ASSUME FilesOK, NEW t \in Tasks, NEW i \in DOMAIN Kinds
  PROVE  KeysOf(t)[i] \in Keys
<1>1. Kinds[i] \in {"oshash", "checksum"} /\ content[t] \in Contents
  BY DEF Kinds, FilesOK
<1>2. KeysOf(t)[i] = <<Kinds[i], content[t]>>
  BY DEF KeysOf
<1> QED
  BY <1>1, <1>2, ScanAssumption

\* A task's step is a step of the manager, or does not touch it.
LEMMA TaskStepClaims ==
  ASSUME FilesOK, NEW t \in Tasks, TaskStep(t)
  PROVE  MutexNext \/ UNCHANGED mutexVars
<1>1. CASE ClaimHashes(t)
  <2>1. PICK i \in DOMAIN Kinds : Claim(t, KeysOf(t)[i])
    BY <1>1 DEF ClaimHashes
  <2> QED
    BY <2>1, KeysAreKeys DEF MutexNext
<1>2. CASE CleanUpClaim(t)
  BY <1>2 DEF CleanUpClaim, MutexNext
<1>3. CASE UpdateClashes(t) \/ Update(t) \/ LeaveNew(t)
  BY <1>3 DEF UpdateClashes, Update, LeaveNew, MutexNext
<1>4. CASE Find(t) \/ BeginFails(t) \/ Commit(t)
  BY <1>4 DEF Find, BeginFails, Commit
<1>5. CASE Lookup(t) \/ Write(t) \/ WriteGallery(t)
  BY <1>5 DEF Lookup, Write, WriteGallery
<1> QED
  BY <1>1, <1>2, <1>3, <1>4, <1>5 DEF TaskStep

LEMMA ScanStepClaims == FilesOK /\ [Next]_vars => [MutexNext]_mutexVars
<1> SUFFICES ASSUME FilesOK, [Next]_vars
             PROVE  MutexNext \/ UNCHANGED mutexVars
  OBVIOUS
<1>1. CASE UNCHANGED vars
  BY <1>1 DEF vars, mutexVars
<1>2. CASE LoopStep \/ CancelScan \/ Ended
  BY <1>2 DEF LoopStep, CancelScan, Ended, StartTask, EndLoop, Finish, Take,
              vars, mutexVars
<1>3. CASE \E t \in Tasks : TaskStep(t)
  BY <1>3, TaskStepClaims
<1> QED
  BY <1>1, <1>2, <1>3 DEF Next

LEMMA FilesStep == FilesOK /\ [Next]_vars => FilesOK'
<1> SUFFICES ASSUME FilesOK, [Next]_vars PROVE FilesOK'
  OBVIOUS
<1>1. UNCHANGED fileVars
  BY DEF Next, vars, fileVars, LoopStep, CancelScan, Ended, StartTask, EndLoop,
         Finish, Take, TaskStep, Find, ClaimHashes, CleanUpClaim, BeginFails,
         UpdateClashes, Update, Commit, Lookup, Write, WriteGallery, LeaveNew
<1> QED
  BY <1>1 DEF FilesOK, fileVars

\* A scan behaves as the claims' specification allows.
THEOREM ScanUsesClaims == Spec => MutexSpec
<1>1. Init => MutexInit
  BY DEF Init
<1> QED
  BY <1>1, FilesInitial, FilesStep, ScanStepClaims, PTL DEF Spec, MutexSpec

(***************************************************************************)
(* Two tasks of a scan never work under the same hash.                     *)
(***************************************************************************)
THEOREM ScanExcludes == Spec => []Exclusive
BY ScanUsesClaims, ClaimsExclude, PTL

(***************************************************************************)
(* What a scan does with its claims is what HashLocks promises.            *)
(***************************************************************************)
THEOREM ScanImplementsLocks == Spec => ImplementsLocks
BY ScanUsesClaims, ManagerIsLocks, PTL

-----------------------------------------------------------------------------
(* Types.                                                                  *)

LEMMA ReplaceInSeq ==
  ASSUME NEW S, NEW q \in Seq(S), NEW i, NEW e \in S
  PROVE  LET new == [q EXCEPT ![i] = e]
         IN  new \in Seq(S) /\ Len(new) = Len(q) /\ DOMAIN new = DOMAIN q
<1> DEFINE new == [q EXCEPT ![i] = e]
<1>1. Len(q) \in Nat /\ DOMAIN q = 1..Len(q) /\ DOMAIN new = DOMAIN q
  BY LenProperties
<1>2. \A j \in 1..Len(q) : new[j] \in S
  BY <1>1, ElementOfSeq
<1>3. new \in [1..Len(q) -> S]
  BY <1>1, <1>2
<1>4. new \in Seq(S) /\ Len(new) = Len(q)
  BY <1>1, <1>3, LenProperties
<1> QED
  BY <1>1, <1>4

\* What the writes do to the table.
Stored(t) == [items EXCEPT ![known[t]] = [path |-> t, hash |-> content[t]]]
Added(t) == Append(items, [path |-> t, hash |-> content[t]])
Moved(t, i) == [items EXCEPT ![i].path = t]

LEMMA StoredTyped ==
  ASSUME TypeOK, NEW t \in Tasks
  PROVE  Stored(t) \in Seq(Row) /\ Len(Stored(t)) = Len(items)
         /\ DOMAIN Stored(t) = DOMAIN items
<1>1. items \in Seq(Row) /\ [path |-> t, hash |-> content[t]] \in Row
  BY DEF TypeOK, Row, Paths
<1> QED
  BY <1>1, ReplaceInSeq DEF Stored

LEMMA AddedTyped ==
  ASSUME TypeOK, NEW t \in Tasks
  PROVE  /\ Added(t) \in Seq(Row) /\ Len(Added(t)) = Len(items) + 1 /\ Len(items) \in Nat
         /\ DOMAIN items = 1..Len(items) /\ DOMAIN Added(t) = 1..(Len(items) + 1)
         /\ \A i \in DOMAIN items : Added(t)[i] = items[i]
         /\ Added(t)[Len(items) + 1] = [path |-> t, hash |-> content[t]]
<1>1. items \in Seq(Row) /\ [path |-> t, hash |-> content[t]] \in Row
  BY DEF TypeOK, Row, Paths
<1> QED
  BY <1>1, AppendProperties, LenProperties DEF Added

LEMMA MovedTyped ==
  ASSUME TypeOK, NEW t \in Tasks, NEW i \in DOMAIN items
  PROVE  /\ Moved(t, i) \in Seq(Row) /\ Len(Moved(t, i)) = Len(items)
         /\ DOMAIN Moved(t, i) = DOMAIN items
         /\ Moved(t, i)[i] = [path |-> t, hash |-> items[i].hash]
         /\ \A j \in DOMAIN items : j # i => Moved(t, i)[j] = items[j]
<1>1. items \in Seq(Row) /\ items[i] \in Row
  BY ElementOfSeq, LenProperties DEF TypeOK
<1>2. [items[i] EXCEPT !.path = t] = [path |-> t, hash |-> items[i].hash]
  BY <1>1 DEF Row
<1>3. [path |-> t, hash |-> items[i].hash] \in Row
  BY <1>1 DEF Row, Paths
<1>4. Moved(t, i) = [items EXCEPT ![i] = [path |-> t, hash |-> items[i].hash]]
  BY <1>2 DEF Moved
<1> QED
  BY <1>1, <1>3, <1>4, ReplaceInSeq

\* Ids are ids.
LEMMA IdsTyped ==
  ASSUME TypeOK
  PROVE  /\ Len(items) \in Nat /\ DOMAIN items = 1..Len(items)
         /\ \A p : FindByPath(p) \subseteq 0..Len(items)
         /\ \A h : FindByHash(h) \subseteq 0..Len(items)
         /\ \A p : \A i \in FindByPath(p) : i # 0 => i \in DOMAIN items /\ items[i].path = p
         /\ \A h : \A i \in FindByHash(h) : i # 0 => i \in DOMAIN items /\ items[i].hash = h
         /\ \A i \in DOMAIN items : items[i].path \in Paths /\ items[i].hash \in Contents
<1>1. items \in Seq(Row)
  BY DEF TypeOK
<1>2. Len(items) \in Nat /\ DOMAIN items = 1..Len(items)
  BY <1>1, LenProperties
<1>3. \A i \in DOMAIN items : items[i] \in Row
  BY <1>1, <1>2, ElementOfSeq
<1> QED
  BY <1>2, <1>3 DEF FindByPath, FindByHash, Ids, Row

\* What WriteNew comes to.
LEMMA WriteNewEffect ==
  ASSUME TypeOK, NEW t \in Tasks, NEW i \in 0..Len(items), WriteNew(t, i)
  PROVE  /\ writer = NoTask /\ at' = [at EXCEPT ![t] = "finishing"]
         /\ \/ /\ result' = [result EXCEPT ![t] = "created"] /\ items' = Added(t)
               /\ i = 0 /\ ~HashTaken(t) /\ ~cancelled
            \/ /\ result' = [result EXCEPT ![t] = "moved"] /\ items' = Moved(t, i)
               /\ i \in DOMAIN items /\ ~cancelled
            \/ /\ result' = [result EXCEPT ![t] = "collision"] /\ items' = items
               /\ \/ i = 0 /\ HashTaken(t)
                  \/ \E j \in DOMAIN items : items[j].path = t
            \/ /\ result' = [result EXCEPT ![t] = "failed"] /\ items' = items
<1>1. i # 0 => i \in DOMAIN items
  BY IdsTyped
<1>2. CASE i = 0 /\ ~cancelled /\ Create(t)
  BY <1>2 DEF WriteNew, Create, Finishing, PathTaken, Added
<1>3. CASE i # 0 /\ ~cancelled /\ Move(t, i)
  BY <1>1, <1>3 DEF WriteNew, Move, Finishing, PathTaken, Moved
<1>4. CASE Finishing(t, "failed") /\ UNCHANGED items
  BY <1>4 DEF WriteNew, Finishing
<1> QED
  BY <1>2, <1>3, <1>4 DEF WriteNew
LEMMA TypingInit == Init => TypeOK
<1> SUFFICES ASSUME Init PROVE TypeOK
  OBVIOUS
<1>1. MutexTypeOK
  BY MutexInitial DEF Init, MutexInv
<1>2. PICK s \in Scenarios :
        /\ media = s.media /\ items = s.items /\ content = s.content
        /\ unique = HasUniqueIndex(s.media, s.items)
  BY DEF Init
<1>3. /\ media \in {"scene", "image", "gallery"} /\ items \in Seq(Row)
      /\ content \in [Tasks -> Contents]
  BY <1>2, ScanAssumption
<1>4. unique \in BOOLEAN
  BY <1>2 DEF HasUniqueIndex, Distinct
<1>5. Len(items) \in Nat
  BY <1>3, LenProperties
<1>6. known \in [Tasks -> 0..Len(items)] /\ found \in [Tasks -> 0..Len(items)]
  BY <1>5 DEF Init
<1>7. cancelled \in BOOLEAN /\ writer \in Tasks \cup {NoTask} /\ next \in Tasks \cup {NoTask}
  BY DEF Init
<1> QED
  BY <1>1, <1>3, <1>4, <1>6, <1>7 DEF Init, TypeOK

\* The types but those of the manager.
States == {"queued", "started", "claiming", "writing", "committing", "finishing", "over"}
Outcomes == {"none", "unchanged", "created", "moved", "updated", "duplicate", "clash",
             "collision", "failed"}

LEMMA TypingParts ==
  ASSUME TypeOK
  PROVE  /\ at \in [Tasks -> States] /\ result \in [Tasks -> Outcomes]
         /\ known \in [Tasks -> 0..Len(items)] /\ found \in [Tasks -> 0..Len(items)]
         /\ old \in [Tasks -> Contents \cup {NoPath}] /\ content \in [Tasks -> Contents]
BY DEF TypeOK, States, Outcomes

LEMMA TaskTyping ==
  ASSUME TypeOK, MutexTypeOK', NEW t \in Tasks, TaskStep(t)
  PROVE  TypeOK'
<1> USE DEF States, Outcomes
<1>0. /\ at \in [Tasks -> States] /\ result \in [Tasks -> Outcomes]
      /\ known \in [Tasks -> 0..Len(items)] /\ found \in [Tasks -> 0..Len(items)]
      /\ Len(items) \in Nat /\ items \in Seq(Row)
      /\ old \in [Tasks -> Contents \cup {NoPath}]
  BY IdsTyped DEF TypeOK
<1>1. CASE Find(t)
  <2>1. PICK i \in FindByPath(t) :
          /\ known' = [known EXCEPT ![t] = i]
          /\ old' = [old EXCEPT ![t] = IF i = 0 THEN NoPath ELSE items[i].hash]
          /\ ScanFile(t, i)
    BY <1>1 DEF Find
  <2>2. i \in 0..Len(items) /\ (i # 0 => items[i].hash \in Contents)
    BY IdsTyped
  <2>3. at' \in [Tasks -> States] /\ result' \in [Tasks -> Outcomes]
    BY <1>0, <2>1 DEF ScanFile, Leave
  <2>4. known' \in [Tasks -> 0..Len(items)] /\ old' \in [Tasks -> Contents \cup {NoPath}]
    BY <1>0, <2>1, <2>2
  <2> QED
    BY <1>1, <2>3, <2>4 DEF Find, TypeOK, jobVars, fileVars
<1>2. CASE ClaimHashes(t) \/ CleanUpClaim(t)
  BY <1>2 DEF ClaimHashes, CleanUpClaim, taskVars, jobVars, fileVars, TypeOK
<1>3. CASE BeginFails(t) \/ UpdateClashes(t) \/ Update(t)
  <2>1. at' \in [Tasks -> States] /\ result' \in [Tasks -> Outcomes]
    BY <1>0, <1>3 DEF BeginFails, UpdateClashes, Update, Leave
  <2>2. writer' \in Tasks \cup {NoTask}
    BY <1>3 DEF BeginFails, UpdateClashes, Update, TypeOK
  <2>3. UNCHANGED <<jobVars, items, known, old, found, fileVars>>
    BY <1>3 DEF BeginFails, UpdateClashes, Update
  <2> QED
    BY <2>1, <2>2, <2>3 DEF jobVars, fileVars, TypeOK
<1>4. CASE Commit(t)
  <2>1. at' \in [Tasks -> States] /\ result' \in [Tasks -> Outcomes]
    BY <1>0, <1>4 DEF Commit, Leave
  <2>2. items' = Stored(t) \/ items' = items
    BY <1>4 DEF Commit, Stored
  <2>3. items' \in Seq(Row) /\ Len(items') = Len(items)
    BY <1>0, <2>2, StoredTyped
  <2> QED
    BY <1>4, <2>1, <2>3 DEF Commit, jobVars, fileVars, TypeOK
<1>5. CASE Lookup(t)
  <2>1. PICK i \in FindByHash(content[t]) :
          /\ found' = [found EXCEPT ![t] = i]
          /\ IF IsDuplicate(t, i)
             THEN Finishing(t, "duplicate")
             ELSE at' = [at EXCEPT ![t] = "writing"] /\ UNCHANGED result
    BY <1>5 DEF Lookup
  <2>2. at' \in [Tasks -> States] /\ result' \in [Tasks -> Outcomes]
    BY <1>0, <2>1 DEF Finishing
  <2>3. found' \in [Tasks -> 0..Len(items)]
    BY <1>0, <2>1, IdsTyped
  <2> QED
    BY <1>5, <2>2, <2>3 DEF Lookup, jobVars, fileVars, TypeOK
<1>6. ASSUME NEW i \in 0..Len(items), WriteNew(t, i),
             UNCHANGED <<jobVars, writer, known, old, found, fileVars>>
      PROVE  TypeOK'
  <2>1. at' \in [Tasks -> States] /\ result' \in [Tasks -> Outcomes]
    <3>1. at' = [at EXCEPT ![t] = "finishing"] /\ \E o \in Outcomes : result' = [result EXCEPT ![t] = o]
      BY <1>6, WriteNewEffect
    <3> QED
      BY <1>0, <3>1
  <2>0. \/ items' = items \/ items' = Added(t)
        \/ i \in DOMAIN items /\ items' = Moved(t, i)
    BY <1>6, WriteNewEffect
  <2>2. items' \in Seq(Row) /\ 0..Len(items) \subseteq 0..Len(items')
    <3>1. CASE items' = items
      BY <1>0, <3>1
    <3>2. CASE items' = Added(t)
      <4>1. items' \in Seq(Row) /\ Len(items') = Len(items) + 1
        BY <3>2, AddedTyped
      <4> QED
        BY <1>0, <4>1
    <3>3. CASE i \in DOMAIN items /\ items' = Moved(t, i)
      BY <1>0, <3>3, MovedTyped
    <3> QED
      BY <2>0, <3>1, <3>2, <3>3
  <2>3. known' \in [Tasks -> 0..Len(items')] /\ found' \in [Tasks -> 0..Len(items')]
    BY <1>0, <1>6, <2>2
  <2> QED
    BY <1>6, <2>1, <2>2, <2>3 DEF jobVars, fileVars, TypeOK
<1>7. CASE Write(t)
  BY <1>0, <1>6, <1>7 DEF Write
<1>8. CASE WriteGallery(t)
  <2>1. PICK i \in FindByHash(content[t]) :
          IF ~cancelled /\ IsDuplicate(t, i)
          THEN Finishing(t, "duplicate") /\ UNCHANGED items
          ELSE WriteNew(t, i)
    BY <1>8 DEF WriteGallery
  <2>2. CASE Finishing(t, "duplicate") /\ UNCHANGED items
    <3>1. at' \in [Tasks -> States] /\ result' \in [Tasks -> Outcomes]
      BY <1>0, <2>2 DEF Finishing
    <3> QED
      BY <1>8, <2>2, <3>1 DEF WriteGallery, jobVars, fileVars, TypeOK
  <2>3. CASE WriteNew(t, i)
    <3>1. i \in 0..Len(items)
      BY IdsTyped
    <3> QED
      BY <1>6, <1>8, <2>3, <3>1 DEF WriteGallery
  <2> QED
    BY <2>1, <2>2, <2>3
<1>9. CASE LeaveNew(t)
  <2>1. at' \in [Tasks -> States]
    BY <1>0, <1>9 DEF LeaveNew
  <2> QED
    BY <1>9, <2>1 DEF LeaveNew, jobVars, fileVars, TypeOK
<1> QED
  BY <1>1, <1>2, <1>3, <1>4, <1>5, <1>7, <1>8, <1>9 DEF TaskStep

LEMMA TypingStep == TypeOK /\ MutexTypeOK' /\ [Next]_vars => TypeOK'
<1> SUFFICES ASSUME TypeOK, MutexTypeOK', [Next]_vars PROVE TypeOK'
  OBVIOUS
<1>1. CASE StartTask
  <2>1. at' \in [Tasks -> States]
    BY <1>1, TypingParts DEF StartTask, States
  <2> QED
    BY <1>1, <2>1 DEF StartTask, fileVars, TypeOK, States
<1>2. CASE EndLoop \/ Finish \/ CancelScan \/ (\E t \in Tasks : Take(t))
  BY <1>2 DEF EndLoop, Finish, CancelScan, Take, taskVars, fileVars, TypeOK
<1>3. CASE UNCHANGED vars
  BY <1>3 DEF vars, taskVars, jobVars, fileVars, TypeOK
<1> QED
  BY <1>1, <1>2, <1>3, TaskTyping DEF Next, LoopStep, Ended

(***************************************************************************)
(* The tasks, the loop and the table stay well formed under every step.    *)
(***************************************************************************)
Sound == TypeOK /\ MutexInv

LEMMA Soundness == Spec => []Sound
<1>1. Init => Sound
  BY TypingInit, MutexInitial DEF Sound, Init
<1>2. Sound /\ [Next]_vars => Sound'
  <2>1. TypeOK => FilesOK
    BY DEF TypeOK, FilesOK
  <2>2. MutexInv /\ FilesOK /\ [Next]_vars => MutexInv'
    BY ScanStepClaims, MutexStep
  <2>3. MutexInv' => MutexTypeOK'
    BY DEF MutexInv
  <2> QED
    BY <2>1, <2>2, <2>3, TypingStep DEF Sound
<1> QED
  BY <1>1, <1>2, PTL DEF Spec

THEOREM Typing == Spec => []TypeOK
<1>1. Sound => TypeOK
  BY DEF Sound
<1> QED
  BY <1>1, Soundness, PTL

-----------------------------------------------------------------------------
(***************************************************************************)
(* Items and files.  What a task knows of an item stays true while other   *)
(* tasks write: they hold other hashes, or the item is theirs to update    *)
(* and has the name of the task that looks at it.                          *)
(***************************************************************************)
Early == {"queued", "started"}

Diligent(t) ==
  /\ at[t] = "writing" => media # "gallery" /\ known[t] = 0 /\ HasClaims(t)
  /\ t \in closed => at[t] \in {"committing", "over"}
  /\ at[t] \in {"finishing", "over"} <=> result[t] # "none"
  /\ at[t] = "committing" => writer = t /\ known[t] # 0
  /\ at[t] \in Early => known[t] = 0 /\ old[t] = NoPath

AllDiligent == \A t \in Tasks : Diligent(t)

\* Contents that an item has whose file is there, or had when it was found.
Recorded(h) ==
  Replaced(h) \/ \E i \in DOMAIN items : items[i].hash = h /\ items[i].path \in Tasks

\* What t knows of the item i that it is about to write, 0 for a new one.
Knows(t, i) ==
  IF i = 0
  THEN \/ Replaced(content[t])
       \/ /\ \A j \in DOMAIN items : items[j].hash = content[t] => items[j].path \in Tasks
          /\ \A u \in Tasks \ {t} : content[u] = content[t] => ~Became(u)
  ELSE /\ items[i].hash = content[t] \/ Replaced(content[t])
       /\ IF items[i].path \in Tasks THEN SameName(t, items[i].path)
                                     ELSE items[i].hash = content[t]

\* The item that t updates is its own, by name, and t alone changes its hash.
KnownFile(t) == known[t] # 0 =>
  items[known[t]].path \in Tasks
    /\ (items[known[t]].path = t \/ SameName(t, items[known[t]].path))

KnownHash(t) == known[t] # 0 =>
  items[known[t]].hash = IF result[t] = "updated" THEN content[t] ELSE old[t]

OneUpdater == \A t, u \in Tasks : known[t] # 0 /\ known[t] = known[u] => t = u

NotYetFound(t) == at[t] \in Early =>
  \A i \in DOMAIN items : items[i].path = t => \A u \in Tasks : known[u] # i

HasNoItem(t) == at[t] \notin Early /\ known[t] = 0 /\ ~Became(t) =>
  \A i \in DOMAIN items : items[i].path # t

KnowsFound(t) == at[t] = "writing" => Knows(t, found[t])

WontClash(t) == at[t] = "committing" => ~Clashes(t)

HasItem(t) == Became(t) =>
  \/ Replaced(content[t])
  \/ \E i \in DOMAIN items :
       /\ items[i].hash = content[t] /\ items[i].path \in Tasks
       /\ items[i].path = t \/ SameName(t, items[i].path)

HasResult(t) == result[t] \notin {"none", "failed", "clash"} => Recorded(content[t])

UniqueHash == unique => Distinct(items)

ItemsInv ==
  /\ \A t \in Tasks : /\ KnownFile(t) /\ KnownHash(t) /\ NotYetFound(t) /\ HasNoItem(t)
                       /\ KnowsFound(t) /\ WontClash(t) /\ HasItem(t) /\ HasResult(t)
  /\ OneUpdater /\ UniqueHash

\* Another task's step leaves t's own state alone.
LEMMA OthersAlone ==
  ASSUME Sound, NEW u \in Tasks, TaskStep(u), NEW t \in Tasks, t # u
  PROVE  /\ at'[t] = at[t] /\ result'[t] = result[t] /\ known'[t] = known[t]
         /\ old'[t] = old[t] /\ found'[t] = found[t] /\ calls'[t] = calls[t]
         /\ t \in closed' <=> t \in closed
<1>0. calls \in [Tasks -> [Keys -> Call]]
  BY DEF Sound, MutexInv, MutexTypeOK
<1> USE DEF Leave, Finishing, Close
<1>1. CASE Find(u)
  BY <1>1, TypingParts DEF Find, ScanFile, mutexVars, Sound
<1>2. CASE ClaimHashes(u) \/ CleanUpClaim(u)
  BY <1>0, <1>2 DEF ClaimHashes, CleanUpClaim, Claim, Attempt, WaitOver, CleanUp, taskVars
<1>3. CASE BeginFails(u) \/ UpdateClashes(u) \/ Update(u) \/ Commit(u) \/ LeaveNew(u)
  BY <1>3, TypingParts DEF BeginFails, UpdateClashes, Update, Commit, LeaveNew, mutexVars, Sound
<1>4. CASE Lookup(u)
  BY <1>4, TypingParts DEF Lookup, mutexVars, Sound
<1>5. CASE Write(u) \/ WriteGallery(u)
  BY <1>5, TypingParts DEF Write, WriteGallery, WriteNew, Create, Move, mutexVars, Sound
<1> QED
  BY <1>1, <1>2, <1>3, <1>4, <1>5 DEF TaskStep

\* The loop starts a task that it has taken, once, and waits for all of them.
LoopInv ==
  /\ job = "adding" => next \in Tasks /\ at[next] = "queued"
  /\ job \in {"waiting", "over"} => cancelled \/ \A t \in Tasks : at[t] # "queued"
  /\ job = "over" => \A t \in Tasks : at[t] \in {"queued", "over"}

DiligentInv == AllDiligent /\ LoopInv

LEMMA DiligentInit == Init => DiligentInv
BY DEF Init, MutexInit, DiligentInv, AllDiligent, Diligent, LoopInv, Early

LEMMA SameClaims ==
  ASSUME NEW t, fileVars' = fileVars, calls'[t] = calls[t]
  PROVE  HasClaims(t)' <=> HasClaims(t)
BY DEF HasClaims, KeysOf, Kinds, fileVars

LEMMA FilesStay == ASSUME [Next]_vars PROVE fileVars' = fileVars
BY DEF Next, vars, fileVars, LoopStep, CancelScan, Ended, StartTask, EndLoop,
       Finish, Take, TaskStep, Find, ClaimHashes, CleanUpClaim, BeginFails,
       UpdateClashes, Update, Commit, Lookup, Write, WriteGallery, LeaveNew

LEMMA DiligentTask ==
  ASSUME Sound, NEW t \in Tasks, Diligent(t), TaskStep(t), fileVars' = fileVars
  PROVE  Diligent(t)'
<1> USE DEF Leave, Finishing, Diligent, Early, fileVars
<1>0. calls \in [Tasks -> [Keys -> Call]] /\ closed \subseteq Tasks
  BY DEF Sound, MutexInv, MutexTypeOK
<1>1. CASE Find(t)
  BY <1>1, TypingParts DEF Find, ScanFile, mutexVars, Sound
<1>2. CASE ClaimHashes(t)
  BY <1>0, <1>2 DEF ClaimHashes, Claim, Attempt, WaitOver, taskVars
<1>3. CASE CleanUpClaim(t)
  <2>1. t \in closed /\ closed' = closed /\ UNCHANGED taskVars
    BY <1>3 DEF CleanUpClaim, CleanUp
  <2> QED
    BY <2>1 DEF taskVars
<1>4. CASE BeginFails(t) \/ UpdateClashes(t) \/ Update(t) \/ Commit(t)
  <2>1. at[t] \in {"claiming", "committing"}
    BY <1>4 DEF BeginFails, UpdateClashes, Update, Updating, Commit
  <2> QED
    BY <1>4, <2>1, TypingParts
    DEF BeginFails, UpdateClashes, Update, Updating, Commit, Close, mutexVars, Sound
<1>5. CASE Lookup(t)
  <2>1. HasClaims(t)'
    BY <1>5, SameClaims DEF Lookup, Looking, mutexVars
  <2> QED
    BY <1>5, <2>1, TypingParts DEF Lookup, Looking, mutexVars, Sound
<1>6. CASE Write(t) \/ WriteGallery(t)
  BY <1>6, TypingParts
  DEF Write, WriteGallery, Looking, WriteNew, Create, Move, mutexVars, Sound
<1>7. CASE LeaveNew(t)
  BY <1>7, TypingParts DEF LeaveNew, Close, Sound
<1> QED
  BY <1>1, <1>2, <1>3, <1>4, <1>5, <1>6, <1>7 DEF TaskStep

LEMMA TaskPlaces ==
  ASSUME Sound, NEW t \in Tasks, TaskStep(t)
  PROVE  /\ UNCHANGED jobVars
         /\ at'[t] = at[t] \/ (at[t] \notin {"queued", "over"} /\ at'[t] # "queued")
<1> USE DEF Leave, Finishing
<1>1. CASE Find(t)
  BY <1>1, TypingParts DEF Find, ScanFile, Sound
<1>2. CASE ClaimHashes(t) \/ CleanUpClaim(t)
  BY <1>2 DEF ClaimHashes, CleanUpClaim, taskVars
<1>3. CASE BeginFails(t) \/ UpdateClashes(t) \/ Update(t) \/ Commit(t) \/ LeaveNew(t)
  BY <1>3, TypingParts DEF BeginFails, UpdateClashes, Update, Updating, Commit, LeaveNew, Sound
<1>4. CASE Lookup(t)
  BY <1>4, TypingParts DEF Lookup, Looking, Sound
<1>5. CASE Write(t) \/ WriteGallery(t)
  BY <1>5, TypingParts DEF Write, WriteGallery, Looking, WriteNew, Create, Move, Sound
<1> QED
  BY <1>1, <1>2, <1>3, <1>4, <1>5 DEF TaskStep

\* A step of the loop or of the user: a task that waited may start.
LEMMA LoopPlaces ==
  ASSUME Sound, LoopInv, LoopStep \/ CancelScan \/ UNCHANGED vars
  PROVE  /\ UNCHANGED <<mutexVars, items, writer, known, old, found, result, fileVars>>
         /\ \A t \in Tasks : at'[t] = at[t] \/ (at[t] = "queued" /\ at'[t] = "started")
<1>1. CASE StartTask
  BY <1>1, TypingParts DEF StartTask, LoopInv, Sound
<1> QED
  BY <1>1 DEF LoopStep, EndLoop, Finish, Take, CancelScan, vars, taskVars

LEMMA DiligentStep == Sound /\ DiligentInv /\ [Next]_vars => DiligentInv'
<1> SUFFICES ASSUME Sound, DiligentInv, [Next]_vars PROVE DiligentInv'
  OBVIOUS
<1>0. fileVars' = fileVars /\ AllDiligent /\ LoopInv
  BY FilesStay DEF DiligentInv
<1>1. CASE LoopStep \/ CancelScan \/ UNCHANGED vars
  <2>1. /\ UNCHANGED <<mutexVars, items, writer, known, old, found, result, fileVars>>
        /\ \A t \in Tasks : at'[t] = at[t] \/ (at[t] = "queued" /\ at'[t] = "started")
    BY <1>0, <1>1, LoopPlaces
  <2>2. ASSUME NEW t \in Tasks PROVE Diligent(t)'
    <3>1. HasClaims(t)' <=> HasClaims(t)
      BY <1>0, <2>1, SameClaims DEF mutexVars
    <3> QED
      BY <1>0, <2>1, <3>1 DEF AllDiligent, Diligent, Early, mutexVars, fileVars
  <2>3. LoopInv'
    <3>1. CASE StartTask
      BY <1>0, <2>1, <3>1 DEF StartTask, LoopInv
    <3>2. CASE Finish
      BY <1>0, <3>2 DEF Finish, Running, LoopInv, taskVars
    <3>3. CASE EndLoop \/ CancelScan \/ UNCHANGED vars \/ (\E t \in Tasks : Take(t))
      BY <1>0, <3>3 DEF EndLoop, CancelScan, Take, LoopInv, taskVars, vars, jobVars
    <3> QED
      BY <1>1, <3>1, <3>2, <3>3 DEF LoopStep
  <2> QED
    BY <2>2, <2>3 DEF DiligentInv, AllDiligent
<1>2. ASSUME NEW u \in Tasks, TaskStep(u) PROVE DiligentInv'
  <2>1. ASSUME NEW t \in Tasks PROVE Diligent(t)'
    <3>1. CASE t = u
      BY <1>0, <1>2, <3>1, DiligentTask DEF AllDiligent
    <3>2. CASE t # u
      <4>1. /\ at'[t] = at[t] /\ result'[t] = result[t] /\ known'[t] = known[t]
            /\ old'[t] = old[t] /\ calls'[t] = calls[t]
            /\ t \in closed' <=> t \in closed
        BY <1>2, <3>2, OthersAlone
      <4>2. HasClaims(t)' <=> HasClaims(t)
        BY <1>0, <4>1, SameClaims
      <4>3. at[t] = "committing" => writer' = writer
        <5> SUFFICES ASSUME at[t] = "committing" PROVE writer' = writer
          OBVIOUS
        <5>1. writer = t /\ t # NoTask
          BY <1>0, NoTaskAssumption DEF AllDiligent, Diligent
        <5>2. CASE Update(u) \/ Commit(u)
          BY <1>0, <3>2, <5>1, <5>2 DEF Update, Updating, Commit, AllDiligent, Diligent
        <5> QED
          BY <1>2, <5>2 DEF TaskStep, Find, ClaimHashes, CleanUpClaim, BeginFails, UpdateClashes,
             Lookup, Write, WriteGallery, LeaveNew, taskVars
      <4> QED
        BY <1>0, <4>1, <4>2, <4>3 DEF AllDiligent, Diligent, Early, fileVars
    <3> QED
      BY <3>1, <3>2
  <2>2. \A t \in Tasks :
          at'[t] = at[t] \/ (at[t] \notin {"queued", "over"} /\ at'[t] # "queued")
    BY <1>2, TaskPlaces, OthersAlone
  <2>3. LoopInv'
    BY <1>0, <1>2, <2>2, TaskPlaces DEF LoopInv, jobVars
  <2> QED
    BY <2>1, <2>3 DEF DiligentInv, AllDiligent
<1> QED
  BY <1>1, <1>2 DEF Next, Ended

(***************************************************************************)
(* The steps by what they do to items and to what tasks know: most do      *)
(* nothing to either.                                                      *)
(***************************************************************************)
Mild ==
  /\ UNCHANGED <<items, known, old, fileVars>>
  /\ \A t \in Tasks :
       /\ at'[t] \in Early <=> at[t] \in Early
       /\ at'[t] = "writing" => at[t] = "writing" /\ found'[t] = found[t]
       /\ at'[t] = "committing" => at[t] = "committing" \/ ~Clashes(t)
       /\ \/ result'[t] = result[t]
          \/ result[t] = "none" /\ result'[t] \in {"failed", "clash"}
          \/ /\ result[t] = "none" /\ result'[t] \in {"collision", "duplicate"}
             /\ Recorded(content[t])

Finds(t, i) ==
  /\ at[t] = "started" /\ UNCHANGED <<items, found, fileVars>>
  /\ IF i = 0 THEN \A j \in DOMAIN items : items[j].path # t
              ELSE i \in DOMAIN items /\ items[i].path = t
  /\ known' = [known EXCEPT ![t] = i]
  /\ old' = [old EXCEPT ![t] = IF i = 0 THEN NoPath ELSE items[i].hash]
  /\ \E a \in {"claiming", "over"} : at' = [at EXCEPT ![t] = a]
  /\ \E o \in {"none", "failed", "unchanged"} :
       /\ result' = [result EXCEPT ![t] = o]
       /\ o = "unchanged" => i # 0 /\ items[i].hash = content[t]

Searches(t, i) ==
  /\ at[t] = "claiming" /\ known[t] = 0 /\ Knows(t, i)
  /\ at' = [at EXCEPT ![t] = "writing"] /\ found' = [found EXCEPT ![t] = i]
  /\ UNCHANGED <<result, items, known, old, fileVars>>

Ends(t, place, outcome) ==
  /\ at' = [at EXCEPT ![t] = place] /\ result' = [result EXCEPT ![t] = outcome]
  /\ UNCHANGED <<known, old, found, fileVars>>

Stores(t) ==
  /\ at[t] = "committing" /\ Ends(t, "over", "updated")
  /\ known[t] \in DOMAIN items /\ DOMAIN items' = DOMAIN items
  /\ items'[known[t]].path = t /\ items'[known[t]].hash = content[t]
  /\ \A j \in DOMAIN items : j # known[t] => items'[j] = items[j]

\* A new file becomes an item, while nobody else is about to write its contents.
Becomes(t) ==
  /\ at[t] \in {"claiming", "writing"} /\ known[t] = 0 /\ result[t] = "none"
  /\ writer = NoTask
  /\ \A u \in Tasks \ {t} : at[u] = "writing" => content[u] # content[t]

Creates(t, n) ==
  /\ Becomes(t) /\ Knows(t, 0) /\ Ends(t, "finishing", "created")
  /\ unique => \A j \in DOMAIN items : items[j].hash # content[t]
  /\ n \notin DOMAIN items /\ n # 0 /\ DOMAIN items' = DOMAIN items \cup {n}
  /\ items'[n].path = t /\ items'[n].hash = content[t]
  /\ \A j \in DOMAIN items : items'[j] = items[j]

Moves(t, i) ==
  /\ Becomes(t) /\ Knows(t, i) /\ Ends(t, "finishing", "moved")
  /\ i \in DOMAIN items /\ i # 0 /\ DOMAIN items' = DOMAIN items
  /\ items'[i].path = t /\ items'[i].hash = items[i].hash
  /\ \A j \in DOMAIN items : j # i => items'[j] = items[j]

\* Two tasks that hold the hashes of the same contents are one.
LEMMA ClaimsApart ==
  ASSUME Sound, AllDiligent, NEW t \in Tasks, HasClaims(t), t \notin closed,
         NEW u \in Tasks, at[u] = "writing", content[u] = content[t]
  PROVE  u = t
<1>1. Exclusive /\ FilesOK
  BY InvMakesExclusive DEF Sound, TypeOK, FilesOK
<1>2. HasClaims(u) /\ u \notin closed
  BY DEF AllDiligent, Diligent
<1>3. 1 \in DOMAIN Kinds
  BY DEF Kinds
<1>4. KeysOf(t)[1] = KeysOf(u)[1] /\ KeysOf(t)[1] \in Keys
  BY <1>1, <1>3, KeysAreKeys DEF KeysOf
<1>5. Holds(t, KeysOf(t)[1]) /\ Holds(u, KeysOf(t)[1])
  BY <1>2, <1>3, <1>4 DEF HasClaims, Holds
<1> QED
  BY <1>1, <1>4, <1>5 DEF Exclusive

\* What a look under the hash tells.
LEMMA LookupKnows ==
  ASSUME Sound, ItemsInv, NEW t \in Tasks, NEW i \in FindByHash(content[t])
  PROVE  IF IsDuplicate(t, i) THEN Recorded(content[t]) ELSE Knows(t, i)
<1>1. i # 0 => i \in DOMAIN items /\ items[i].hash = content[t]
  BY IdsTyped DEF Sound
<1>2. CASE IsDuplicate(t, i)
  BY <1>1, <1>2 DEF IsDuplicate, FileExists, Recorded
<1>3. CASE ~IsDuplicate(t, i) /\ i # 0
  BY <1>1, <1>3 DEF IsDuplicate, FileExists, Knows, SameName
<1>4. CASE i = 0
  <2>1. \A j \in DOMAIN items : items[j].hash # content[t]
    BY <1>4, IdsTyped DEF FindByHash, Ids, Sound
  <2>2. ASSUME NEW u \in Tasks \ {t}, content[u] = content[t], Became(u)
        PROVE  Replaced(content[t])
    BY <2>1, <2>2 DEF ItemsInv, HasItem
  <2> QED
    BY <1>4, <2>1, <2>2 DEF Knows, IsDuplicate
<1> QED
  BY <1>2, <1>3, <1>4

LEMMA WriteEffect ==
  ASSUME Sound, AllDiligent, ItemsInv, NEW t \in Tasks, NEW i \in 0..Len(items),
         Knows(t, i), WriteNew(t, i), HasClaims(t), t \notin closed, known[t] = 0,
         at[t] \in {"claiming", "writing"}, UNCHANGED <<known, old, found, fileVars>>
  PROVE  Mild \/ \E n : Creates(t, n) \/ Moves(t, n)
<1>0. /\ TypeOK /\ at \in [Tasks -> States] /\ result \in [Tasks -> Outcomes]
      /\ result[t] = "none"
  BY TypingParts DEF Sound, AllDiligent, Diligent
<1>1. writer = NoTask /\ at' = [at EXCEPT ![t] = "finishing"]
  BY <1>0, WriteNewEffect
<1>2. Becomes(t)
  BY <1>0, <1>1, ClaimsApart DEF Becomes
<1>3. CASE /\ result' = [result EXCEPT ![t] = "created"] /\ items' = Added(t)
           /\ i = 0 /\ ~HashTaken(t)
  <2> DEFINE n == Len(items) + 1
  <2>1. Ends(t, "finishing", "created")
    BY <1>1, <1>3 DEF Ends
  <2>2. unique => \A j \in DOMAIN items : items[j].hash # content[t]
    <3> SUFFICES ASSUME unique, NEW j \in DOMAIN items, items[j].hash = content[t] PROVE FALSE
      OBVIOUS
    <3>1. j \in FindByHash(content[t]) /\ j # 0
      BY <1>0, IdsTyped DEF FindByHash, Ids
    <3> QED
      BY <1>3, <3>1 DEF HashTaken
  <2>3. /\ DOMAIN items = 1..Len(items) /\ DOMAIN Added(t) = 1..n /\ Len(items) \in Nat
        /\ \A j \in DOMAIN items : Added(t)[j] = items[j]
        /\ Added(t)[n] = [path |-> t, hash |-> content[t]]
    BY <1>0, AddedTyped
  <2>4. n \notin DOMAIN items /\ n # 0 /\ DOMAIN Added(t) = DOMAIN items \cup {n}
    BY <2>3
  <2> HIDE DEF n
  <2>5. /\ DOMAIN items' = DOMAIN items \cup {n} /\ \A j \in DOMAIN items : items'[j] = items[j]
        /\ items'[n].path = t /\ items'[n].hash = content[t]
    <3>1. items' = Added(t)
      BY <1>3
    <3>2. items'[n] = [path |-> t, hash |-> content[t]]
      BY <2>3, <3>1
    <3>3. \A j \in DOMAIN items : items'[j] = items[j]
      BY <2>3, <3>1
    <3>4. DOMAIN items' = DOMAIN items \cup {n}
      BY <2>4, <3>1
    <3> QED
      BY <3>2, <3>3, <3>4
  <2>6. Knows(t, 0)
    BY <1>3
  <2>7. Creates(t, n)
    BY <1>2, <2>1, <2>2, <2>4, <2>5, <2>6 DEF Creates
  <2> QED
    BY <2>7
<1>4. CASE /\ result' = [result EXCEPT ![t] = "moved"] /\ items' = Moved(t, i)
           /\ i \in DOMAIN items
  <2>1. Ends(t, "finishing", "moved")
    BY <1>1, <1>4 DEF Ends
  <2>2. i # 0
    BY <1>0, <1>4, IdsTyped
  <2>3. /\ DOMAIN Moved(t, i) = DOMAIN items
        /\ Moved(t, i)[i] = [path |-> t, hash |-> items[i].hash]
        /\ \A j \in DOMAIN items : j # i => Moved(t, i)[j] = items[j]
    BY <1>0, <1>4, MovedTyped
  <2>4. Moves(t, i)
    BY <1>2, <1>4, <2>1, <2>2, <2>3 DEF Moves
  <2> QED
    BY <2>4
<1>5. CASE /\ result' = [result EXCEPT ![t] = "collision"] /\ items' = items
           /\ \/ i = 0 /\ HashTaken(t)
              \/ \E j \in DOMAIN items : items[j].path = t
  <2>1. ~Became(t) /\ at[t] \notin Early
    BY <1>0 DEF Became, Early
  <2>2. \A j \in DOMAIN items : items[j].path # t
    BY <2>1 DEF ItemsInv, HasNoItem
  <2>3. i = 0 /\ FindByHash(content[t]) # {0}
    BY <1>5, <2>2 DEF HashTaken
  <2>4. PICK j \in DOMAIN items : items[j].hash = content[t]
    BY <2>3 DEF FindByHash, Ids
  <2>5. Recorded(content[t])
    BY <2>3, <2>4 DEF Knows, Recorded
  <2> QED
    BY <1>0, <1>1, <1>5, <2>5 DEF Mild, Early
<1>6. CASE result' = [result EXCEPT ![t] = "failed"] /\ items' = items
  BY <1>0, <1>1, <1>6 DEF Mild, Early
<1> QED
  BY <1>0, <1>3, <1>4, <1>5, <1>6, WriteNewEffect

LEMMA Effects ==
  ASSUME Sound, DiligentInv, ItemsInv, NEW t \in Tasks, TaskStep(t)
  PROVE  Mild \/ Stores(t) \/ \E i : Finds(t, i) \/ Searches(t, i) \/ Creates(t, i) \/ Moves(t, i)
<1>0. /\ TypeOK /\ at \in [Tasks -> States] /\ result \in [Tasks -> Outcomes]
      /\ Diligent(t) /\ AllDiligent
  BY TypingParts DEF Sound, AllDiligent, DiligentInv
<1> USE DEF Leave, Finishing
<1>1. CASE Find(t)
  <2>1. PICK i \in FindByPath(t) :
          /\ known' = [known EXCEPT ![t] = i]
          /\ old' = [old EXCEPT ![t] = IF i = 0 THEN NoPath ELSE items[i].hash]
          /\ ScanFile(t, i)
    BY <1>1 DEF Find
  <2>2. /\ at[t] = "started" /\ UNCHANGED <<items, found, fileVars>>
        /\ result[t] = "none"
    BY <1>0, <1>1 DEF Find, Diligent
  <2>3. IF i = 0 THEN \A j \in DOMAIN items : items[j].path # t
                 ELSE i \in DOMAIN items /\ items[i].path = t
    BY <1>0, IdsTyped DEF FindByPath, Ids
  <2>4. \E a \in {"claiming", "over"} : at' = [at EXCEPT ![t] = a]
    BY <2>1 DEF ScanFile
  <2>5. \E o \in {"none", "failed", "unchanged"} :
          /\ result' = [result EXCEPT ![t] = o]
          /\ o = "unchanged" => i # 0 /\ items[i].hash = content[t]
    <3>1. result = [result EXCEPT ![t] = "none"]
      BY <1>0, <2>2
    <3> QED
      BY <2>1, <3>1 DEF ScanFile
  <2>6. Finds(t, i)
    BY <2>1, <2>2, <2>3, <2>4, <2>5 DEF Finds
  <2> QED
    BY <2>6
<1>2. CASE ClaimHashes(t) \/ CleanUpClaim(t)
  BY <1>2 DEF ClaimHashes, CleanUpClaim, taskVars, Mild
<1>3. CASE BeginFails(t) \/ UpdateClashes(t) \/ Update(t) \/ LeaveNew(t)
  BY <1>0, <1>3
  DEF BeginFails, UpdateClashes, Update, Updating, LeaveNew, Mild, Early, Diligent, mutexVars
<1>4. CASE Commit(t)
  <2>1. at[t] = "committing" /\ known[t] # 0 /\ result[t] = "none"
    BY <1>0, <1>4 DEF Commit, Diligent
  <2>2. CASE Leave(t, "failed") /\ UNCHANGED items
    BY <1>0, <1>4, <2>1, <2>2 DEF Commit, Mild, Early
  <2>3. CASE Leave(t, "updated") /\ items' = Stored(t)
    <3>1. known[t] \in DOMAIN items
      BY <1>0, <2>1, TypingParts, IdsTyped
    <3>2. /\ DOMAIN Stored(t) = DOMAIN items
          /\ Stored(t)[known[t]] = [path |-> t, hash |-> content[t]]
          /\ \A j \in DOMAIN items : j # known[t] => Stored(t)[j] = items[j]
      BY <3>1 DEF Stored
    <3>3. Ends(t, "over", "updated")
      BY <1>4, <2>3 DEF Commit, Ends
    <3> QED
      BY <2>1, <2>3, <3>1, <3>2, <3>3 DEF Stores
  <2> QED
    BY <1>4, <2>2, <2>3 DEF Commit, Stored
<1>5. CASE Lookup(t)
  <2>1. PICK i \in FindByHash(content[t]) :
          /\ found' = [found EXCEPT ![t] = i]
          /\ IF IsDuplicate(t, i)
             THEN Finishing(t, "duplicate")
             ELSE at' = [at EXCEPT ![t] = "writing"] /\ UNCHANGED result
    BY <1>5 DEF Lookup
  <2>2. /\ at[t] = "claiming" /\ known[t] = 0 /\ UNCHANGED <<items, known, old, fileVars>>
        /\ result[t] = "none"
    BY <1>0, <1>5 DEF Lookup, Looking, Diligent
  <2>3. CASE IsDuplicate(t, i)
    <3>1. Recorded(content[t])
      BY <2>3, LookupKnows
    <3>2. \A u \in Tasks : u # t => found'[u] = found[u]
      BY <1>0, <2>1, TypingParts
    <3> QED
      BY <1>0, <2>1, <2>2, <2>3, <3>1, <3>2 DEF Mild, Early
  <2>4. CASE ~IsDuplicate(t, i)
    <3>1. Searches(t, i)
      BY <2>1, <2>2, <2>4, LookupKnows DEF Searches
    <3> QED
      BY <3>1
  <2> QED
    BY <2>3, <2>4
<1>6. CASE Write(t)
  <2>1. /\ at[t] = "writing" /\ HasClaims(t) /\ known[t] = 0 /\ t \notin closed
        /\ WriteNew(t, found[t]) /\ UNCHANGED <<known, old, found, fileVars>>
    BY <1>0, <1>6 DEF Write, Diligent
  <2>2. Knows(t, found[t]) /\ found[t] \in 0..Len(items)
    BY <1>0, <2>1, TypingParts DEF ItemsInv, KnowsFound
  <2> QED
    BY <1>0, <2>1, <2>2, WriteEffect
<1>7. CASE WriteGallery(t)
  <2>1. PICK i \in FindByHash(content[t]) :
          IF ~cancelled /\ IsDuplicate(t, i)
          THEN Finishing(t, "duplicate") /\ UNCHANGED items
          ELSE WriteNew(t, i)
    BY <1>7 DEF WriteGallery
  <2>2. /\ at[t] = "claiming" /\ HasClaims(t) /\ known[t] = 0 /\ t \notin closed
        /\ UNCHANGED <<known, old, found, fileVars>> /\ result[t] = "none"
    BY <1>0, <1>7 DEF WriteGallery, Looking, Diligent
  <2>3. CASE IsDuplicate(t, i)
    <3>1. Recorded(content[t])
      BY <2>3, LookupKnows
    <3>2. CASE Finishing(t, "duplicate") /\ UNCHANGED items
      BY <1>0, <2>2, <3>1, <3>2 DEF Mild, Early
    <3>3. CASE cancelled /\ WriteNew(t, i)
      BY <1>0, <2>2, <3>3 DEF WriteNew, Mild, Early
    <3> QED
      BY <2>1, <2>3, <3>2, <3>3
  <2>4. CASE ~IsDuplicate(t, i)
    <3>1. Knows(t, i) /\ WriteNew(t, i) /\ i \in 0..Len(items)
      BY <1>0, <2>1, <2>4, LookupKnows, IdsTyped
    <3> QED
      BY <1>0, <2>2, <3>1, WriteEffect
  <2> QED
    BY <2>3, <2>4
<1> QED
  BY <1>1, <1>2, <1>3, <1>4, <1>5, <1>6, <1>7 DEF TaskStep

Effect ==
  \/ Mild
  \/ \E t \in Tasks :
       Stores(t) \/ \E i : Finds(t, i) \/ Searches(t, i) \/ Creates(t, i) \/ Moves(t, i)

ItemsState == Sound /\ DiligentInv /\ ItemsInv

LEMMA EffectOfStep == ItemsState /\ [Next]_vars => Effect
<1> SUFFICES ASSUME ItemsState, [Next]_vars PROVE Effect
  OBVIOUS
<1> USE DEF ItemsState
<1>1. CASE LoopStep \/ CancelScan \/ UNCHANGED vars
  <2>1. /\ UNCHANGED <<items, known, old, found, result, fileVars>>
        /\ \A t \in Tasks : at'[t] = at[t] \/ (at[t] = "queued" /\ at'[t] = "started")
    BY <1>1, LoopPlaces DEF DiligentInv
  <2> QED
    BY <2>1 DEF Effect, Mild, Early
<1>2. CASE \E t \in Tasks : TaskStep(t)
  BY <1>2, Effects DEF Effect
<1> QED
  BY <1>1, <1>2 DEF Next, Ended

LEMMA FilesKept ==
  ASSUME Effect
  PROVE  UNCHANGED fileVars /\ UNCHANGED <<media, content, unique>>
         /\ \A p, q : SameName(p, q)' <=> SameName(p, q)
BY DEF Effect, Mild, Stores, Finds, Searches, Creates, Moves, Ends, fileVars, SameName, FoldsCase

LEMMA ReplacedStays ==
  ASSUME ItemsState, Effect, NEW h \in Contents, Replaced(h)
  PROVE  Replaced(h)'
<1>1. PICK u \in Tasks : old[u] = h /\ content[u] # h
  BY DEF Replaced
<1>2. old'[u] = old[u]
  <2>1. CASE UNCHANGED old
    BY <2>1
  <2>2. ASSUME NEW t \in Tasks, NEW i, Finds(t, i) PROVE old'[u] = old[u]
    <3>1. old[t] = NoPath
      BY <2>2 DEF Finds, ItemsState, DiligentInv, AllDiligent, Diligent, Early
    <3>2. u # t
      BY <1>1, <3>1, ScanAssumption
    <3> QED
      BY <2>2, <3>2, TypingParts DEF Finds, ItemsState, Sound
  <2> QED
    BY <2>1, <2>2 DEF Effect, Mild, Stores, Searches, Creates, Moves, Ends
<1> QED
  BY <1>1, <1>2, FilesKept DEF Replaced

\* What is stored over an item's hash was its task's to change.
LEMMA StoresOver ==
  ASSUME ItemsState, NEW t \in Tasks, Stores(t)
  PROVE  /\ known[t] # 0 /\ known[t] \in DOMAIN items
         /\ items[known[t]].hash = old[t] /\ result[t] = "none"
         /\ \/ items[known[t]].hash = content[t]
            \/ \A j \in DOMAIN items : items[j].hash # content[t]
         /\ old[t] = content[t] \/ Replaced(old[t])
<1>1. known[t] # 0 /\ known[t] \in DOMAIN items /\ result[t] = "none"
  BY TypingParts
  DEF Stores, ItemsState, DiligentInv, AllDiligent, Diligent, Sound, Outcomes
<1>2. items[known[t]].hash = old[t]
  BY <1>1 DEF ItemsState, ItemsInv, KnownHash
<1>3. ~Clashes(t)
  BY DEF Stores, ItemsState, ItemsInv, WontClash
<1>4. CASE old[t] # content[t]
  <2>1. FindByHash(content[t]) = {0}
    BY <1>3, <1>4 DEF Clashes
  <2>2. \A j \in DOMAIN items : items[j].hash # content[t]
    BY <2>1, IdsTyped DEF FindByHash, Ids, ItemsState, Sound
  <2>3. Replaced(old[t])
    BY <1>4 DEF Replaced
  <2> QED
    BY <1>1, <1>2, <2>2, <2>3
<1> QED
  BY <1>1, <1>2, <1>4

LEMMA RecordedStays ==
  ASSUME ItemsState, Effect, NEW h \in Contents, Recorded(h)
  PROVE  Recorded(h)'
<1> SUFFICES ASSUME ~Replaced(h), ~Replaced(h)' PROVE Recorded(h)'
  BY ReplacedStays DEF Recorded
<1>1. PICK i \in DOMAIN items : items[i].hash = h /\ items[i].path \in Tasks
  BY DEF Recorded
<1>2. CASE items' = items
  BY <1>1, <1>2 DEF Recorded
<1>3. ASSUME NEW t \in Tasks, Stores(t) PROVE Recorded(h)'
  <2>1. CASE i = known[t]
    <3>1. content[t] = h
      BY <1>1, <1>3, <2>1, StoresOver
    <3> QED
      BY <1>1, <1>3, <2>1, <3>1 DEF Stores, Recorded
  <2>2. CASE i # known[t]
    BY <1>1, <1>3, <2>2 DEF Stores, Recorded
  <2> QED
    BY <2>1, <2>2
<1>4. ASSUME NEW t \in Tasks, NEW n, Creates(t, n) PROVE Recorded(h)'
  BY <1>1, <1>4 DEF Creates, Recorded
<1>5. ASSUME NEW t \in Tasks, NEW n, Moves(t, n) PROVE Recorded(h)'
  <2>1. items'[i].hash = h /\ items'[i].path \in Tasks
    BY <1>1, <1>5 DEF Moves
  <2> QED
    BY <1>1, <1>5, <2>1 DEF Moves, Recorded
<1> QED
  BY <1>2, <1>3, <1>4, <1>5 DEF Effect, Mild, Finds, Searches

\* Nobody becomes an item without one of the two steps for it.
LEMMA WhoBecomes ==
  ASSUME ItemsState, Effect, NEW u \in Tasks, Became(u)'
  PROVE  Became(u) \/ \E n : Creates(u, n) \/ Moves(u, n)
<1>0. result \in [Tasks -> Outcomes]
  BY TypingParts DEF ItemsState, Sound
<1>1. CASE Mild
  BY <1>1 DEF Mild, Became
<1>2. ASSUME NEW t \in Tasks, Stores(t) PROVE Became(u)
  BY <1>0, <1>2 DEF Stores, Ends, Became
<1>3. ASSUME NEW t \in Tasks, NEW i, Finds(t, i) \/ Searches(t, i) PROVE Became(u)
  BY <1>0, <1>3 DEF Finds, Searches, Became
<1>4. ASSUME NEW t \in Tasks, NEW i, Creates(t, i) \/ Moves(t, i), t # u PROVE Became(u)
  BY <1>0, <1>4 DEF Creates, Moves, Ends, Became
<1> QED
  BY <1>1, <1>2, <1>3, <1>4 DEF Effect

LEMMA KnowsStays ==
  ASSUME ItemsState, Effect, NEW t \in Tasks, at[t] = "writing", at'[t] = "writing",
         NEW i \in DOMAIN items \cup {0}, Knows(t, i)
  PROVE  Knows(t, i)'
<1>0. /\ at \in [Tasks -> States] /\ content[t] \in Contents
      /\ content' = content /\ \A p, q : SameName(p, q)' <=> SameName(p, q)
      /\ Replaced(content[t]) => Replaced(content[t])'
  BY TypingParts, FilesKept, ReplacedStays DEF ItemsState, Sound
<1>1. CASE i = 0
  <2> SUFFICES ASSUME ~Replaced(content[t])' PROVE Knows(t, i)'
    BY <1>1 DEF Knows
  <2>1. /\ \A j \in DOMAIN items : items[j].hash = content[t] => items[j].path \in Tasks
        /\ \A u \in Tasks \ {t} : content[u] = content[t] => ~Became(u)
    BY <1>0, <1>1 DEF Knows
  <2>2. ASSUME NEW j \in DOMAIN items', items'[j].hash = content[t]
        PROVE  items'[j].path \in Tasks
    <3>1. CASE items' = items
      BY <2>1, <2>2, <3>1
    <3>2. ASSUME NEW u \in Tasks, Stores(u) PROVE items'[j].path \in Tasks
      BY <2>1, <2>2, <3>2 DEF Stores
    <3>3. ASSUME NEW u \in Tasks, NEW n, Creates(u, n) PROVE items'[j].path \in Tasks
      BY <2>1, <2>2, <3>3 DEF Creates
    <3>4. ASSUME NEW u \in Tasks, NEW n, Moves(u, n) PROVE items'[j].path \in Tasks
      BY <2>1, <2>2, <3>4 DEF Moves
    <3> QED
      BY <3>1, <3>2, <3>3, <3>4 DEF Effect, Mild, Finds, Searches
  <2>3. ASSUME NEW u \in Tasks \ {t}, content[u] = content[t], Became(u)' PROVE FALSE
    <3>1. Becomes(u)
      BY <2>1, <2>3, WhoBecomes DEF Creates, Moves
    <3> QED
      BY <2>3, <3>1 DEF Becomes
  <2> QED
    BY <1>0, <1>1, <2>2, <2>3 DEF Knows
<1>2. CASE i # 0
  <2>0. /\ i \in DOMAIN items
        /\ items[i].hash = content[t] \/ Replaced(content[t])
        /\ IF items[i].path \in Tasks THEN SameName(t, items[i].path)
                                     ELSE items[i].hash = content[t]
    BY <1>2 DEF Knows
  <2>1. CASE items' = items
    BY <1>0, <1>2, <2>0, <2>1 DEF Knows
  <2>2. ASSUME NEW u \in Tasks, Stores(u) PROVE Knows(t, i)'
    <3>1. CASE i = known[u]
      <4>1. items'[i].path = u /\ items'[i].hash = content[u] /\ i \in DOMAIN items'
        BY <2>2, <3>1 DEF Stores
      <4>2. /\ items[i].hash = old[u]
            /\ old[u] = content[u] \/ Replaced(old[u])
            /\ items[i].path \in Tasks
            /\ items[i].path = u \/ SameName(u, items[i].path)
        BY <1>2, <2>2, <3>1, StoresOver DEF ItemsState, ItemsInv, KnownFile
      <4>3. SameName(t, u)
        BY <2>0, <4>2 DEF SameName
      <4>4. content[u] = content[t] \/ Replaced(content[t])
        BY <2>0, <4>2
      <4> QED
        BY <1>0, <1>2, <4>1, <4>3, <4>4 DEF Knows
    <3>2. CASE i # known[u]
      BY <1>0, <1>2, <2>0, <2>2, <3>2 DEF Knows, Stores
    <3> QED
      BY <3>1, <3>2
  <2>3. ASSUME NEW u \in Tasks, NEW n, Creates(u, n) PROVE Knows(t, i)'
    BY <1>0, <1>2, <2>0, <2>3 DEF Knows, Creates
  <2>4. ASSUME NEW u \in Tasks, NEW n, Moves(u, n) PROVE Knows(t, i)'
    <3>1. CASE i = n
      <4>1. items'[i].path = u /\ items'[i].hash = items[i].hash
        BY <2>4, <3>1 DEF Moves
      <4>2. /\ Knows(u, i) /\ Becomes(u) /\ u # t
        BY <1>0, <2>4, <3>1 DEF Moves, Ends
      <4>3. content[u] # content[t]
        BY <4>2 DEF Becomes
      <4>4. items[i].path \in Tasks
        <5>1. CASE items[i].path \notin Tasks
          BY <1>2, <2>0, <4>2, <4>3, <5>1 DEF Knows
        <5> QED
          BY <5>1
      <4>5. SameName(t, items[i].path) /\ SameName(u, items[i].path)
        BY <1>2, <2>0, <4>2, <4>4 DEF Knows
      <4>6. SameName(t, u)
        BY <4>5 DEF SameName
      <4> QED
        BY <1>0, <1>2, <2>0, <4>1, <4>6 DEF Knows
    <3>2. CASE i # n
      BY <1>0, <1>2, <2>0, <2>4, <3>2 DEF Knows, Moves
    <3> QED
      BY <3>1, <3>2
  <2> QED
    BY <2>1, <2>2, <2>3, <2>4 DEF Effect, Mild, Finds, Searches
<1> QED
  BY <1>1, <1>2

\* The items that are known, one by one.
LEMMA KnownStays ==
  ASSUME ItemsState, Effect, NEW t \in Tasks
  PROVE  KnownFile(t)' /\ KnownHash(t)'
<1>0. /\ KnownFile(t) /\ KnownHash(t) /\ OneUpdater
      /\ known \in [Tasks -> 0..Len(items)] /\ result \in [Tasks -> Outcomes]
      /\ old \in [Tasks -> Contents \cup {NoPath}]
      /\ DOMAIN items = 1..Len(items) /\ Len(items) \in Nat
  BY TypingParts, IdsTyped DEF ItemsState, Sound, ItemsInv
<1>1. content' = content /\ \A p, q : SameName(p, q)' <=> SameName(p, q)
  BY FilesKept
<1>2. known[t] # 0 => known[t] \in DOMAIN items
  BY <1>0
<1> USE DEF KnownFile, KnownHash
<1>3. CASE Mild
  BY <1>0, <1>1, <1>3 DEF Mild
<1>4. ASSUME NEW u \in Tasks, NEW i, Finds(u, i) PROVE KnownFile(t)' /\ KnownHash(t)'
  <2>1. CASE t = u
    <3>1. known'[t] = i /\ items' = items /\ result'[t] # "updated"
      BY <1>0, <1>4, <2>1 DEF Finds
    <3>2. i # 0 => items[i].path = t /\ old'[t] = items[i].hash
      BY <1>0, <1>4, <2>1 DEF Finds
    <3> QED
      BY <3>1, <3>2
  <2>2. CASE t # u
    <3>1. /\ known'[t] = known[t] /\ old'[t] = old[t] /\ result'[t] = result[t]
          /\ items' = items
      BY <1>0, <1>4, <2>2 DEF Finds
    <3> QED
      BY <1>0, <1>1, <3>1
  <2> QED
    BY <2>1, <2>2
<1>5. ASSUME NEW u \in Tasks, NEW i, Searches(u, i) PROVE KnownFile(t)' /\ KnownHash(t)'
  BY <1>0, <1>1, <1>5 DEF Searches
<1>6. ASSUME NEW u \in Tasks, Stores(u) PROVE KnownFile(t)' /\ KnownHash(t)'
  <2>1. CASE t = u
    BY <1>0, <1>1, <1>6, <2>1 DEF Stores, Ends
  <2>2. CASE t # u
    <3>1. /\ known'[t] = known[t] /\ old'[t] = old[t] /\ result'[t] = result[t]
          /\ known[t] # 0 => known[t] # known[u] /\ items'[known[t]] = items[known[t]]
      BY <1>0, <1>2, <1>6, <2>2, StoresOver DEF Stores, Ends, OneUpdater
    <3> QED
      BY <1>0, <1>1, <3>1
  <2> QED
    BY <2>1, <2>2
<1>7. ASSUME NEW u \in Tasks, NEW n, Creates(u, n) PROVE KnownFile(t)' /\ KnownHash(t)'
  <2>1. /\ known'[t] = known[t] /\ old'[t] = old[t]
        /\ result'[t] = "updated" <=> result[t] = "updated"
        /\ known[t] # 0 => items'[known[t]] = items[known[t]]
    BY <1>0, <1>2, <1>7 DEF Creates, Becomes, Ends
  <2> QED
    BY <1>0, <1>1, <2>1
<1>8. ASSUME NEW u \in Tasks, NEW n, Moves(u, n) PROVE KnownFile(t)' /\ KnownHash(t)'
  <2>1. /\ known'[t] = known[t] /\ old'[t] = old[t]
        /\ result'[t] = "updated" <=> result[t] = "updated"
        /\ known[t] # 0 => items'[known[t]].hash = items[known[t]].hash
    BY <1>0, <1>2, <1>8 DEF Moves, Becomes, Ends
  <2>2. ASSUME known[t] # 0
        PROVE  /\ items'[known[t]].path \in Tasks
               /\ items'[known[t]].path = t \/ SameName(t, items'[known[t]].path)
    <3>1. CASE known[t] = n
      <4>1. items'[n].path = u /\ Knows(u, n) /\ n # 0
        BY <1>8 DEF Moves
      <4>2. SameName(u, items[n].path)
        BY <1>0, <2>2, <3>1, <4>1 DEF Knows
      <4>3. items[n].path = t \/ SameName(t, items[n].path)
        BY <1>0, <2>2, <3>1
      <4>4. SameName(t, u)
        BY <4>2, <4>3 DEF SameName
      <4> QED
        BY <3>1, <4>1, <4>4
    <3>2. CASE known[t] # n
      BY <1>0, <1>2, <1>8, <2>2, <3>2 DEF Moves
    <3> QED
      BY <3>1, <3>2
  <2> QED
    BY <1>0, <1>1, <2>1, <2>2
<1> QED
  BY <1>3, <1>4, <1>5, <1>6, <1>7, <1>8 DEF Effect

\* A path comes to an item by the task of that path, after it has looked.
LEMMA PathsAreOwn ==
  ASSUME ItemsState, Effect, NEW j \in DOMAIN items', NEW t \in Tasks, items'[j].path = t
  PROVE  \/ j \in DOMAIN items /\ items[j].path = t
         \/ /\ at[t] \notin Early /\ at'[t] \notin Early
            /\ known[t] # 0 \/ Became(t)'
<1>0. at \in [Tasks -> States] /\ result \in [Tasks -> Outcomes]
  BY TypingParts DEF ItemsState, Sound
<1>1. CASE items' = items
  BY <1>1
<1>2. ASSUME NEW u \in Tasks, Stores(u), j = known[u], u = t
      PROVE  at[t] \notin Early /\ at'[t] \notin Early /\ known[t] # 0
  BY <1>0, <1>2, StoresOver DEF Stores, Ends, Early
<1>3. ASSUME NEW u \in Tasks, NEW n, Creates(u, n) \/ Moves(u, n), u = t
      PROVE  at[t] \notin Early /\ at'[t] \notin Early /\ Became(t)'
  BY <1>0, <1>3 DEF Creates, Moves, Becomes, Ends, Early, Became
<1>4. ASSUME NEW u \in Tasks, Stores(u)
      PROVE  (j \in DOMAIN items /\ items[j].path = t) \/ (j = known[u] /\ u = t)
  BY <1>4 DEF Stores
<1>5. ASSUME NEW u \in Tasks, NEW n, Creates(u, n)
      PROVE  (j \in DOMAIN items /\ items[j].path = t) \/ u = t
  BY <1>5 DEF Creates
<1>6. ASSUME NEW u \in Tasks, NEW n, Moves(u, n)
      PROVE  (j \in DOMAIN items /\ items[j].path = t) \/ u = t
  BY <1>6 DEF Moves
<1>7. CASE Mild \/ \E u \in Tasks : \E n : Finds(u, n) \/ Searches(u, n)
  BY <1>1, <1>7 DEF Mild, Finds, Searches
<1> QED
  BY <1>2, <1>3, <1>4, <1>5, <1>6, <1>7 DEF Effect

LEMMA LookedForStays ==
  ASSUME ItemsState, Effect, NEW t \in Tasks
  PROVE  NotYetFound(t)' /\ HasNoItem(t)'
<1>0. /\ NotYetFound(t) /\ HasNoItem(t)
      /\ at \in [Tasks -> States] /\ result \in [Tasks -> Outcomes]
      /\ known \in [Tasks -> 0..Len(items)]
  BY TypingParts DEF ItemsState, Sound, ItemsInv
<1>1. ASSUME ~ \E i : Finds(t, i)
      PROVE  /\ at'[t] \in Early <=> at[t] \in Early
             /\ known'[t] = known[t] /\ (Became(t) => Became(t)')
  <2>1. CASE Mild
    <3>1. Became(t) => Became(t)'
      BY <2>1 DEF Mild, Became
    <3> QED
      BY <2>1, <3>1 DEF Mild
  <2>2. ASSUME NEW u \in Tasks, Stores(u)
        PROVE  /\ at'[t] \in Early <=> at[t] \in Early
               /\ known'[t] = known[t] /\ (Became(t) => Became(t)')
    BY <1>0, <2>2, StoresOver DEF Stores, Ends, Early, Became
  <2>3. ASSUME NEW u \in Tasks, NEW n, Searches(u, n)
        PROVE  /\ at'[t] \in Early <=> at[t] \in Early
               /\ known'[t] = known[t] /\ (Became(t) => Became(t)')
    BY <1>0, <2>3 DEF Searches, Early, Became
  <2>4. ASSUME NEW u \in Tasks, NEW n, Creates(u, n) \/ Moves(u, n)
        PROVE  /\ at'[t] \in Early <=> at[t] \in Early
               /\ known'[t] = known[t] /\ (Became(t) => Became(t)')
    BY <1>0, <2>4 DEF Creates, Moves, Becomes, Ends, Early, Became
  <2>5. ASSUME NEW u \in Tasks, NEW n, Finds(u, n), u # t
        PROVE  /\ at'[t] \in Early <=> at[t] \in Early
               /\ known'[t] = known[t] /\ (Became(t) => Became(t)')
    BY <1>0, <2>5 DEF Finds, Early, Became
  <2> QED
    BY <1>1, <2>1, <2>2, <2>3, <2>4, <2>5 DEF Effect
<1>2. NotYetFound(t)'
  <2> SUFFICES ASSUME at'[t] \in Early, NEW j \in DOMAIN items', items'[j].path = t,
                      NEW v \in Tasks, known'[v] = j
               PROVE  FALSE
    BY DEF NotYetFound
  <2>1. ~ \E i : Finds(t, i)
    BY <1>0 DEF Finds, Early
  <2>2. j \in DOMAIN items /\ items[j].path = t
    BY PathsAreOwn
  <2>3. known[v] # j
    BY <1>0, <1>1, <2>1, <2>2 DEF NotYetFound
  <2>4. PICK u \in Tasks : \E i : Finds(u, i)
    BY <2>3 DEF Effect, Mild, Stores, Searches, Creates, Moves, Ends
  <2>5. u = v /\ Finds(u, j)
    BY <1>0, <2>3, <2>4 DEF Finds
  <2>6. items[j].path = u \/ j = 0
    BY <2>5 DEF Finds
  <2>7. u = t
    BY <2>2, <2>6, IdsTyped DEF ItemsState, Sound
  <2> QED
    BY <2>1, <2>4, <2>7
<1>3. HasNoItem(t)'
  <2> SUFFICES ASSUME at'[t] \notin Early, known'[t] = 0, ~Became(t)',
                      NEW j \in DOMAIN items', items'[j].path = t
               PROVE  FALSE
    BY DEF HasNoItem
  <2>1. CASE \E i : Finds(t, i)
    BY <1>0, <2>1 DEF Finds
  <2>2. CASE ~ \E i : Finds(t, i)
    <3>1. at[t] \notin Early /\ known[t] = 0 /\ ~Became(t)
      BY <1>1, <2>2
    <3>2. j \in DOMAIN items /\ items[j].path = t
      BY <3>1, PathsAreOwn
    <3> QED
      BY <1>0, <3>1, <3>2 DEF HasNoItem
  <2> QED
    BY <2>1, <2>2
<1> QED
  BY <1>2, <1>3

LEMMA OneUpdaterStays == ItemsState /\ Effect => OneUpdater'
<1> SUFFICES ASSUME ItemsState, Effect, NEW t \in Tasks, NEW u \in Tasks,
                    known'[t] # 0, known'[t] = known'[u]
             PROVE  t = u
  BY DEF OneUpdater
<1>0. OneUpdater /\ known \in [Tasks -> 0..Len(items)]
  BY TypingParts DEF ItemsState, Sound, ItemsInv
<1>1. CASE known' = known
  BY <1>0, <1>1 DEF OneUpdater
<1>2. ASSUME NEW v \in Tasks, NEW i, Finds(v, i) PROVE t = u
  <2>1. /\ known' = [known EXCEPT ![v] = i]
        /\ i # 0 => \A w \in Tasks : known[w] # i
    BY <1>2 DEF Finds, ItemsState, ItemsInv, NotYetFound, Early
  <2> QED
    BY <1>0, <2>1 DEF OneUpdater
<1> QED
  BY <1>1, <1>2 DEF Effect, Mild, Stores, Searches, Creates, Moves, Ends

LEMMA FoundStays ==
  ASSUME ItemsState, Effect, NEW t \in Tasks
  PROVE  KnowsFound(t)' /\ WontClash(t)'
<1>0. /\ KnowsFound(t) /\ WontClash(t) /\ NoTask \notin Tasks
      /\ at \in [Tasks -> States] /\ found \in [Tasks -> 0..Len(items)]
      /\ DOMAIN items = 1..Len(items) /\ Len(items) \in Nat
      /\ at[t] = "committing" => writer = t
  BY TypingParts, IdsTyped, NoTaskAssumption
  DEF ItemsState, Sound, ItemsInv, DiligentInv, AllDiligent, Diligent
<1>1. KnowsFound(t)'
  <2> SUFFICES ASSUME at'[t] = "writing" PROVE Knows(t, found[t])'
    BY DEF KnowsFound
  <2>1. CASE \E i : Searches(t, i)
    <3>1. PICK i : Searches(t, i)
      BY <2>1
    <3>2. /\ Knows(t, i) /\ found'[t] = i /\ UNCHANGED <<items, result, old, fileVars>>
      BY <1>0, <3>1 DEF Searches
    <3> QED
      BY <3>2 DEF Knows, Replaced, Became, SameName, FoldsCase, fileVars
  <2>2. CASE ~ \E i : Searches(t, i)
    <3>1. at[t] = "writing" /\ found'[t] = found[t]
      <4>1. CASE Mild
        BY <4>1 DEF Mild
      <4>2. ASSUME NEW u \in Tasks, NEW i, Finds(u, i)
            PROVE  at[t] = "writing" /\ found'[t] = found[t]
        BY <1>0, <4>2 DEF Finds
      <4>3. ASSUME NEW u \in Tasks, NEW i, Searches(u, i)
            PROVE  at[t] = "writing" /\ found'[t] = found[t]
        <5>1. u # t
          BY <2>2, <4>3
        <5> QED
          BY <1>0, <4>3, <5>1 DEF Searches
      <4>4. ASSUME NEW u \in Tasks, NEW place \in {"over", "finishing"}, NEW o, Ends(u, place, o)
            PROVE  at[t] = "writing" /\ found'[t] = found[t]
        BY <1>0, <4>4 DEF Ends
      <4> QED
        BY <4>1, <4>2, <4>3, <4>4 DEF Effect, Stores, Creates, Moves
    <3>2. PICK i \in DOMAIN items \cup {0} : i = found[t]
      BY <1>0
    <3>3. Knows(t, i)'
      BY <1>0, <3>1, <3>2, KnowsStays DEF KnowsFound
    <3> QED
      BY <3>1, <3>2, <3>3 DEF Knows
  <2> QED
    BY <2>1, <2>2
<1>2. WontClash(t)'
  <2> SUFFICES ASSUME at'[t] = "committing" PROVE ~Clashes(t)'
    BY DEF WontClash
  <2>1. items' = items /\ content' = content /\ old'[t] = old[t] /\ ~Clashes(t)
    <3>1. CASE Mild
      BY <1>0, <3>1, FilesKept DEF Mild, WontClash
    <3>2. ASSUME NEW u \in Tasks, Stores(u) PROVE FALSE
      BY <1>0, <3>2 DEF Stores, Ends, ItemsState, DiligentInv, AllDiligent, Diligent
    <3>3. ASSUME NEW u \in Tasks, NEW n, Creates(u, n) \/ Moves(u, n) PROVE FALSE
      BY <1>0, <3>3 DEF Creates, Moves, Becomes, Ends
    <3>4. ASSUME NEW u \in Tasks, NEW i, Finds(u, i) \/ Searches(u, i)
          PROVE  items' = items /\ content' = content /\ old'[t] = old[t] /\ ~Clashes(t)
      <4>1. at[t] = "committing" /\ u # t
        BY <1>0, <3>4 DEF Finds, Searches
      <4> QED
        BY <1>0, <3>4, <4>1, FilesKept, TypingParts
        DEF Finds, Searches, WontClash, ItemsState, Sound
    <3> QED
      BY <3>1, <3>2, <3>3, <3>4 DEF Effect
  <2> QED
    BY <2>1 DEF Clashes, FindByHash, Ids
<1> QED
  BY <1>1, <1>2

LEMMA HasItemStays ==
  ASSUME ItemsState, Effect, NEW t \in Tasks
  PROVE  HasItem(t)'
<1>0. /\ content[t] \in Contents /\ content' = content /\ HasItem(t)
      /\ \A p, q : SameName(p, q)' <=> SameName(p, q)
      /\ Replaced(content[t]) => Replaced(content[t])'
      /\ result \in [Tasks -> Outcomes]
  BY TypingParts, FilesKept, ReplacedStays DEF ItemsState, Sound, ItemsInv
<1> SUFFICES ASSUME Became(t)', ~Replaced(content[t])'
             PROVE  \E i \in DOMAIN items' :
                      /\ items'[i].hash = content[t] /\ items'[i].path \in Tasks
                      /\ items'[i].path = t \/ SameName(t, items'[i].path)
  BY <1>0 DEF HasItem
<1>1. CASE \E n : Creates(t, n)
  BY <1>1 DEF Creates
<1>2. ASSUME NEW n, Moves(t, n) PROVE items'[n].hash = content[t] /\ items'[n].path = t
                                     /\ n \in DOMAIN items'
  <2>1. items[n].hash = content[t]
    BY <1>0, <1>2 DEF Moves, Knows
  <2> QED
    BY <1>2, <2>1 DEF Moves
<1>3. CASE Became(t)
  <2>1. PICK i \in DOMAIN items :
          /\ items[i].hash = content[t] /\ items[i].path \in Tasks
          /\ items[i].path = t \/ SameName(t, items[i].path)
    BY <1>0, <1>3 DEF HasItem
  <2> SUFFICES /\ i \in DOMAIN items'
               /\ items'[i].hash = content[t] /\ items'[i].path \in Tasks
               /\ items'[i].path = t \/ SameName(t, items'[i].path)
    OBVIOUS
  <2>2. CASE items' = items
    BY <2>1, <2>2
  <2>3. ASSUME NEW u \in Tasks, Stores(u)
        PROVE  /\ i \in DOMAIN items'
               /\ items'[i].hash = content[t] /\ items'[i].path \in Tasks
               /\ items'[i].path = t \/ SameName(t, items'[i].path)
    <3>1. CASE i = known[u]
      <4>1. items'[i].path = u /\ items'[i].hash = content[u] /\ i \in DOMAIN items'
        BY <2>3, <3>1 DEF Stores
      <4>2. content[u] = content[t]
        BY <1>0, <2>1, <2>3, <3>1, StoresOver
      <4>3. items[i].path = u \/ SameName(u, items[i].path)
        BY <2>3, <3>1, StoresOver DEF ItemsState, ItemsInv, KnownFile
      <4>4. u = t \/ SameName(t, u)
        BY <2>1, <4>3 DEF SameName
      <4> QED
        BY <4>1, <4>2, <4>4
    <3>2. CASE i # known[u]
      BY <2>1, <2>3, <3>2 DEF Stores
    <3> QED
      BY <3>1, <3>2
  <2>4. ASSUME NEW u \in Tasks, NEW n, Creates(u, n)
        PROVE  /\ i \in DOMAIN items'
               /\ items'[i].hash = content[t] /\ items'[i].path \in Tasks
               /\ items'[i].path = t \/ SameName(t, items'[i].path)
    BY <2>1, <2>4 DEF Creates
  <2>5. ASSUME NEW u \in Tasks, NEW n, Moves(u, n)
        PROVE  /\ i \in DOMAIN items'
               /\ items'[i].hash = content[t] /\ items'[i].path \in Tasks
               /\ items'[i].path = t \/ SameName(t, items'[i].path)
    <3>1. CASE i = n
      <4>1. items'[i].path = u /\ items'[i].hash = items[i].hash /\ i \in DOMAIN items'
        BY <2>5, <3>1 DEF Moves
      <4>2. SameName(u, items[i].path)
        BY <2>1, <2>5, <3>1 DEF Moves, Knows
      <4>3. SameName(t, u)
        BY <2>1, <4>2 DEF SameName
      <4> QED
        BY <2>1, <4>1, <4>3
    <3>2. CASE i # n
      BY <2>1, <2>5, <3>2 DEF Moves
    <3> QED
      BY <3>1, <3>2
  <2> QED
    BY <2>2, <2>3, <2>4, <2>5 DEF Effect, Mild, Finds, Searches
<1> QED
  BY <1>1, <1>2, <1>3, WhoBecomes

LEMMA HasResultStays ==
  ASSUME ItemsState, Effect, NEW t \in Tasks
  PROVE  HasResult(t)'
<1>0. /\ content[t] \in Contents /\ content' = content /\ HasResult(t)
      /\ Recorded(content[t]) => Recorded(content[t])'
      /\ result \in [Tasks -> Outcomes]
  BY TypingParts, FilesKept, RecordedStays DEF ItemsState, Sound, ItemsInv
<1> SUFFICES ASSUME result'[t] \notin {"none", "failed", "clash"}
             PROVE  Recorded(content[t]) \/ Recorded(content[t])'
  BY <1>0 DEF HasResult
<1>1. CASE result'[t] = result[t]
  BY <1>0, <1>1 DEF HasResult
<1>2. CASE Mild
  BY <1>1, <1>2 DEF Mild
<1>3. ASSUME NEW i, Finds(t, i) PROVE Recorded(content[t])
  <2>1. i \in DOMAIN items /\ items[i].path = t /\ items[i].hash = content[t]
    BY <1>0, <1>3 DEF Finds
  <2> QED
    BY <2>1 DEF Recorded
<1>4. CASE Stores(t)
  BY <1>0, <1>4 DEF Stores, Recorded
<1>5. ASSUME NEW n, Creates(t, n) PROVE Recorded(content[t])'
  BY <1>0, <1>5 DEF Creates, Recorded
<1>6. ASSUME NEW n, Moves(t, n) PROVE Recorded(content[t]) \/ Recorded(content[t])'
  <2>1. items[n].hash = content[t] \/ Replaced(content[t])
    BY <1>6 DEF Moves, Knows
  <2>2. n \in DOMAIN items' /\ items'[n].path = t /\ items'[n].hash = items[n].hash
    BY <1>6 DEF Moves
  <2> QED
    BY <1>0, <2>1, <2>2 DEF Recorded
<1>7. ASSUME NEW u \in Tasks, u # t,
             Stores(u) \/ \E i : Finds(u, i) \/ Searches(u, i) \/ Creates(u, i) \/ Moves(u, i)
      PROVE  result'[t] = result[t]
  BY <1>0, <1>7 DEF Stores, Finds, Searches, Creates, Moves, Ends
<1>8. ASSUME NEW i, Searches(t, i) PROVE result'[t] = result[t]
  BY <1>8 DEF Searches
<1> QED
  BY <1>1, <1>2, <1>3, <1>4, <1>5, <1>6, <1>7, <1>8 DEF Effect

LEMMA UniqueHashStays == ItemsState /\ Effect => UniqueHash'
<1> SUFFICES ASSUME ItemsState, Effect, unique,
                    NEW i \in DOMAIN items', NEW j \in DOMAIN items',
                    items'[i].hash = items'[j].hash
             PROVE  i = j
  BY FilesKept DEF UniqueHash, Distinct
<1>0. \A k, l \in DOMAIN items : items[k].hash = items[l].hash => k = l
  BY DEF ItemsState, ItemsInv, UniqueHash, Distinct
<1>1. CASE items' = items
  BY <1>0, <1>1
<1>2. ASSUME NEW t \in Tasks, Stores(t) PROVE i = j
  <2>1. \/ items[known[t]].hash = content[t]
        \/ \A k \in DOMAIN items : items[k].hash # content[t]
    BY <1>2, StoresOver
  <2>2. /\ i \in DOMAIN items /\ j \in DOMAIN items /\ known[t] \in DOMAIN items
        /\ items'[known[t]].hash = content[t]
        /\ \A k \in DOMAIN items : k # known[t] => items'[k] = items[k]
    BY <1>2 DEF Stores
  <2> QED
    BY <1>0, <2>1, <2>2
<1>3. ASSUME NEW t \in Tasks, NEW n, Creates(t, n) PROVE i = j
  BY <1>0, <1>3 DEF Creates
<1>4. ASSUME NEW t \in Tasks, NEW n, Moves(t, n) PROVE i = j
  <2>1. DOMAIN items' = DOMAIN items /\ \A k \in DOMAIN items : items'[k].hash = items[k].hash
    BY <1>4 DEF Moves
  <2> QED
    BY <1>0, <2>1
<1> QED
  BY <1>1, <1>2, <1>3, <1>4 DEF Effect, Mild, Finds, Searches

LEMMA ItemsInit == Init => ItemsInv
<1> SUFFICES ASSUME Init PROVE ItemsInv
  OBVIOUS
<1>1. \A t \in Tasks : known[t] = 0 /\ at[t] = "queued" /\ result[t] = "none"
  BY DEF Init
<1>2. UniqueHash
  BY ScanAssumption DEF Init, HasUniqueIndex, UniqueHash
<1>3. 0 \notin DOMAIN items
  BY TypingInit, IdsTyped
<1>4. \A t \in Tasks : /\ KnownFile(t) /\ KnownHash(t) /\ HasNoItem(t)
                       /\ KnowsFound(t) /\ WontClash(t) /\ HasItem(t) /\ HasResult(t)
  BY <1>1 DEF KnownFile, KnownHash, HasNoItem, KnowsFound, WontClash, HasItem,
     HasResult, Became, Early
<1>5. \A t \in Tasks : NotYetFound(t)
  BY <1>1, <1>3 DEF NotYetFound
<1> QED
  BY <1>1, <1>2, <1>4, <1>5 DEF ItemsInv, OneUpdater

LEMMA ItemsStep == ItemsState /\ [Next]_vars => ItemsInv'
<1> SUFFICES ASSUME ItemsState, Effect PROVE ItemsInv'
  BY EffectOfStep
<1>1. ASSUME NEW t \in Tasks
      PROVE  /\ KnownFile(t)' /\ KnownHash(t)' /\ NotYetFound(t)' /\ HasNoItem(t)'
             /\ KnowsFound(t)' /\ WontClash(t)' /\ HasItem(t)' /\ HasResult(t)'
  BY KnownStays, LookedForStays, FoundStays, HasItemStays, HasResultStays
<1> QED
  BY <1>1, OneUpdaterStays, UniqueHashStays DEF ItemsInv

LEMMA ItemsInvariance == Spec => []ItemsState
<1>1. Init => DiligentInv /\ ItemsInv
  BY DiligentInit, ItemsInit
<1>2. Sound /\ DiligentInv /\ ItemsInv /\ [Next]_vars => DiligentInv' /\ ItemsInv'
  BY DiligentStep, ItemsStep DEF ItemsState
<1>3. Sound /\ DiligentInv /\ ItemsInv <=> ItemsState
  BY DEF ItemsState
<1> QED
  BY <1>1, <1>2, <1>3, Soundness, PTL DEF Spec

(***************************************************************************)
(* Whoever becomes an item second has found the item of the first, unless  *)
(* the hash went elsewhere.                                                *)
(***************************************************************************)
Agree(t, u) ==
  t # u /\ content[t] = content[u] /\ ~Replaced(content[t]) =>
    /\ ~(result[t] = "created" /\ result[u] = "created")
    /\ unique /\ ~SameName(t, u) => ~(Became(t) /\ Became(u))

LEMMA AgreeStays ==
  ASSUME ItemsState, Effect, NEW t \in Tasks, NEW u \in Tasks, Agree(t, u),
         \E n : Creates(t, n) \/ Moves(t, n)
  PROVE  Agree(t, u)'
<1>0. /\ content' = content /\ unique' = unique /\ content[t] \in Contents
      /\ SameName(t, u)' <=> SameName(t, u)
      /\ Replaced(content[t]) => Replaced(content[t])'
      /\ result \in [Tasks -> Outcomes]
  BY TypingParts, FilesKept, ReplacedStays DEF ItemsState, Sound
<1> SUFFICES ASSUME t # u, content[t] = content[u], ~Replaced(content[t])
             PROVE  /\ ~(result'[t] = "created" /\ result'[u] = "created")
                    /\ unique /\ ~SameName(t, u) => ~Became(u)'
  BY <1>0 DEF Agree
<1>1. result'[u] = result[u] /\ (Became(u)' <=> Became(u))
  BY <1>0 DEF Creates, Moves, Ends, Became
<1>2. ASSUME NEW n, Creates(t, n) PROVE ~Became(u)
  BY <1>2 DEF Creates, Knows
<1>3. ASSUME NEW n, Moves(t, n)
      PROVE  result'[t] # "created" /\ (unique /\ ~SameName(t, u) => ~Became(u))
  <2>1. result'[t] # "created"
    BY <1>0, <1>3 DEF Moves, Ends
  <2>2. ASSUME unique, Became(u) PROVE SameName(t, u)
    <3>1. PICK j \in DOMAIN items :
            /\ items[j].hash = content[t] /\ items[j].path \in Tasks
            /\ items[j].path = u \/ SameName(u, items[j].path)
      BY <2>2 DEF ItemsState, ItemsInv, HasItem
    <3>2. n \in DOMAIN items /\ items[n].hash = content[t] /\ Knows(t, n) /\ n # 0
      BY <1>3 DEF Moves, Knows
    <3>3. n = j
      BY <2>2, <3>1, <3>2 DEF ItemsState, ItemsInv, UniqueHash, Distinct
    <3>4. SameName(t, items[j].path)
      BY <3>1, <3>2, <3>3 DEF Knows
    <3> QED
      BY <3>1, <3>4 DEF SameName
  <2> QED
    BY <2>1, <2>2
<1> QED
  BY <1>1, <1>2, <1>3 DEF Became

LEMMA NewcomersStay == ItemsState /\ NewcomersAgree /\ [Next]_vars => NewcomersAgree'
<1> SUFFICES ASSUME ItemsState, NewcomersAgree, Effect, NEW t \in Tasks, NEW u \in Tasks
             PROVE  Agree(t, u)'
  BY EffectOfStep DEF NewcomersAgree, Agree
<1>0. Agree(t, u) /\ Agree(u, t)
  BY DEF NewcomersAgree, Agree
<1>1. CASE \E n : Creates(t, n) \/ Moves(t, n)
  BY <1>0, <1>1, AgreeStays
<1>2. CASE \E n : Creates(u, n) \/ Moves(u, n)
  <2>1. Agree(u, t)'
    BY <1>0, <1>2, AgreeStays
  <2> QED
    BY <2>1 DEF Agree, SameName
<1>3. CASE ~(\E n : Creates(t, n) \/ Moves(t, n)) /\ ~(\E n : Creates(u, n) \/ Moves(u, n))
  <2>1. /\ content' = content /\ unique' = unique /\ content[t] \in Contents
        /\ SameName(t, u)' <=> SameName(t, u)
        /\ Replaced(content[t]) => Replaced(content[t])'
    BY TypingParts, FilesKept, ReplacedStays DEF ItemsState, Sound
  <2>2. (Became(t)' => Became(t)) /\ (Became(u)' => Became(u))
    BY <1>3, WhoBecomes
  <2>3. ASSUME NEW v \in Tasks, ~ \E n : Creates(v, n) \/ Moves(v, n), result'[v] = "created"
        PROVE  result[v] = "created"
    <3>0. result \in [Tasks -> Outcomes]
      BY TypingParts DEF ItemsState, Sound
    <3>1. CASE Mild
      BY <2>3, <3>1 DEF Mild
    <3>2. ASSUME NEW w \in Tasks, NEW n,
                 Stores(w) \/ Finds(w, n) \/ Searches(w, n)
                   \/ (w # v /\ (Creates(w, n) \/ Moves(w, n)))
          PROVE  result[v] = "created"
      BY <2>3, <3>0, <3>2 DEF Stores, Finds, Searches, Creates, Moves, Ends
    <3> QED
      BY <2>3, <3>1, <3>2 DEF Effect
  <2> QED
    BY <1>0, <1>3, <2>1, <2>2, <2>3 DEF Agree
<1> QED
  BY <1>1, <1>2, <1>3

(***************************************************************************)
(* New files with the same contents never become two items: the claims     *)
(* keep the look for an item and its creation together.                    *)
(***************************************************************************)
THEOREM NoContentsTwice == Spec => []NewcomersAgree
<1>1. Init => NewcomersAgree
  BY DEF Init, NewcomersAgree, Became
<1>2. ItemsState /\ NewcomersAgree /\ [Next]_vars => NewcomersAgree'
  BY NewcomersStay
<1> QED
  BY <1>1, <1>2, ItemsInvariance, PTL DEF Spec

(***************************************************************************)
(* What a finished scan leaves recorded, and that no contents are recorded *)
(* twice.                                                                  *)
(***************************************************************************)
THEOREM ScanIsRecorded == Spec => []ScanRecords
<1>1. ItemsState => ContentsRecorded
  <2> SUFFICES ASSUME ItemsState, job = "over", ~cancelled, NEW t \in Tasks
               PROVE  result[t] \in {"failed", "clash"} \/ Recorded(content[t])
    BY DEF ContentsRecorded, Recorded
  <2>1. at[t] = "over"
    BY DEF ItemsState, DiligentInv, LoopInv
  <2>2. result[t] # "none"
    BY <2>1 DEF ItemsState, DiligentInv, AllDiligent, Diligent
  <2> QED
    BY <2>2 DEF ItemsState, ItemsInv, HasResult
<1>2. NewcomersAgree /\ ContentsRecorded => ScanRecords
  BY DEF ScanRecords
<1> QED
  BY <1>1, <1>2, ItemsInvariance, NoContentsTwice, PTL

(***************************************************************************)
(* The one write that changes an item's path for another's is a move, to a *)
(* file that has, to the scanner, the name of the one that is there.       *)
(***************************************************************************)
LEMMA KeepsFile ==
  ASSUME ItemsState, Effect, NEW i \in DOMAIN items, items'[i].path # items[i].path
  PROVE  items[i].path \notin Tasks \/ SameName(items'[i].path, items[i].path)
<1>1. ASSUME NEW t \in Tasks, Stores(t)
      PROVE  SameName(items'[i].path, items[i].path)
  <2>1. i = known[t]
    BY <1>1 DEF Stores
  <2>2. items'[i].path = t /\ KnownFile(t) /\ known[t] # 0
    BY <1>1, <2>1, StoresOver DEF Stores, ItemsState, ItemsInv
  <2> QED
    BY <2>1, <2>2 DEF KnownFile
<1>2. ASSUME NEW t \in Tasks, NEW n, Moves(t, n)
      PROVE  items[i].path \notin Tasks \/ SameName(items'[i].path, items[i].path)
  <2>1. i = n /\ items'[i].path = t /\ Knows(t, i) /\ i # 0
    BY <1>2 DEF Moves
  <2> QED
    BY <2>1 DEF Knows
<1>3. ~ (Mild \/ \E t \in Tasks : \E n : Finds(t, n) \/ Searches(t, n) \/ Creates(t, n))
  BY DEF Mild, Finds, Searches, Creates
<1> QED
  BY <1>1, <1>2, <1>3 DEF Effect

(***************************************************************************)
(* No scan takes an item away from a file that is there.                   *)
(***************************************************************************)
THEOREM FilesKeepItems == Spec => ItemsKeepFiles
<1>1. ItemsState /\ [Next]_vars =>
        [\A i \in DOMAIN items : items'[i].path # items[i].path =>
           items[i].path \notin Tasks \/ SameName(items'[i].path, items[i].path)]_vars
  BY EffectOfStep, KeepsFile
<1> QED
  BY <1>1, ItemsInvariance, PTL DEF Spec, ItemsKeepFiles
=============================================================================
