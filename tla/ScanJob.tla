------------------------------ MODULE ScanJob ------------------------------
(***************************************************************************)
(* A scan (internal/manager/task_scan.go) of files that are all scenes,    *)
(* all images or all galleries: the loop that starts one task per file,    *)
(* at most Parallel at once, and the tasks, each of which finds its item   *)
(* by path and then updates it (ScanExisting of pkg/scene, pkg/image and   *)
(* pkg/gallery) or looks for its contents and creates or moves an item     *)
(* (ScanNew).  Tasks share the hash claims of MutexManager, the database   *)
(* and its write lock.                                                     *)
(*                                                                         *)
(* A task stands for its file and for the path of it.  A file's contents   *)
(* are what its hashes tell apart.                                         *)
(***************************************************************************)
EXTENDS MutexManager, Naturals, Sequences, FiniteSets

CONSTANTS
  Contents,         \* what files can contain
  MissingPaths,     \* paths of items whose file is gone
  Scenarios,        \* what a scan may find: kind of files, items, contents
  NoPath,
  Parallel,         \* tasks at once (GetParallelTasksWithAutoDetection)
  Fold,             \* path -> the path in lower case
  FsCaseSensitive   \* what fsutil.IsFsPathCaseSensitive answers

Paths == Tasks \cup MissingPaths

Row == [path : Paths, hash : Contents]

\* No two items have the same hash.
Distinct(table) ==
  \A i, j \in DOMAIN table : table[i].hash = table[j].hash => i = j

ASSUME ScanAssumption ==
  /\ Keys = {"oshash", "checksum"} \X Contents
  /\ Parallel \in Nat \ {0}
  /\ NoPath \notin Paths \cup Contents
  /\ Scenarios \subseteq [media : {"scene", "image", "gallery"},
                          items : Seq(Row), content : [Tasks -> Contents]]
  /\ \A s \in Scenarios : s.media # "image" => Distinct(s.items)

VARIABLES
  media,      \* what the files are, the same during the scan
  items,      \* the committed table: id -> path and hash
  writer,     \* the task that holds the database's WriteMu, or NoTask
  content,    \* task -> what its file contains, the same during the scan
  unique,     \* is there a unique index on the hash
  known,      \* task -> id of the item found under its path, or 0
  old,        \* task -> that item's hash when it was found
  found,      \* task -> id of the item found by hash, or 0
  at,         \* how far each task is
  result,     \* what came of it
  job,        \* the loop: "looping", "adding", "waiting", "over"
  next,       \* the task for which the loop waits at wg.Add
  cancelled   \* the job's context

taskVars == <<items, writer, known, old, found, at, result>>
jobVars == <<job, next, cancelled>>
fileVars == <<media, content, unique>>
vars == <<mutexVars, taskVars, jobVars, fileVars>>

TypeOK ==
  /\ MutexTypeOK
  /\ media \in {"scene", "image", "gallery"}
  /\ items \in Seq(Row)
  /\ writer \in Tasks \cup {NoTask}
  /\ content \in [Tasks -> Contents]
  /\ unique \in BOOLEAN
  /\ known \in [Tasks -> 0..Len(items)] /\ found \in [Tasks -> 0..Len(items)]
  /\ old \in [Tasks -> Contents \cup {NoPath}]
  /\ at \in [Tasks -> {"queued", "started", "claiming", "writing",
                       "committing", "finishing", "over"}]
  /\ result \in [Tasks -> {"none", "unchanged", "created", "moved", "updated",
                           "duplicate", "clash", "collision", "failed"}]
  /\ job \in {"looping", "adding", "waiting", "over"}
  /\ next \in Tasks \cup {NoTask}
  /\ cancelled \in BOOLEAN

(***************************************************************************)
(* Scenes' and galleries' hashes have a unique index.  Images get one when *)
(* the database is opened, unless it holds copies from before there was    *)
(* one (createImagesChecksumIndex).                                        *)
(***************************************************************************)
HasUniqueIndex(kind, table) == kind = "image" => Distinct(table)

Init ==
  /\ MutexInit
  /\ \E s \in Scenarios :
       /\ media = s.media /\ items = s.items /\ content = s.content
       /\ unique = HasUniqueIndex(s.media, s.items)
  /\ writer = NoTask
  /\ known = [t \in Tasks |-> 0] /\ found = [t \in Tasks |-> 0]
  /\ old = [t \in Tasks |-> NoPath]
  /\ at = [t \in Tasks |-> "queued"]
  /\ result = [t \in Tasks |-> "none"]
  /\ job = "looping" /\ next = NoTask /\ cancelled = FALSE

-----------------------------------------------------------------------------
(* ScanJob.Execute *)

Running == {t \in Tasks : at[t] \notin {"queued", "over"}}

\* The loop receives t, unless the job is cancelled when it looks.
Take(t) ==
  /\ job = "looping" /\ ~cancelled /\ at[t] = "queued"
  /\ job' = "adding" /\ next' = t
  /\ UNCHANGED <<mutexVars, taskVars, fileVars, cancelled>>

\* wg.Add lets it through: the task's goroutine starts.
StartTask ==
  /\ job = "adding" /\ Cardinality(Running) < Parallel
  /\ job' = "looping" /\ next' = NoTask
  /\ at' = [at EXCEPT ![next] = "started"]
  /\ UNCHANGED <<mutexVars, items, writer, known, old, found, result, fileVars,
                 cancelled>>

\* The queue is closed and empty, or the job cancelled.
EndLoop ==
  /\ job = "looping"
  /\ cancelled \/ \A t \in Tasks : at[t] # "queued"
  /\ job' = "waiting"
  /\ UNCHANGED <<mutexVars, taskVars, fileVars, next, cancelled>>

\* wg.Wait returns, and with it, in the end, Execute.
Finish ==
  /\ job = "waiting" /\ Running = {}
  /\ job' = "over"
  /\ UNCHANGED <<mutexVars, taskVars, fileVars, next, cancelled>>

\* The user cancels the job.
CancelScan ==
  /\ job # "over" /\ ~cancelled
  /\ cancelled' = TRUE
  /\ UNCHANGED <<mutexVars, taskVars, fileVars, job, next>>

-----------------------------------------------------------------------------
(* One task *)

Kinds == IF media = "scene" THEN <<"oshash", "checksum">> ELSE <<"checksum">>

\* Mutant: new files claim the other way round.
KeysOfNewReversed(t) ==
  LET n == Len(Kinds)
  IN [i \in 1..n |-> <<Kinds[IF known[t] = 0 THEN n + 1 - i ELSE i], content[t]>>]

\* The hashes of t's file, in the order in which it claims them.
KeysOf(t) == [i \in DOMAIN Kinds |-> <<Kinds[i], content[t]>>]

\* Mutant: a claim counts as soon as it is asked for.
HasAsked(t) == \A i \in DOMAIN Kinds : calls[t][KeysOf(t)[i]].at # "idle"

HasClaims(t) == \A i \in DOMAIN Kinds : calls[t][KeysOf(t)[i]].at = "held"

\* The ids under a path and of contents, 0 if there is none.
Ids(S) == IF S = {} THEN {0} ELSE S
FindByPath(p) == Ids({i \in DOMAIN items : items[i].path = p})
FindByHash(c) == Ids({i \in DOMAIN items : items[i].hash = c})

\* The end of a task that needs no claim, or does not get that far.
Leave(t, outcome) ==
  /\ at' = [at EXCEPT ![t] = "over"]
  /\ result' = [result EXCEPT ![t] = outcome]

(***************************************************************************)
(* The file is hashed if its modification time changed.  An item (i # 0)   *)
(* whose file is as it was is left alone, unless only that time changed; a *)
(* file that cannot be read is given up.                                   *)
(***************************************************************************)
ScanFile(t, i) ==
  \/ at' = [at EXCEPT ![t] = "claiming"] /\ UNCHANGED result
  \/ i # 0 /\ items[i].hash = content[t] /\ Leave(t, "unchanged")
  \/ Leave(t, "failed")

\* The item under the path is read, and the file compared with it.
Find(t) ==
  /\ at[t] = "started"
  /\ \E i \in FindByPath(t) :
       /\ known' = [known EXCEPT ![t] = i]
       /\ old' = [old EXCEPT ![t] = IF i = 0 THEN NoPath ELSE items[i].hash]
       /\ ScanFile(t, i)
  /\ UNCHANGED <<mutexVars, jobVars, items, writer, found, fileVars>>

\* Claim of the hashes, one after the other, all with one channel.
ClaimHashes(t) ==
  /\ at[t] = "claiming"
  /\ \E i \in DOMAIN Kinds :
       /\ \A j \in 1..(i - 1) : calls[t][KeysOf(t)[j]].at = "held"
       /\ Claim(t, KeysOf(t)[i])
  /\ UNCHANGED <<taskVars, jobVars, fileVars>>

CleanUpClaim(t) ==
  /\ \E k \in Keys : CleanUp(t, k)
  /\ UNCHANGED <<taskVars, jobVars, fileVars>>

-----------------------------------------------------------------------------
(* ScanExisting, when something changed *)

PathTaken(i, p) == \E j \in DOMAIN items \ {i} : items[j].path = p
Clashes(t) == old[t] # content[t] /\ FindByHash(content[t]) # {0}

Updating(t) ==
  at[t] = "claiming" /\ known[t] # 0 /\ HasClaims(t) /\ writer = NoTask

\* The transaction cannot begin: its function, which closes done, never runs.
BeginFails(t) ==
  /\ Updating(t) /\ cancelled
  /\ Leave(t, "failed")
  /\ UNCHANGED <<mutexVars, jobVars, items, writer, known, old, found, fileVars>>

\* The function of the transaction finds another item with the new hash.
UpdateClashes(t) ==
  /\ Updating(t) /\ ~cancelled /\ Clashes(t)
  /\ Close(t)
  /\ Leave(t, "clash")
  /\ UNCHANGED <<jobVars, items, writer, known, old, found, fileVars>>

\* It has written the item and closed done; the transaction is still open.
Update(t) ==
  /\ Updating(t) /\ ~cancelled /\ ~Clashes(t)
  /\ Close(t)
  /\ writer' = t
  /\ at' = [at EXCEPT ![t] = "committing"]
  /\ UNCHANGED <<jobVars, items, known, old, found, result, fileVars>>

\* UpdateFull wrote path and hash.  A cancelled transaction is rolled back.
Commit(t) ==
  /\ at[t] = "committing"
  /\ writer' = NoTask
  /\ \/ ~PathTaken(known[t], t)
        /\ items' = [items EXCEPT ![known[t]] = [path |-> t, hash |-> content[t]]]
        /\ Leave(t, "updated")
     \/ (cancelled \/ PathTaken(known[t], t))
        /\ Leave(t, "failed") /\ UNCHANGED items
  /\ UNCHANGED <<mutexVars, jobVars, known, old, found, fileVars>>

-----------------------------------------------------------------------------
(* ScanNew *)

\* Only the gallery scanner is told what the file system does.
FoldsCase == media # "gallery" \/ ~FsCaseSensitive

\* Mutant: it is t's own path that is looked for.
FileIsOwn(t, i) == items[i].path = t

\* Item i's file is another file that exists; a mere change of case is a move.
FileExists(t, i) ==
  LET p == items[i].path IN p \in Tasks /\ (FoldsCase => Fold[p] # Fold[t])

HashTaken(t) == unique /\ FindByHash(content[t]) # {0}

Looking(t) == at[t] = "claiming" /\ known[t] = 0 /\ HasClaims(t)

Finishing(t, outcome) ==
  /\ at' = [at EXCEPT ![t] = "finishing"]
  /\ result' = [result EXCEPT ![t] = outcome]

\* Mutant: an item that has the contents counts, whether its file exists or not.
HasDuplicate(t, i) == i # 0

\* The item with t's contents keeps its file: t is a duplicate.
IsDuplicate(t, i) == i # 0 /\ FileExists(t, i)

\* The item with the same contents, if any, as committed so far.
Lookup(t) ==
  /\ media # "gallery" /\ Looking(t)
  /\ \E i \in FindByHash(content[t]) :
       /\ found' = [found EXCEPT ![t] = i]
       /\ IF IsDuplicate(t, i)
          THEN Finishing(t, "duplicate")
          ELSE at' = [at EXCEPT ![t] = "writing"] /\ UNCHANGED result
  /\ UNCHANGED <<mutexVars, jobVars, items, writer, known, old, fileVars>>

Create(t) ==
  IF HashTaken(t) \/ PathTaken(0, t)
  THEN Finishing(t, "collision") /\ UNCHANGED items
  ELSE Finishing(t, "created")
       /\ items' = Append(items, [path |-> t, hash |-> content[t]])

\* Only the path is written, by id.
Move(t, i) ==
  IF PathTaken(i, t)
  THEN Finishing(t, "collision") /\ UNCHANGED items
  ELSE Finishing(t, "moved") /\ items' = [items EXCEPT ![i].path = t]

\* The write transaction, which nobody else's can overlap.
WriteNew(t, i) ==
  /\ writer = NoTask
  /\ \/ ~cancelled /\ IF i = 0 THEN Create(t) ELSE Move(t, i)
     \/ (i = 0 \/ cancelled) /\ Finishing(t, "failed") /\ UNCHANGED items

Write(t) ==
  /\ at[t] = "writing"
  /\ WriteNew(t, found[t])
  /\ UNCHANGED <<mutexVars, jobVars, writer, known, old, found, fileVars>>

\* The gallery scanner looks inside its write transaction.
WriteGallery(t) ==
  /\ media = "gallery" /\ Looking(t) /\ writer = NoTask
  /\ \E i \in FindByHash(content[t]) :
       IF ~cancelled /\ IsDuplicate(t, i)
       THEN Finishing(t, "duplicate") /\ UNCHANGED items
       ELSE WriteNew(t, i)
  /\ UNCHANGED <<mutexVars, jobVars, writer, known, old, found, fileVars>>

\* Screenshots and plugin hooks are over and the deferred close(done) runs.
LeaveNew(t) ==
  /\ at[t] = "finishing"
  /\ Close(t)
  /\ at' = [at EXCEPT ![t] = "over"]
  /\ UNCHANGED <<jobVars, items, writer, known, old, found, result, fileVars>>

-----------------------------------------------------------------------------
TaskStep(t) ==
  \/ Find(t) \/ ClaimHashes(t) \/ CleanUpClaim(t)
  \/ BeginFails(t) \/ UpdateClashes(t) \/ Update(t) \/ Commit(t)
  \/ Lookup(t) \/ Write(t) \/ WriteGallery(t) \/ LeaveNew(t)

LoopStep == StartTask \/ EndLoop \/ Finish \/ \E t \in Tasks : Take(t)

\* Execute has returned and its goroutines are through.
Ended == job = "over" /\ UNCHANGED vars

Next == LoopStep \/ CancelScan \/ Ended \/ \E t \in Tasks : TaskStep(t)

\* Goroutines run; nothing is assumed of the user.
Fairness == WF_vars(LoopStep) /\ \A t \in Tasks : WF_vars(TaskStep(t))

Spec == Init /\ [][Next]_vars /\ Fairness
-----------------------------------------------------------------------------
SameName(p, q) == FoldsCase /\ Fold[p] = Fold[q]

\* An item lost its hash c in this scan, as its file contains something else.
Replaced(c) == \E t \in Tasks : old[t] = c /\ content[t] # c

(***************************************************************************)
(* Two new files with the same contents are never both created: whoever    *)
(* claims the hashes second finds the item of the first, unless that item  *)
(* has lost the hash meanwhile.  Where the table has its unique index, no  *)
(* second item is moved to them either, but that the one item goes from    *)
(* file to file whose names the scanner takes for one.                     *)
(***************************************************************************)
Became(t) == result[t] \in {"created", "moved"}

NewcomersAgree == \A t, u \in Tasks :
  t # u /\ content[t] = content[u] /\ ~Replaced(content[t]) =>
    /\ ~(result[t] = "created" /\ result[u] = "created")
    /\ unique /\ ~SameName(t, u) => ~(Became(t) /\ Became(u))

(***************************************************************************)
(* A scan that was not cancelled leaves the contents of every file it      *)
(* could read under an item whose file exists, unless an item was found    *)
(* with that hash and lost it in the same scan, or the file changed into   *)
(* a copy of another item (which the scan reports and leaves alone).       *)
(***************************************************************************)
ContentsRecorded == job = "over" /\ ~cancelled =>
  \A t \in Tasks :
    \/ result[t] \in {"failed", "clash"}
    \/ Replaced(content[t])
    \/ \E i \in DOMAIN items :
         items[i].hash = content[t] /\ items[i].path \in Tasks

(***************************************************************************)
(* What a scan makes of contents: all of them are recorded, none twice.    *)
(***************************************************************************)
ScanRecords == NewcomersAgree /\ ContentsRecorded

(***************************************************************************)
(* An item goes to another file only when its own file is gone, or bears   *)
(* what the scanner takes for the same name: tasks that move items never   *)
(* take one from another file that is there (scan.go:229-244).  (A scene   *)
(* or image is taken for renamed on case-sensitive file systems, too, as   *)
(* the job never sets CaseSensitiveFs for these: task_scan_image.go:35.)   *)
(***************************************************************************)
ItemsKeepFiles == [][\A i \in DOMAIN items :
  items'[i].path # items[i].path =>
    items[i].path \notin Tasks \/ SameName(items'[i].path, items[i].path)]_vars

(***************************************************************************)
(* A scan that is not cancelled ends: tasks that wait for each other's     *)
(* hashes, for a place among the running and for the database's write lock *)
(* never wait in a circle.                                                 *)
(***************************************************************************)
ScanEnds == <>(job = "over") \/ <>cancelled

-----------------------------------------------------------------------------
(* What a comment of the code says *)

(***************************************************************************)
(* "free the mutex once transaction is complete" (pkg/image/scan.go:75): a *)
(* task that is over has given back what it claimed.                       *)
(***************************************************************************)
ClaimsFreed == \A t \in Tasks :
  at[t] = "over" /\ (\E k \in Keys : calls[t][k].at # "idle") => t \in closed
=============================================================================
