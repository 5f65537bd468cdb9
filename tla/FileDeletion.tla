---------------------------- MODULE FileDeletion ----------------------------
(***************************************************************************)
(* Deletion of scenes, markers, images and galleries with their files      *)
(* (pkg/file/delete.go, and the mutations and the clean job that use it).  *)
(* A transaction renames the files to be deleted and deletes the rows;     *)
(* after it the files are removed, or given their names back.  Requests    *)
(* share the database's write lock for the transaction, and nothing after  *)
(* it.  Any of them may lose its client, any rename or removal may fail,   *)
(* and the server may be killed and started again.                         *)
(***************************************************************************)
EXTENDS Naturals, Sequences, FiniteSets

CONSTANTS
  Scenes, Markers, Images, Galleries,
  SceneOf,      \* marker -> its scene
  Seconds,      \* seconds at which markers can be
  Attached,     \* gallery -> the images attached to it
  Zips,         \* galleries that are zip files; other galleries are folders
  Zipped,       \* images inside zip files
  Excluded,     \* what the configuration keeps out of the library
  NotThere,     \* scenes, images and zips whose file is gone at first
  MaxFaults,    \* bound: clients gone, failing renames and removals, crashes
  Regenerated,  \* bound: files that generators make again
  Users,        \* requests that users may make
  Scenarios,    \* bound: what the library holds and what is asked for
  Cleaner,      \* the clean job
  Nobody

Objects == Scenes \cup Markers \cup Images \cup Galleries

Media(o) == <<"media", o>>
Generated(o) == <<"generated", o>>
Preview(s, n) == <<"preview", s, n>>

\* Every preview of a scene's markers lies in the scene's folder.
PreviewsOf(s) == {Preview(s, n) : n \in Seconds}
PlainFiles == {Media(o) : o \in Scenes \cup Images \cup Zips}
                \cup {Generated(o) : o \in Scenes \cup Images}
Files == PlainFiles \cup UNION {PreviewsOf(s) : s \in Scenes}

(***************************************************************************)
(* Names a file may be found under: its own, with .delete, and both again  *)
(* below a folder that is renamed to .delete.                              *)
(***************************************************************************)
Places == {"here", "marked", "here in marked", "marked in marked"}

WithFolder(p) == IF p = "here" THEN "here in marked" ELSE "marked in marked"

Requests == Users \cup {Cleaner}
Kinds == {"SceneDestroy", "ScenesDestroy", "SceneMarkerDestroy",
          "SceneMarkerUpdate", "ImagesDestroy", "GalleryDestroy", "clean"}
Asked == [kind : Kinds, ids : Seq(Objects), media : BOOLEAN, generated : BOOLEAN]

\* The objects that a mutation is given the ids of.
Addressed(kind) ==
  CASE kind \in {"SceneDestroy", "ScenesDestroy"} -> Scenes
    [] kind \in {"SceneMarkerDestroy", "SceneMarkerUpdate"} -> Markers
    [] kind = "ImagesDestroy" -> Images
    [] kind = "GalleryDestroy" -> Galleries
    [] kind = "clean" -> {}

ASSUME DeletionAssumption ==
  /\ Scenes \cap (Markers \cup Images \cup Galleries) = {}
  /\ Markers \cap (Images \cup Galleries) = {} /\ Images \cap Galleries = {}
  /\ IsFiniteSet(Markers) /\ IsFiniteSet(Images)
  /\ SceneOf \in [Markers -> Scenes]
  /\ Attached \in [Galleries -> SUBSET Images]
  /\ Zips \subseteq Galleries /\ Zipped \subseteq Images
  /\ Scenarios \subseteq [rows : SUBSET Objects, second : [Markers -> Seconds],
                           asked : [Users -> Asked], clean : BOOLEAN]
  /\ \A sc \in Scenarios, u \in Users : \A k \in DOMAIN sc.asked[u].ids :
       sc.asked[u].ids[k] \in Addressed(sc.asked[u].kind)
  /\ MaxFaults \in Nat
  /\ Cleaner \notin Users /\ Nobody \notin Requests

VARIABLES
  rows,       \* objects that the database holds
  second,     \* marker -> its second, in the database
  disk,       \* file -> the places it is found at
  writer,     \* who holds WriteMu
  asked,      \* request -> what it is to do
  phase,      \* request -> how far it is
  todo,       \* request -> objects still to look at, each with its file or not
  steps,      \* request -> steps still to take for the object it looks at
  files,      \* request -> Deleter.files
  dirs,       \* request -> Deleter.dirs
  gone,       \* request -> rows that its transaction has deleted
  moved,      \* request -> new seconds that its transaction has written
  left,       \* request -> its client is gone, or its job cancelled
  stage,      \* the clean job: nothing, scenes, images, galleries
  batch,      \* what it has found in the database and not assessed yet
  toClean,    \* what it will delete
  unsaved,    \* history: objects whose deletion was not committed, unnoticed
  stranded,   \* history: files left marked by a panic, a crash, or a failure that
              \*   is only logged
  faults      \* bound: clients gone, failures and crashes so far

dataVars == <<rows, second>>
deleterVars == <<files, dirs>>
requestVars == <<asked, todo, steps, deleterVars, gone, moved>>
cleanVars == <<stage, batch, toClean>>
historyVars == <<unsaved, stranded, faults>>
vars == <<dataVars, disk, writer, phase, requestVars, left, cleanVars, historyVars>>

TypeOK ==
  /\ rows \subseteq Objects /\ second \in [Markers -> Seconds]
  /\ disk \in [Files -> SUBSET Places]
  /\ writer \in Requests \cup {Nobody}
  /\ asked \in [Requests -> Asked]
  /\ phase \in [Requests -> {"waiting", "working", "removing", "restoring",
                             "over"}]
  /\ todo \in [Requests -> Seq([object : Objects, media : BOOLEAN])]
  /\ files \in [Requests -> Seq(Files)] /\ dirs \in [Requests -> Seq(Scenes)]
  /\ gone \in [Requests -> SUBSET Objects]
  /\ moved \in [Requests -> SUBSET (Markers \X Seconds)]
  /\ left \in [Requests -> BOOLEAN]
  /\ stage \in 0..3 /\ batch \subseteq Objects /\ toClean \subseteq Objects
  /\ unsaved \subseteq Objects /\ stranded \subseteq Files
  /\ faults \in 0..MaxFaults

Clean == [kind |-> "clean", ids |-> <<>>, media |-> FALSE, generated |-> TRUE]
Doom(o, media) == [object |-> o, media |-> media]

Init ==
  /\ \E sc \in Scenarios :
       /\ rows = sc.rows /\ second = sc.second
       /\ asked = [r \in Requests |-> IF r = Cleaner THEN Clean ELSE sc.asked[r]]
       /\ stage = IF sc.clean THEN 0 ELSE 3
  /\ todo = [r \in Requests |->
       [i \in DOMAIN asked[r].ids |-> Doom(asked[r].ids[i], asked[r].media)]]
  /\ phase = [r \in Requests |-> IF r = Cleaner THEN "over" ELSE "waiting"]
  /\ steps = [r \in Requests |-> <<>>]
  /\ files = [r \in Requests |-> <<>>] /\ dirs = [r \in Requests |-> <<>>]
  /\ gone = [r \in Requests |-> {}] /\ moved = [r \in Requests |-> {}]
  /\ disk = [f \in Files |->
       IF f \in {Media(o) : o \in NotThere} THEN {} ELSE {"here"}]
  /\ writer = Nobody
  /\ left = [r \in Requests |-> FALSE]
  /\ batch = {} /\ toClean = {}
  /\ unsaved = {} /\ stranded = {} /\ faults = 0

-----------------------------------------------------------------------------
(* What a transaction does for an object, in the order of the code.        *)

Row(o) == <<"row", o>>
File(f) == <<"file", f>>
Dir(s) == <<"dir", s>>
Move(m, n) == <<"move", m, n>>

If(cond, step) == IF cond THEN <<step>> ELSE <<>>
There(r) == rows \ gone[r]

\* The markers of a scene go before it.
MarkersOf(r, s) == {m \in There(r) \cap Markers : SceneOf[m] = s}

\* Mutant: however many galleries hold the image.
AnyImages(r, g) ==
  IF g \in Zips \/ asked[r].media THEN Attached[g] \cap There(r) ELSE {}

\* The images that go before a gallery: all those attached to a zip, or those
\* that are in no other gallery, when files are to be deleted.
DoomedImages(r, g) ==
  {i \in Attached[g] \cap There(r) :
     g \in Zips \/ /\ asked[r].media
                   /\ \A h \in There(r) \cap Galleries : i \in Attached[h] => h = g}

Before(r, o) ==
  IF o \in Scenes THEN MarkersOf(r, o)
  ELSE IF o \in Galleries /\ asked[r].kind # "clean" THEN DoomedImages(r, o) ELSE {}

\* The previews of a marker belong to its second.
PreviewOf(m) == Preview(SceneOf[m], second[m])

StepsFor(r, o, media) ==
  LET generated == asked[r].generated
  IN CASE o \in Markers -> <<Row(o), File(PreviewOf(o))>>
       [] o \in Scenes -> If(media, File(Media(o))) \o If(generated, Dir(o))
                            \o If(generated, File(Generated(o))) \o <<Row(o)>>
       [] o \in Images -> If(media /\ o \notin Zipped, File(Media(o)))
                            \o If(generated, File(Generated(o))) \o <<Row(o)>>
       [] OTHER -> If(media /\ o \in Zips, File(Media(o))) \o <<Row(o)>>

Orders(S) ==
  {q \in [1..Cardinality(S) -> S] : \A o \in S : \E i \in DOMAIN q : q[i] = o}

-----------------------------------------------------------------------------
(* The transaction. *)

Fault == faults < MaxFaults /\ faults' = faults + 1

\* The client goes away, or the user cancels the clean job.
Leave(r) ==
  /\ ~left[r]
  /\ phase[r] \in {"waiting", "working"} \/ (r = Cleaner /\ stage < 3)
  /\ Fault
  /\ left' = [left EXCEPT ![r] = TRUE]
  /\ UNCHANGED <<dataVars, disk, writer, phase, requestVars, cleanVars, unsaved,
                 stranded>>

\* Mutant: the mutex is not unlocked when Begin fails.
BeginLocks(r) ==
  /\ phase[r] = "waiting" /\ writer = Nobody
  /\ writer' = r
  /\ phase' = [phase EXCEPT ![r] = IF left[r] THEN "over" ELSE "working"]
  /\ UNCHANGED <<dataVars, disk, requestVars, left, cleanVars, historyVars>>

\* WriteMu is locked; then the transaction begins, or cannot.
Begin(r) ==
  /\ phase[r] = "waiting" /\ writer = Nobody
  /\ IF left[r]
     THEN phase' = [phase EXCEPT ![r] = "over"] /\ UNCHANGED writer
     ELSE phase' = [phase EXCEPT ![r] = "working"] /\ writer' = r
  /\ UNCHANGED <<dataVars, disk, requestVars, left, cleanVars, historyVars>>

\* Mutants: the deleter's Rollback is forgotten; the files are removed.
FailForgetful(r) ==
  /\ phase' = [phase EXCEPT ![r] = "over"] /\ writer' = Nobody
  /\ gone' = [gone EXCEPT ![r] = {}] /\ moved' = [moved EXCEPT ![r] = {}]
  /\ todo' = [todo EXCEPT ![r] = <<>>] /\ steps' = [steps EXCEPT ![r] = <<>>]
  /\ files' = [files EXCEPT ![r] = <<>>] /\ dirs' = [dirs EXCEPT ![r] = <<>>]
  /\ UNCHANGED <<dataVars, disk, asked, left, cleanVars, unsaved, stranded>>

FailRemoves(r) ==
  /\ phase' = [phase EXCEPT ![r] = "removing"] /\ writer' = Nobody
  /\ gone' = [gone EXCEPT ![r] = {}] /\ moved' = [moved EXCEPT ![r] = {}]
  /\ todo' = [todo EXCEPT ![r] = <<>>] /\ steps' = [steps EXCEPT ![r] = <<>>]
  /\ UNCHANGED <<dataVars, disk, asked, deleterVars, left, cleanVars, unsaved,
                 stranded>>

\* The function returns an error: rollback, unlock, and Deleter.Rollback next.
Fail(r) ==
  /\ phase' = [phase EXCEPT ![r] = "restoring"] /\ writer' = Nobody
  /\ gone' = [gone EXCEPT ![r] = {}] /\ moved' = [moved EXCEPT ![r] = {}]
  /\ todo' = [todo EXCEPT ![r] = <<>>] /\ steps' = [steps EXCEPT ![r] = <<>>]
  /\ UNCHANGED <<dataVars, disk, asked, deleterVars, left, cleanVars, unsaved,
                 stranded>>

\* The files that r has marked, those below its folders included.
Listed(r) == {files[r][i] : i \in DOMAIN files[r]}
MarkedBy(r) == Listed(r) \cup UNION {PreviewsOf(dirs[r][i]) : i \in DOMAIN dirs[r]}

Forget(R) ==
  /\ phase' = [r \in Requests |->
       IF r \in R THEN "over" ELSE phase[r]]
  /\ todo' = [r \in Requests |-> IF r \in R THEN <<>> ELSE todo[r]]
  /\ steps' = [r \in Requests |-> IF r \in R THEN <<>> ELSE steps[r]]
  /\ files' = [r \in Requests |-> IF r \in R THEN <<>> ELSE files[r]]
  /\ dirs' = [r \in Requests |-> IF r \in R THEN <<>> ELSE dirs[r]]
  /\ gone' = [r \in Requests |-> IF r \in R THEN {} ELSE gone[r]]
  /\ moved' = [r \in Requests |-> IF r \in R THEN {} ELSE moved[r]]
  /\ stranded' = stranded \cup UNION {MarkedBy(r) : r \in R}
  /\ UNCHANGED <<dataVars, disk, asked, left, unsaved>>

\* WithTxn rolls back, the mutex is unlocked, and nobody restores the files.
\* The GraphQL server survives the panic of a request.
PanicRequest(r) == Forget({r}) /\ writer' = Nobody /\ UNCHANGED <<cleanVars, faults>>

\* The process is gone and another is started.  SQLite rolls back.  Requests
\* that still wait may as well be made later.
Restart ==
  /\ Forget({r \in Requests : phase[r] # "waiting" \/ r = Cleaner}) /\ writer' = Nobody
  /\ stage' = 3 /\ batch' = {} /\ toClean' = {}

Crash == Fault /\ Restart

\* The object is not in the database.  Scenes that are nil are used by
\* ScenesDestroy and by the clean job, whose goroutine takes the server down.
Missing(r, o) ==
  LET kind == asked[r].kind
  IN \/ kind = "ScenesDestroy" /\ PanicRequest(r)
     \/ kind = "clean" /\ o \in Scenes /\ Restart /\ UNCHANGED faults
     \/ kind # "ScenesDestroy" /\ ~(kind = "clean" /\ o \in Scenes)
          /\ Fail(r) /\ UNCHANGED faults

\* The next object: those that go before it are looked at first.  Images are
\* destroyed with their files unless their gallery is a zip.
Look(r) ==
  /\ phase[r] = "working" /\ steps[r] = <<>> /\ todo[r] # <<>>
  /\ LET o == Head(todo[r]).object  media == Head(todo[r]).media
     IN \/ o \notin There(r) /\ Missing(r, o)
        \/ /\ o \in There(r)
           /\ IF Before(r, o) # {}
              THEN /\ \E q \in Orders(Before(r, o)) :
                        todo' = [todo EXCEPT ![r] =
                          [i \in DOMAIN q |-> Doom(q[i], media /\ o \notin Zips)] \o @]
                   /\ UNCHANGED <<steps>>
              ELSE /\ todo' = [todo EXCEPT ![r] = Tail(@)]
                   /\ \/ /\ asked[r].kind # "SceneMarkerUpdate"
                         /\ steps' = [steps EXCEPT ![r] = StepsFor(r, o, media)]
                      \/ /\ asked[r].kind = "SceneMarkerUpdate"
                         /\ \E n \in Seconds :
                              steps' = [steps EXCEPT ![r] =
                                <<Move(o, n), File(PreviewOf(o))>>]
                      \/ asked[r].kind = "SceneMarkerUpdate" /\ UNCHANGED steps
           /\ UNCHANGED <<dataVars, disk, writer, asked, phase, deleterVars, gone,
                          moved, left, cleanVars, historyVars>>

\* Files: a file that is not there is passed over.  Rename replaces a file
\* that an earlier deletion has left behind.
MarkFile(r, f) ==
  IF "here" \in disk[f]
  THEN /\ disk' = [disk EXCEPT ![f] = (@ \ {"here"}) \cup {"marked"}]
       /\ files' = [files EXCEPT ![r] = Append(@, f)]
  ELSE UNCHANGED <<disk, files>>

Holds(s, places) == \E f \in PreviewsOf(s) : disk[f] \cap places # {}
InFolder == {"here", "marked"}
InMarked == {"here in marked", "marked in marked"}

\* Dirs: a folder takes the files in it along.
MarkDir(r, s) ==
  IF Holds(s, InFolder)
  THEN /\ disk' = [f \in Files |-> IF f \in PreviewsOf(s)
                     THEN {WithFolder(p) : p \in disk[f]} ELSE disk[f]]
       /\ dirs' = [dirs EXCEPT ![r] = Append(@, s)]
  ELSE UNCHANGED <<disk, dirs>>

\* There is a marked folder already, with files in it.
Blocked(s) == Holds(s, InFolder) /\ Holds(s, InMarked)

Step(r) ==
  /\ phase[r] = "working" /\ steps[r] # <<>>
  /\ LET step == Head(steps[r])
     IN /\ \/ /\ step[1] = "row"
              /\ gone' = [gone EXCEPT ![r] = @ \cup {step[2]}]
              /\ UNCHANGED <<disk, deleterVars, moved>>
           \/ /\ step[1] = "move"
              /\ moved' = [moved EXCEPT ![r] = {<<step[2], step[3]>>}]
              /\ UNCHANGED <<disk, deleterVars, gone>>
           \/ /\ step[1] = "file"
              /\ MarkFile(r, step[2])
              /\ UNCHANGED <<dirs, gone, moved>>
           \/ /\ step[1] = "dir"
              /\ ~Blocked(step[2])
              /\ MarkDir(r, step[2])
              /\ UNCHANGED <<files, gone, moved>>
        /\ steps' = [steps EXCEPT ![r] = Tail(@)]
  /\ UNCHANGED <<dataVars, writer, asked, phase, todo, left, cleanVars, historyVars>>

\* A rename fails, or a statement whose transaction's context is done.
StepFails(r) ==
  /\ phase[r] = "working" /\ steps[r] # <<>>
  /\ LET step == Head(steps[r])
     IN \/ (left[r] \/ (step[1] = "dir" /\ Blocked(step[2]))) /\ UNCHANGED faults
        \/ step[1] \in {"file", "dir"} /\ Fault
  /\ Fail(r)

Done(r) == phase[r] = "working" /\ steps[r] = <<>> /\ todo[r] = <<>>

\* The transaction is committed, and Deleter.Commit is next.
Commit(r) ==
  /\ Done(r) /\ ~left[r]
  /\ rows' = rows \ gone[r]
  /\ second' = [m \in Markers |->
       IF \E n \in Seconds : <<m, n>> \in moved[r]
       THEN CHOOSE n \in Seconds : <<m, n>> \in moved[r] ELSE second[m]]
  /\ phase' = [phase EXCEPT ![r] = "removing"] /\ writer' = Nobody
  /\ UNCHANGED <<disk, requestVars, left, cleanVars, historyVars>>

\* It is not, as its context is done; WithTxn returns nil all the same.
CommitFails(r) ==
  /\ Done(r) /\ left[r]
  /\ phase' = [phase EXCEPT ![r] = "removing"] /\ writer' = Nobody
  /\ unsaved' = unsaved \cup gone[r]
  /\ UNCHANGED <<dataVars, disk, requestVars, left, cleanVars, stranded, faults>>

-----------------------------------------------------------------------------
(* After the transaction. *)

\* Deleter.Commit, files first.
Remove(r) ==
  /\ phase[r] = "removing"
  /\ \/ /\ files[r] # <<>>
        /\ disk' = [disk EXCEPT ![Head(files[r])] = @ \ {"marked"}]
        /\ files' = [files EXCEPT ![r] = Tail(@)] /\ UNCHANGED dirs
     \/ /\ files[r] = <<>> /\ dirs[r] # <<>>
        /\ disk' = [f \in Files |-> IF f \in PreviewsOf(Head(dirs[r]))
                                   THEN disk[f] \ InMarked ELSE disk[f]]
        /\ dirs' = [dirs EXCEPT ![r] = Tail(@)] /\ UNCHANGED files
  /\ UNCHANGED <<dataVars, writer, phase, asked, todo, steps, gone, moved, left,
                 cleanVars, historyVars>>

\* The next file or folder of the lists is passed over, with an error in the log.
PassOver(r) ==
  \/ /\ files[r] # <<>>
     /\ stranded' = stranded \cup {Head(files[r])}
     /\ files' = [files EXCEPT ![r] = Tail(@)] /\ UNCHANGED dirs
  \/ /\ files[r] = <<>> /\ dirs[r] # <<>>
     /\ stranded' = stranded \cup PreviewsOf(Head(dirs[r]))
     /\ dirs' = [dirs EXCEPT ![r] = Tail(@)] /\ UNCHANGED files

\* A file cannot be removed, or not all that a folder holds.
RemoveFails(r) ==
  /\ phase[r] = "removing" /\ PassOver(r) /\ Fault
  /\ \/ files[r] # <<>> /\ UNCHANGED disk
     \/ /\ files[r] = <<>>
        /\ \E kept \in [PreviewsOf(Head(dirs[r])) -> SUBSET InMarked] :
             disk' = [f \in Files |-> IF f \in PreviewsOf(Head(dirs[r]))
                       THEN disk[f] \ (InMarked \ kept[f]) ELSE disk[f]]
  /\ UNCHANGED <<dataVars, writer, phase, asked, todo, steps, gone, moved, left,
                 cleanVars, unsaved>>

WithoutFolder(p) == IF p = "here in marked" THEN "here" ELSE "marked"

RestoreFile(f) ==
  IF "marked" \in disk[f]
  THEN disk' = [disk EXCEPT ![f] = (@ \ {"marked"}) \cup {"here"}]
  ELSE UNCHANGED disk

RestoreDir(s) ==
  IF Holds(s, InFolder) THEN UNCHANGED disk
  ELSE disk' = [f \in Files |-> IF f \in PreviewsOf(s)
                  THEN {WithoutFolder(p) : p \in disk[f]} ELSE disk[f]]

\* Deleter.Rollback, files first.
Restore(r) ==
  /\ phase[r] = "restoring"
  /\ \/ /\ files[r] # <<>>
        /\ RestoreFile(Head(files[r]))
        /\ files' = [files EXCEPT ![r] = Tail(@)] /\ UNCHANGED dirs
     \/ /\ files[r] = <<>> /\ dirs[r] # <<>>
        /\ RestoreDir(Head(dirs[r]))
        /\ dirs' = [dirs EXCEPT ![r] = Tail(@)] /\ UNCHANGED files
  /\ UNCHANGED <<dataVars, writer, phase, asked, todo, steps, gone, moved, left,
                 cleanVars, historyVars>>

RestoreFails(r) ==
  /\ phase[r] = "restoring" /\ PassOver(r) /\ Fault
  /\ UNCHANGED <<dataVars, disk, writer, phase, asked, todo, steps, gone, moved, left,
                 cleanVars, unsaved>>

End(r) ==
  /\ phase[r] \in {"removing", "restoring"} /\ files[r] = <<>> /\ dirs[r] = <<>>
  /\ phase' = [phase EXCEPT ![r] = "over"]
  /\ gone' = [gone EXCEPT ![r] = {}] /\ moved' = [moved EXCEPT ![r] = {}]
  /\ UNCHANGED <<dataVars, disk, writer, asked, todo, steps, deleterVars, left,
                 cleanVars, historyVars>>

-----------------------------------------------------------------------------
(* The clean job: scenes, images, galleries. *)

OfStage(n) == CASE n = 1 -> Scenes [] n = 2 -> Images [] n = 3 -> Galleries

CleanerFree == phase[Cleaner] = "over"

\* The objects of the next kind are read, unless the job is cancelled.
CleanQuery ==
  /\ stage < 3 /\ batch = {} /\ toClean = {} /\ CleanerFree /\ ~left[Cleaner]
  /\ stage' = stage + 1
  /\ batch' = rows \cap OfStage(stage')
  /\ UNCHANGED <<dataVars, disk, writer, phase, requestVars, left, toClean, historyVars>>

\* A gallery without files of its own goes when no image is attached to it.
ShouldClean(o) ==
  \/ o \in Excluded
  \/ o \in Scenes \cup Images \cup Zips /\ "here" \notin disk[Media(o)]
  \/ o \in Galleries \ Zips /\ Attached[o] \cap rows = {}

\* In the order of their paths.
Assess ==
  /\ batch # {}
  /\ LET o == CHOOSE o \in batch : TRUE
     IN /\ batch' = batch \ {o}
        /\ toClean' = IF ShouldClean(o) THEN toClean \cup {o} ELSE toClean
  /\ UNCHANGED <<dataVars, disk, writer, phase, requestVars, left, stage, historyVars>>

\* The objects to clean are deleted, each in a transaction of its own.
CleanNext ==
  /\ batch = {} /\ toClean # {} /\ CleanerFree /\ ~left[Cleaner]
  /\ LET o == CHOOSE o \in toClean : TRUE
     IN /\ toClean' = toClean \ {o}
        /\ todo' = [todo EXCEPT ![Cleaner] = <<Doom(o, FALSE)>>]
  /\ phase' = [phase EXCEPT ![Cleaner] = "waiting"]
  /\ UNCHANGED <<dataVars, disk, writer, asked, steps, deleterVars, gone, moved,
                 left, stage, batch, historyVars>>

-----------------------------------------------------------------------------
\* A generator (re)creates what a scene or an image that it once read lacks.
Generate(o, f) ==
  /\ f \in Regenerated
  /\ "here" \in disk[Media(o)] /\ "here" \notin disk[f]
  /\ disk' = [disk EXCEPT ![f] = @ \cup {"here"}]
  /\ UNCHANGED <<dataVars, writer, phase, requestVars, left, cleanVars, historyVars>>

RequestStep(r) ==
  Begin(r) \/ Look(r) \/ Step(r) \/ StepFails(r) \/ Commit(r) \/ CommitFails(r) \/ Remove(r)
    \/ RemoveFails(r) \/ Restore(r) \/ RestoreFails(r) \/ End(r)

CleanStep == CleanQuery \/ Assess \/ CleanNext

Next ==
  \/ \E r \in Requests : RequestStep(r) \/ Leave(r)
  \/ CleanStep \/ Crash
  \/ \E s \in Scenes : \E f \in PreviewsOf(s) \cup {Generated(s)} : Generate(s, f)
  \/ \E i \in Images : Generate(i, Generated(i))

\* Requests and the job go on; nothing is assumed of users.
Fairness == WF_vars(CleanStep) /\ \A r \in Requests : WF_vars(RequestStep(r))

Spec == Init /\ [][Next]_vars /\ Fairness
-----------------------------------------------------------------------------
(***************************************************************************)
(* No deletion takes the file of something that stays in the library,      *)
(* whatever fails, panics or crashes: as long as commits do what WithTxn   *)
(* reports, what the database holds keeps its file, be it under the name   *)
(* that a crash has left it (file/delete.go:45-52).                        *)
(***************************************************************************)
MediaKept == \A o \in rows \ (unsaved \cup NotThere) :
  Media(o) \in Files => disk[Media(o)] # {}

(***************************************************************************)
(* A file is called .delete only while a request is at work on it, unless  *)
(* a panic or a crash has come between, or its own removal or renaming     *)
(* back has failed, of which there is only a line in the log               *)
(* (file/delete.go:125-152).  (A preview may also be left so in a folder   *)
(* that is renamed back after it.)                                         *)
(***************************************************************************)
MarkedOnlyInFlight == \A f \in PlainFiles \ stranded :
  "marked" \in disk[f] => \E r \in Requests : f \in Listed(r)

(***************************************************************************)
(* Deleting folder galleries takes along only images that no other gallery *)
(* holds (resolver_mutation_gallery.go:450).                               *)
(***************************************************************************)
SharedImagesStay == [][\A i \in (rows \ rows') \cap Images :
  writer # Cleaner /\ asked[writer].kind = "GalleryDestroy" =>
    \/ \E z \in (rows \ rows') \cap Zips : i \in Attached[z]
    \/ \A g \in rows' \cap Galleries : i \notin Attached[g]]_vars

(***************************************************************************)
(* Every request that waits for the write lock comes to its end: nobody    *)
(* leaves with the lock, and nobody waits for ever.                        *)
(***************************************************************************)
RequestsEnd == <>[](\A r \in Requests : phase[r] = "over")

(***************************************************************************)
(* "If the transaction is rolled back, then the files/directories can be   *)
(* restored" (file/delete.go:48): what stays in the library has its file.  *)
(***************************************************************************)
FilesOutliveRows == \A o \in rows \ NotThere : Media(o) \in Files => disk[Media(o)] # {}
=============================================================================
