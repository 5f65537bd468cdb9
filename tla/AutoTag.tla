------------------------------ MODULE AutoTag ------------------------------
(***************************************************************************)
(* The auto-tag job (internal/manager/task_autotag.go, internal/autotag,   *)
(* pkg/match): objects are linked with the performers, studios and tags    *)
(* whose name or alias is found in their path.  It goes through the files  *)
(* when everything is asked for, and otherwise through the performers,     *)
(* studios and tags of the input.                                          *)
(*                                                                         *)
(* Names and paths are abstracted to who matches whom; all objects lie in  *)
(* the paths of the input.                                                 *)
(***************************************************************************)
EXTENDS Library, SequencesExt

CONSTANTS
  Matching,       \* object -> subjects that match its path
  StudiosFrom,    \* object -> matching studios, from the right of the path
  SingleLetter,   \* subjects whose name begins with a word of one letter
  Ignored         \* subjects with ignore_auto_tag

ASSUME AutoTagAssumption ==
  /\ Matching \in [Objects -> SUBSET Subjects]
  /\ StudiosFrom \in [Objects -> Seq(Studios)]
  /\ \A o \in Objects : Range(StudiosFrom[o]) = Matching[o] \cap Studios
  /\ SingleLetter \cup Ignored \subseteq Subjects
  /\ \A j \in Inputs :
       j.kind = "specific" =>
         j.ids \in Seq([of : {"performers", "studios", "tags"}, id : Subjects \cup {"*"}])

Everything == "*"
RowsOf == [performers |-> Performers, studios |-> Studios, tags |-> Tags]
LinkKinds == {"performers", "tags"}

-----------------------------------------------------------------------------
(* Through the files *)

\* getSingleLetterPerformers and the like do not ask for ignore_auto_tag.
CachedOf(k) ==
  IF cache[k] = None THEN RowsOf[k] \cap there \cap SingleLetter
  ELSE cache[k]

Candidates(k) == ((RowsOf[k] \cap there) \ Ignored) \cup CachedOf(k)

\* PathToPerformers and PathToTags.
Matches(o, k) == Matching[o] \cap Candidates(k)

Wanted(o, k) == {x \in Matches(o, k) : links[o][x] = 0}

\* The one that is furthest to the right.
PathToStudio(o) ==
  LET from == {j \in DOMAIN StudiosFrom[o] : StudiosFrom[o][j] \in Candidates("studios")}
  IN IF from = {} THEN None ELSE StudiosFrom[o][Min(from)]

\* A row of an object or a subject that is not there breaks a foreign key.
LinksFail(o, k) ==
  input[k] /\ Wanted(o, k) # {} /\ ~(({o} \cup Wanted(o, k)) \subseteq there)

\* The row that was read says whether a studio is looked for ...
AsksForStudio(row) ==
  input.studios /\ row.studio = None /\ PathToStudio(row.id) # None

\* Mutant: ... and nothing else.
SetsStudioOnce(row) == AsksForStudio(row)

\* ... and the row as it is now whether it is set.
SetsStudio(row) == AsksForStudio(row) /\ studio[row.id] = None

StudioFails(row) == SetsStudio(row) /\ PathToStudio(row.id) \notin there

\* addSceneStudio uses what Find returns, nil or not.
StudioPanics(row) ==
  /\ ~LinksFail(row.id, "performers")
  /\ AsksForStudio(row) /\ row.id \notin there

Fails(row) == \/ LinksFail(row.id, "performers")
              \/ StudioFails(row)
              \/ LinksFail(row.id, "tags")

\* What is looked up before a step of the transaction fails.
Loaded(row) ==
  {k \in DOMAIN cache :
     /\ input[k]
     /\ k = "studios" => row.studio = None /\ ~LinksFail(row.id, "performers")
     /\ k = "tags" => ~LinksFail(row.id, "performers") /\ ~StudioFails(row)}

FillCache(row) ==
  cache' = [k \in DOMAIN cache |-> IF k \in Loaded(row) THEN CachedOf(k)
                                   ELSE cache[k]]

HasFile == input.kind = "files" /\ pc = "each" /\ batch # <<>>

\* The goroutine of the task panics, and the server ends.
TagFilePanics ==
  /\ HasFile
  /\ ~Head(batch).found \/ StudioPanics(Head(batch))
  /\ pc' = "crashed"
  /\ UNCHANGED <<input, kinds, page, ids, batch, todo, cache, found,
                 cancelled, visited>>
  /\ UNCHANGED libVars

\* Start of the tasks for scenes, images and galleries: one transaction.
TagFile ==
  /\ HasFile
  /\ LET row == Head(batch)
         new == UNION {Wanted(row.id, k) : k \in {l \in LinkKinds : input[l]}}
     IN /\ row.found /\ ~StudioPanics(row)
        /\ FillCache(row)
        /\ visited' = visited \cup {row.id}
        /\ IF Fails(row)
           THEN UNCHANGED <<links, studio>>
           ELSE /\ links' = [links EXCEPT ![row.id] = AppendUnique(@, new)]
                /\ studio' = IF SetsStudio(row)
                             THEN [studio EXCEPT ![row.id] = PathToStudio(row.id)]
                             ELSE studio
  /\ batch' = Tail(batch)
  /\ UNCHANGED <<input, pc, kinds, page, ids, todo, found, cancelled>>
  /\ UNCHANGED <<there, organized, primary>>

-----------------------------------------------------------------------------
(* Through the performers, studios and tags of the input *)

Asked == Head(todo)

\* The next entry of the input: everything, or one id.
AskFor ==
  /\ input.kind = "specific" /\ pc = "query"
  /\ IF todo = <<>> THEN pc' = "done" /\ UNCHANGED <<batch, todo>>
     ELSE IF Asked.id = Everything
     THEN /\ batch' = SetToSeq((RowsOf[Asked.of] \cap there) \ Ignored)
          /\ pc' = "each" /\ todo' = Tail(todo)
     ELSE IF Asked.id \in there
     THEN batch' = <<Asked.id>> /\ pc' = "each" /\ todo' = Tail(todo)
     ELSE /\ pc' = IF Asked.of = "tags" THEN "crashed" ELSE "query"
          /\ todo' = Tail(todo)
          /\ UNCHANGED batch
  /\ UNCHANGED <<input, kinds, page, ids, cache, found, cancelled, visited>>
  /\ UNCHANGED libVars

\* PathToScenes, PathToImages and PathToGalleries.
ObjectsFor(x) ==
  {o \in Objects \cap there : ~organized[o] /\ x \in Matching[o]}

\* A link is added where there is none, a studio is set where none is.
Takes(o, x) == IF x \in Studios THEN studio[o] = None ELSE links[o][x] = 0

Receivers(x) == {o \in ObjectsFor(x) : Takes(o, x)}

\* One transaction; when it fails, the rest of the entry is left out.
TagSubject ==
  /\ input.kind = "specific" /\ pc = "each" /\ batch # <<>>
  /\ LET x == Head(batch)
         O == Receivers(x)
     IN IF O # {} /\ x \notin there
        THEN batch' = <<>> /\ UNCHANGED <<links, studio>>
        ELSE /\ batch' = Tail(batch)
             /\ links' = [o \in Objects |->
                  IF o \in O /\ x \in Attachable THEN AppendUnique(links[o], {x})
                  ELSE links[o]]
             /\ studio' = [o \in Objects |->
                  IF o \in O /\ x \in Studios THEN x ELSE studio[o]]
  /\ UNCHANGED <<input, pc, kinds, page, ids, todo, cache, found, cancelled,
                 visited>>
  /\ UNCHANGED <<there, organized, primary>>

NextEntry ==
  /\ input.kind = "specific" /\ pc = "each" /\ batch = <<>>
  /\ pc' = "query"
  /\ UNCHANGED <<input, kinds, page, ids, batch, todo, cache, found,
                 cancelled, visited>>
  /\ UNCHANGED libVars

AutoTagStep ==
  TagFilePanics \/ TagFile \/ AskFor \/ TagSubject \/ NextEntry
=============================================================================
