------------------------------ MODULE Library ------------------------------
(***************************************************************************)
(* The rows of the library, what they are linked to, and how users change  *)
(* them (resolver_mutation_scene.go and its siblings) while a job of       *)
(* LibraryJobs reads and writes them.  A mutation is one write transaction *)
(* and one step; one that fails is rolled back and is no step.  A row is   *)
(* known by its id, which is never used again.                             *)
(*                                                                         *)
(* The tables that link objects with performers and tags have no unique    *)
(* index, so links are counted: a row may be there twice.                  *)
(***************************************************************************)
EXTENDS Naturals, Sequences, FiniteSets, FiniteSetsExt

CONSTANTS
  Scenes, Images, Galleries, Markers,
  MarkerOf,                      \* marker -> its scene
  Performers, Studios, Tags,
  NameOf,                        \* performer, studio or tag -> its name
  None,
  Beginnings,                    \* bound: what the library holds at first
  MaxEdits                       \* bound: transactions of users

Objects == Scenes \cup Images \cup Galleries
Subjects == Performers \cup Studios \cup Tags
Attachable == Performers \cup Tags
Names == {NameOf[x] : x \in Subjects}

\* Ids of different tables are different things here.
ASSUME LibraryAssumption ==
  /\ IsFiniteSet(Subjects) /\ None \notin Objects \cup Subjects
  /\ Objects \cap Subjects = {}
  /\ Performers \cap Studios = {} /\ Performers \cap Tags = {} /\ Studios \cap Tags = {}
  /\ MarkerOf \in [Markers -> Scenes]
  /\ DOMAIN NameOf = Subjects
  /\ MaxEdits \in Nat
  /\ \A b \in Beginnings : b.studio \in [Objects -> Studios \cup {None}]

VARIABLES
  there,       \* ids of the objects, markers and subjects that exist
  links,       \* object -> performer or tag -> rows that link them
  studio,      \* object -> its studio_id, None if null
  organized,   \* object -> the flag
  primary,     \* marker -> its primary_tag_id
  gone,        \* history: subjects that were there and are not
  edits,       \* transactions of users so far
  touched,     \* history: objects that users changed
  left         \* history: a row that was to be processed was taken away

libVars == <<there, links, studio, organized, primary>>
histVars == <<gone, edits, touched, left>>

NoLinks == [x \in Attachable |-> 0]
Linked(o) == {x \in Attachable : links[o][x] > 0}

\* joinRepository.replace for one of the tables.
Replaced(row, kind, S) ==
  [x \in Attachable |-> IF x \notin kind THEN row[x]
                        ELSE IF x \in S THEN 1 ELSE 0]

AppendUnique(row, S) ==
  [x \in Attachable |-> IF x \in S /\ row[x] = 0 THEN 1 ELSE row[x]]

Modes == {"SET", "ADD", "REMOVE"}

\* REMOVE takes away the first of equal ids.
AdjustIDs(row, mode, kind, S) ==
  CASE mode = "SET" -> Replaced(row, kind, S)
    [] mode = "ADD" -> AppendUnique(row, S)
    [] OTHER -> [x \in Attachable |->
                   IF x \in S /\ row[x] > 0 THEN row[x] - 1 ELSE row[x]]

LibraryTypeOK ==
  /\ there \subseteq Objects \cup Markers \cup Subjects
  /\ gone \subseteq Subjects \ there
  /\ links \in [Objects -> [Attachable -> 0..Cardinality(Tags)]]
  /\ studio \in [Objects -> Studios \cup {None}]
  /\ organized \in [Objects -> BOOLEAN]
  /\ primary \in [Markers -> Tags]
  /\ edits \in 0..MaxEdits /\ touched \subseteq Objects /\ left \in BOOLEAN
  /\ \A o \in Objects :
       /\ Linked(o) \subseteq there
       /\ studio[o] \in there \cup {None}
       /\ o \notin there => links[o] = NoLinks /\ studio[o] = None
  /\ \A m \in Markers \cap there :
       MarkerOf[m] \in there /\ primary[m] \in there

LibraryInit ==
  /\ \E b \in Beginnings :
       /\ there = b.there
       /\ links = [o \in Objects |->
                     [x \in Attachable |-> IF x \in b.links[o] THEN 1 ELSE 0]]
       /\ studio = b.studio
       /\ primary = b.primary
  /\ organized = [o \in Objects |-> FALSE]
  /\ gone = {} /\ edits = 0 /\ touched = {} /\ left = FALSE

-----------------------------------------------------------------------------
(* What users do *)

\* A user's transaction on objects O; some row is no longer to be processed.
Edited(O, takesAway) ==
  /\ edits < MaxEdits
  /\ edits' = edits + 1
  /\ touched' = touched \cup O
  /\ left' = (left \/ takesAway)

\* sceneUpdate, and the same for images and galleries, of one field; what is
\* given need not be what the user saw.
UpdateOrganized(o) ==
  /\ o \in there
  /\ organized' = [organized EXCEPT ![o] = ~@]
  /\ Edited({o}, ~organized[o])
  /\ UNCHANGED <<there, links, studio, primary, gone>>

UpdateStudio(o, s) ==
  /\ o \in there /\ s \in there \cup {None}
  /\ studio' = [studio EXCEPT ![o] = s]
  /\ Edited({o}, FALSE)
  /\ UNCHANGED <<there, links, organized, primary, gone>>

\* sceneUpdate with a list, or BulkSceneUpdate of several.
BulkUpdate(O, mode, kind, S) ==
  /\ O \subseteq there /\ S \subseteq kind
  /\ links' = [o \in Objects |-> IF o \in O
                 THEN AdjustIDs(links[o], mode, kind, S) ELSE links[o]]
  /\ \A o \in O : {x \in Attachable : links'[o][x] > 0} \subseteq there
  /\ Edited(O, FALSE)
  /\ UNCHANGED <<there, studio, organized, primary, gone>>

\* The row, and by its foreign keys the rows that belong to it; what becomes
\* of the files is in FileDeletion.
ObjectDestroy(o) ==
  /\ o \in there
  /\ there' = there \ ({o} \cup {m \in Markers : MarkerOf[m] = o})
  /\ links' = [links EXCEPT ![o] = NoLinks]
  /\ studio' = [studio EXCEPT ![o] = None]
  /\ organized' = [organized EXCEPT ![o] = FALSE]
  /\ Edited({o}, TRUE)
  /\ UNCHANGED <<primary, gone>>

Without(row, S) ==
  [x \in Attachable |-> IF x \in S THEN 0 ELSE row[x]]

\* Destroy of a performer, studio or tag; a tag that is a marker's primary tag
\* cannot be deleted.
SubjectDestroy(x) ==
  /\ x \in there
  /\ \A m \in Markers \cap there : primary[m] # x
  /\ there' = there \ {x}
  /\ gone' = gone \cup {x}
  /\ links' = [o \in Objects |-> Without(links[o], {x})]
  /\ studio' = [o \in Objects |-> IF studio[o] = x THEN None ELSE studio[o]]
  /\ Edited({}, TRUE)
  /\ UNCHANGED <<organized, primary>>

SameName(x) == {y \in there : y \in Subjects /\ NameOf[y] = NameOf[x]}

\* Names are unique: by an index, or for tags by EnsureTagNameUnique.
SubjectCreate(x) ==
  /\ x \in Subjects \ (there \cup gone)
  /\ SameName(x) = {}
  /\ there' = there \cup {x}
  /\ Edited({}, FALSE)
  /\ UNCHANGED <<links, studio, organized, primary, gone>>

\* Rows of S become rows of d, unless d has one: the condition is evaluated
\* for all of them before the first is changed.
Merged(row, S, d) ==
  IF row[d] > 0 THEN Without(row, S)
  ELSE [Without(row, S) EXCEPT ![d] = MapThenSumSet(LAMBDA x : row[x], S)]

\* What becomes of the tags' hierarchy is in TagHierarchy.
TagsMerge(S, d) ==
  /\ d \in there /\ S \subseteq there \ {d}
  /\ links' = [o \in Objects |-> Merged(links[o], S, d)]
  /\ primary' = [m \in Markers |-> IF primary[m] \in S THEN d ELSE primary[m]]
  /\ there' = there \ S
  /\ gone' = gone \cup S
  /\ Edited({}, TRUE)
  /\ UNCHANGED <<studio, organized>>

UserEdits ==
  \/ \E o \in Objects : \/ UpdateOrganized(o)
                        \/ \E s \in Studios \cup {None} : UpdateStudio(o, s)
                        \/ ObjectDestroy(o)
  \/ \E kind \in {Scenes, Images, Galleries}, mode \in Modes,
        list \in {Performers, Tags} :
       \E O \in SUBSET kind \ {{}}, S \in SUBSET list :
         (S # {} \/ mode = "SET") /\ BulkUpdate(O, mode, list, S)
  \/ \E x \in Subjects : SubjectDestroy(x) \/ SubjectCreate(x)
  \/ \E S \in SUBSET Tags \ {{}}, d \in Tags : TagsMerge(S, d)

-----------------------------------------------------------------------------
(***************************************************************************)
(* How a job reads the objects it works on: scene.BatchProcess and the     *)
(* loops of task_autotag.go ask for one page of ids at a time, then for    *)
(* the rows of the ids, and then process the rows one by one, each in a    *)
(* transaction of its own.  Reading takes no lock and no snapshot, so      *)
(* users write in between.                                                 *)
(*                                                                         *)
(* Cancelling ends the job in one step: from then on every transaction     *)
(* fails to begin or to commit, and the loops return without another       *)
(* effect on the library.                                                  *)
(***************************************************************************)
CONSTANTS
  IdOrder,     \* the objects in the order queries return them
  BatchSize,   \* 1000 in the code
  Inputs       \* the jobs that may be asked for

ASSUME BatchAssumption ==
  /\ BatchSize \in Nat \ {0}
  /\ IdOrder \in Seq(Objects) /\ {IdOrder[i] : i \in DOMAIN IdOrder} = Objects
  /\ \A j \in Inputs : j.kind \in {"files", "specific", "identify", "ids"}

VARIABLES
  input,       \* the job asked for
  pc,          \* query, resolve, each, modify; done or crashed
  kinds,       \* kinds of objects still to be read, the current one first
  page, ids,   \* the page and the ids found on it
  batch,       \* rows that wait to be processed
  todo,        \* ids of the input that are not yet looked at
  cache,       \* match.Cache: subjects found once for the whole job
  found,       \* what was scraped for the first row
  cancelled,
  visited      \* history: objects that were given to the job's task

jobVars == <<input, pc, kinds, page, ids, batch, todo, cache, found,
             cancelled, visited>>

Ended == {"done", "crashed"}

\* The filter leaves out what is organized; the n-th row is the one with n rows up to it.
Listed(kind) == {j \in DOMAIN IdOrder : IdOrder[j] \in kind \cap there /\ ~organized[IdOrder[j]]}
UpTo(kind, j) == {l \in Listed(kind) : l <= j}
InQuery(kind) ==
  [n \in 1..Cardinality(Listed(kind)) |->
     IdOrder[CHOOSE j \in Listed(kind) : Cardinality(UpTo(kind, j)) = n]]

\* Mutant: pages are counted from nought.
PageOfNought(list, p) ==
  SubSeq(list, p * BatchSize + 1, Min({(p + 1) * BatchSize, Len(list)}))

PageOf(list, p) ==
  SubSeq(list, (p - 1) * BatchSize + 1, Min({p * BatchSize, Len(list)}))

RowOf(o) == [id |-> o, found |-> o \in there, studio |-> studio[o],
             organized |-> organized[o]]

Query ==
  /\ pc = "query" /\ kinds # <<>>
  /\ ids' = PageOf(InQuery(Head(kinds)), page)
  /\ pc' = "resolve"
  /\ UNCHANGED <<input, kinds, page, batch, todo, cache, found, cancelled,
                 visited>>

\* FindMany: the job fails when a scene or an image is no longer there; in
\* the galleries' place there is nil.
Resolve ==
  /\ pc = "resolve"
  /\ IF \/ Head(kinds) = Galleries
        \/ \A i \in DOMAIN ids : ids[i] \in there
     THEN /\ batch' = [i \in DOMAIN ids |-> RowOf(ids[i])]
          /\ pc' = "each"
     ELSE /\ pc' = "done"
          /\ UNCHANGED batch
  /\ UNCHANGED <<input, kinds, page, ids, todo, cache, found, cancelled,
                 visited>>

\* Mutant: the page stays where it is.
NextPageSame ==
  /\ pc = "each" /\ batch = <<>> /\ kinds # <<>>
  /\ IF Len(ids) = BatchSize
     THEN /\ pc' = "query"
          /\ UNCHANGED <<kinds, page>>
     ELSE /\ kinds' = Tail(kinds) /\ page' = 1
          /\ pc' = IF kinds' = <<>> THEN "done" ELSE "query"
  /\ UNCHANGED <<input, ids, batch, todo, cache, found, cancelled, visited>>

\* A page that is full may have another after it.
NextPage ==
  /\ pc = "each" /\ batch = <<>> /\ kinds # <<>>
  /\ IF Len(ids) = BatchSize
     THEN /\ page' = page + 1 /\ pc' = "query"
          /\ UNCHANGED kinds
     ELSE /\ kinds' = Tail(kinds) /\ page' = 1
          /\ pc' = IF kinds' = <<>> THEN "done" ELSE "query"
  /\ UNCHANGED <<input, ids, batch, todo, cache, found, cancelled, visited>>

CancelJob ==
  /\ pc \notin Ended
  /\ pc' = "done" /\ cancelled' = TRUE
  /\ UNCHANGED <<input, kinds, page, ids, batch, todo, cache, found, visited>>

JobInit ==
  /\ input \in Inputs
  /\ pc = "query" /\ page = 1 /\ ids = <<>> /\ batch = <<>>
  /\ kinds = CASE input.kind = "files" -> <<Scenes, Images, Galleries>>
               [] input.kind = "identify" -> <<Scenes>>
               [] OTHER -> <<>>
  /\ todo = input.ids
  /\ cache = [k \in {"performers", "studios", "tags"} |-> None]
  /\ found = None /\ cancelled = FALSE /\ visited = {}
=============================================================================
