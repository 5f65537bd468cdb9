------------------------------ MODULE Transfer ------------------------------
(***************************************************************************)
(* What the export and the import tasks share: the rows of the library     *)
(* besides tags, the files that one task writes and the other reads, and   *)
(* the course of a transfer.  The rows that an object is linked with, by   *)
(* its studio_id or through a joined table, are its refs; in files they    *)
(* are names and checksums, which no two rows of a kind share.  A marker   *)
(* is its scene, its second and its primary tag; the other tags of a       *)
(* marker are left out, and so are scraped items, which nothing refers to. *)
(***************************************************************************)
EXTENDS TagImport, SequencesExt

CONSTANTS
  Scenes, Images, Galleries, Movies, Performers, Studios,
  Seconds,       \* at which there are markers
  Workers,       \* the goroutines of an export
  None,
  Transfers,     \* the transfers there can be
  MaxDeletions   \* bound: rows that users delete during an export

Rows == Scenes \cup Images \cup Galleries \cup Movies \cup Performers \cup Studios
Things == Rows \cup Tags
Refs == Rows \X Things
Marks == Scenes \X Seconds \X Tags

Kinds == {"scenes", "images", "galleries", "movies", "performers", "studios",
          "tags"}
Of(kind) == CASE kind = "scenes" -> Scenes
              [] kind = "images" -> Images
              [] kind = "galleries" -> Galleries
              [] kind = "movies" -> Movies
              [] kind = "performers" -> Performers
              [] kind = "studios" -> Studios
              [] kind = "tags" -> Tags

Libraries == [rows : SUBSET Rows, refs : SUBSET Refs, markers : SUBSET Marks,
              tags : SUBSET Tags, relations : SUBSET (Tags \X Tags)]

\* Foreign keys: what rows, markers and parents refer to is there.
KeysHold(L) ==
  /\ \A e \in L.refs : e[1] \in L.rows /\ e[2] \in L.rows \cup L.tags
  /\ \A m \in L.markers : m[1] \in L.rows /\ m[3] \in L.tags
  /\ L.relations \subseteq L.tags \X L.tags

ASSUME TransferAssumption ==
  /\ None \notin Things /\ MaxDeletions \in Nat
  /\ IsFiniteSet(Tags) /\ IsFiniteSet(Workers)
  /\ \A k, l \in Kinds : k # l => Of(k) \cap Of(l) = {}
  /\ \A x \in Transfers :
       /\ x.library \in Libraries      \* what is exported
       /\ x.exports \in BOOLEAN        \* or the files are made by hand
       /\ x.exports => KeysHold(x.library)
       /\ x.full \in BOOLEAN           \* the task of the settings page
       /\ x.all \subseteq Kinds        \* or whole kinds and
       /\ x.asked \subseteq Things     \* some rows
       /\ x.dependencies \in BOOLEAN   \* with what they refer to
       /\ x.workers \subseteq Workers
       /\ x.editing \in BOOLEAN        \* users delete rows meanwhile
       /\ x.target \in Libraries       \* what is imported into
       /\ KeysHold(x.target)
       /\ x.plan \in Plans             \* files of tags, and the choices

VARIABLES
  transfer,      \* the transfer, the same throughout
  stage,         \* "export", "tags", "rest", "over" or "down"
  rows, refs, markers,
  files,         \* what the mappings list, and what the files hold
  turn,          \* position in ExportOrder or RestOrder
  queue,         \* what is left of the kind whose turn it is
  asked,         \* t.scenes.IDs and its siblings, by kind
  worker,        \* where each goroutine of the export is
  waiting,       \* pendingParent of ImportStudios
  second,        \* ImportStudios has come to the leftover studios
  deletions      \* by users during the export

db == <<rows, refs, markers>>
exportVars == <<asked, worker, deletions>>
restVars == <<waiting, second>>
transferVars == <<transfer, stage, db, files, turn, queue, exportVars, restVars>>
allVars == <<vars, transferVars>>

RefsIn(R, o) == {e[2] : e \in {x \in R : x[1] = o}}

NoFiles == [listed |-> {}, saved |-> {}, refs |-> {}, markers |-> {}]
FilesOf(library) ==
  [listed |-> library.rows, saved |-> library.rows, refs |-> library.refs,
   markers |-> library.markers]

\* The studio as the row read before has it, what was found since, what is
\* still to be appended to the lists, and the list being appended to.
Idle == [row |-> None, studio |-> {}, seen |-> {}, marks |-> {},
         appends |-> <<>>, loaded |-> None, resolved |-> FALSE]

TransferInit ==
  /\ ImportInit
  /\ transfer \in Transfers /\ plan = transfer.plan
  /\ LET source == IF transfer.exports THEN transfer.library ELSE transfer.target
     IN /\ tags = source.tags /\ relations = source.relations
        /\ rows = source.rows /\ refs = source.refs /\ markers = source.markers
  /\ stage = IF transfer.exports THEN "export" ELSE "tags"
  /\ files = IF transfer.exports THEN NoFiles ELSE FilesOf(transfer.library)
  /\ turn = 0 /\ queue = {}
  /\ asked = [k \in Kinds |-> transfer.asked \cap Of(k)]
  /\ worker = [w \in Workers |-> Idle]
  /\ waiting = [s \in Studios |-> {}] /\ second = FALSE
  /\ deletions = 0
=============================================================================
