----------------------------- MODULE ImportTask -----------------------------
(***************************************************************************)
(* The import task (internal/manager/task_import.go): the tags first, as   *)
(* TagImport has it, then the other kinds one after the other.  Each file  *)
(* is imported by performImport (manager/import.go) in a transaction of    *)
(* its own, a scene together with its markers, a studio together with      *)
(* those that waited for it; an error rolls it back and is logged.         *)
(***************************************************************************)
EXTENDS ExportTask

\* Mutant: movies before their studios.
RestOrderSwapped == <<"performers", "movies", "studios", "galleries", "scenes",
                      "images">>

RestOrder == <<"performers", "studios", "movies", "galleries", "scenes",
               "images">>

\* The tables as a transaction finds and leaves them.
Tables == [rows |-> rows, refs |-> refs, markers |-> markers, tags |-> tags]
Commit(d) ==
  /\ rows' = d.rows /\ refs' = d.refs /\ markers' = d.markers /\ tags' = d.tags
RolledBack == UNCHANGED <<db, tags>>

-----------------------------------------------------------------------------
(* The importers: what they look up in PreImport and put into a column of  *)
(* the row, and what into joined tables in PostImport.                     *)

SceneImporter == [column |-> {"studios"},
                  joined |-> {"galleries", "performers", "movies", "tags"}]
ImageImporter == [column |-> {"studios"},
                  joined |-> {"galleries", "performers", "tags"}]
GalleryImporter == [column |-> {"studios"}, joined |-> {"performers", "tags"}]
MovieImporter == [column |-> {"studios"}, joined |-> {}]
PerformerImporter == [column |-> {}, joined |-> {"tags"}]
StudioImporter == [column |-> {"studios"}, joined |-> {}]

Importer(o) == CASE o \in Scenes -> SceneImporter
                 [] o \in Images -> ImageImporter
                 [] o \in Galleries -> GalleryImporter
                 [] o \in Movies -> MovieImporter
                 [] o \in Performers -> PerformerImporter
                 [] o \in Studios -> StudioImporter

InColumn(o) == UNION {Of(k) : k \in Importer(o).column}
LookedUp(o) == InColumn(o) \cup UNION {Of(k) : k \in Importer(o).joined}

FileRefs(o) == RefsIn(files.refs, o) \cap LookedUp(o)
Lacking(d, o) == FileRefs(o) \ (d.rows \cup d.tags)

-----------------------------------------------------------------------------
(* performImport *)

\* The importer of performers is not told what the user chose.
Behaviour(o) == IF o \in Performers THEN "IGNORE" ELSE plan.missing

\* PreImport: all that it creates, galleries excepted, which are not.
PreImported(d, o, behaviour) ==
  LET made == IF behaviour = "CREATE" THEN Lacking(d, o) \ Galleries ELSE {}
  IN [d EXCEPT !.rows = @ \cup (made \ Tags), !.tags = @ \cup (made \cap Tags)]

\* Update replaces the row, studio_id included; PostImport replaces the links
\* of those kinds of which any were found.
Stored(d, o) ==
  LET found == FileRefs(o) \cap (d.rows \cup d.tags)
      replaced == InColumn(o)
        \cup UNION {Of(k) : k \in {l \in Importer(o).joined : found \cap Of(l) # {}}}
  IN [d EXCEPT !.rows = @ \cup {o},
               !.refs = {e \in @ : e[1] # o \/ e[2] \notin replaced}
                          \cup ({o} \X found)]

\* o's import returns an error.
Rejected(d, o, behaviour) ==
  \/ behaviour = "FAIL" /\ Lacking(d, o) # {}
  \/ plan.duplicate = "FAIL" /\ o \in PreImported(d, o, behaviour).rows

\* The tables after it.
Imported(d, o, behaviour) ==
  LET ready == PreImported(d, o, behaviour)
  IN IF o \in ready.rows /\ plan.duplicate = "IGNORE" THEN ready
     ELSE Stored(ready, o)

\* What the tables may be after o's import, {} if it returns an error.
PerformImport(d, o, behaviour) ==
  IF Rejected(d, o, behaviour) THEN {} ELSE {Imported(d, o, behaviour)}

\* Mutant: the id of the existing scene is known too.
SceneIDFound(d, s) == {s}

\* The id of the scene that was just imported.  It is not set when an
\* existing one is skipped, and then the markers refer to no scene.
SceneID(d, s) == IF s \in d.rows /\ plan.duplicate = "IGNORE" THEN {} ELSE {s}

\* The markers of scene s, in d once s is imported, before which they were in
\* before: those at one second are duplicates of each other.  The primary tag
\* cannot be ignored.
ImportMarkers(before, d, s) ==
  LET marks == {m \in files.markers : m[1] = s}
      primaries == {m[3] : m \in marks}
      at == {m[2] : m \in marks}
      chosen == {f \in [at -> primaries] : \A x \in at : <<s, x, f[x]>> \in marks}
      Put(f) == {m \in d.markers : m[1] # s \/ m[2] \notin at}
                  \cup {<<s, x, f[x]>> : x \in at}
  IN IF marks = {} THEN {d}
     ELSE IF plan.missing # "CREATE" /\ ~(primaries \subseteq d.tags) THEN {}
     ELSE IF s \notin SceneID(before, s) THEN {}        \* the foreign key fails
     ELSE IF plan.duplicate = "FAIL" /\ Cardinality(marks) # Cardinality(at) THEN {}
     ELSE {[d EXCEPT !.markers = Put(f), !.tags = @ \cup primaries] : f \in chosen}

-----------------------------------------------------------------------------
(* The loops over the kinds *)

\* A listed file is read; a transaction cannot begin once the job is cancelled.
Readable(o) == o \in files.saved /\ ~cancelled

CommitOneOf(results) ==
  IF results = {} THEN RolledBack ELSE \E d \in results : Commit(d)

KindNow == RestOrder[turn]

ImportOther ==
  /\ stage = "rest" /\ KindNow # "studios"
  /\ \E o \in queue :
       /\ queue' = queue \ {o}
       /\ CommitOneOf(
            IF ~Readable(o) THEN {}
            ELSE LET imported == PerformImport(Tables, o, Behaviour(o))
                 IN IF o \in Scenes
                    THEN UNION {ImportMarkers(Tables, d, o) : d \in imported}
                    ELSE imported)
  /\ UNCHANGED <<relations, importVars, plan, cancelled, edited, transfer, stage,
                 files, turn, exportVars, restVars>>

\* ImportStudio with its children, who do not look for theirs.  Each of them
\* has its parent now and changes its own row only, so their order is left out.
WithChildren(o) ==
  LET own == Imported(Tables, o, "FAIL")
      children == waiting[o]
  IN IF \/ Rejected(Tables, o, "FAIL")
        \/ \E c \in children : Rejected(own, c, plan.missing)
     THEN {}
     ELSE {[own EXCEPT
              !.rows = @ \cup children,
              !.refs = {e \in @ : e[1] \notin children}
                \cup UNION {{e \in Imported(own, c, plan.missing).refs : e[1] = c} :
                              c \in children}]}

\* The first phase: a studio whose parent is missing waits for it.
ImportStudio ==
  /\ stage = "rest" /\ KindNow = "studios" /\ ~second
  /\ \E o \in queue :
       LET results == IF Readable(o) THEN WithChildren(o) ELSE {}
       IN /\ queue' = queue \ {o}
          /\ CommitOneOf(results)
          /\ waiting' =
               IF Readable(o) /\ Lacking(Tables, o) # {}
               THEN [p \in Studios |-> IF p \in FileRefs(o) THEN waiting[p] \cup {o}
                                       ELSE waiting[p]]
               ELSE IF results # {} THEN [waiting EXCEPT ![o] = {}]
               ELSE waiting
  /\ UNCHANGED <<relations, importVars, plan, cancelled, edited, transfer, stage,
                 files, turn, exportVars, second>>

\* The leftover studios, by the parents they wait for, in any order.
NextWaiting ==
  /\ stage = "rest" /\ KindNow = "studios" /\ queue = {}
  /\ \E p \in Studios :
       /\ waiting[p] # {}
       /\ queue' = waiting[p] /\ waiting' = [waiting EXCEPT ![p] = {}]
  /\ second' = TRUE
  /\ UNCHANGED <<vars, transfer, stage, db, files, turn, exportVars>>

ImportWaiting ==
  /\ stage = "rest" /\ KindNow = "studios" /\ second
  /\ \E o \in queue :
       /\ queue' = queue \ {o}
       /\ CommitOneOf(IF Readable(o) THEN PerformImport(Tables, o, plan.missing)
                      ELSE {})
  /\ UNCHANGED <<relations, importVars, plan, cancelled, edited, transfer, stage,
                 files, turn, exportVars, restVars>>

NothingWaits == \A p \in Studios : waiting[p] = {}

NextLoop ==
  /\ stage = "rest" /\ queue = {} /\ NothingWaits /\ turn < Len(RestOrder)
  /\ turn' = turn + 1
  /\ queue' = files.listed \cap Of(RestOrder[turn + 1])
  /\ UNCHANGED <<vars, transfer, stage, db, files, exportVars, restVars>>

TaskEnds ==
  /\ stage = "rest" /\ queue = {} /\ NothingWaits /\ turn = Len(RestOrder)
  /\ stage' = "over"
  /\ UNCHANGED <<vars, transfer, db, files, turn, queue, exportVars, restVars>>

-----------------------------------------------------------------------------
(* The import of tags *)

\* The full import has emptied the database before.
ImportTagsStep(step) ==
  /\ stage = "tags" /\ step
  /\ IF phase = "ready" /\ phase' = "first" /\ plan.reset
     THEN rows' = {} /\ refs' = {} /\ markers' = {} ELSE UNCHANGED db
  /\ stage' = IF phase' = "crashed" THEN "down" ELSE stage
  /\ UNCHANGED <<transfer, files, turn, queue, exportVars, restVars>>

TagsAreImported ==
  /\ stage = "tags" /\ phase = "over"
  /\ stage' = "rest" /\ turn' = 1
  /\ queue' = files.listed \cap Of(RestOrder[1])
  /\ UNCHANGED <<vars, transfer, db, files, exportVars, restVars>>

CancelRest ==
  /\ stage = "rest" /\ ~cancelled
  /\ cancelled' = TRUE
  /\ UNCHANGED <<tagVars, importVars, plan, edited, transferVars>>

-----------------------------------------------------------------------------
TransferStep ==
  \/ ExportStep
  \/ ImportTagsStep(ImportStep) \/ TagsAreImported
  \/ ImportOther \/ ImportStudio \/ NextWaiting \/ ImportWaiting
  \/ NextLoop \/ TaskEnds

TransferNext ==
  \/ TransferStep
  \/ ImportTagsStep(CancelImport \/ UserEdits) \/ CancelRest \/ UserDeletes

\* The tasks run; nothing is assumed of the users.
TransferSpec ==
  TransferInit /\ [][TransferNext]_allVars /\ WF_allVars(TransferStep)
-----------------------------------------------------------------------------
\* Chains of four studios, each the parent of the next.
Deep(R) ==
  \E a, b, c, d \in Studios :
    {<<b, a>>, <<c, b>>, <<d, c>>} \subseteq R
TwoAtOneSecond(M) == \E x, y \in M : x # y /\ x[1] = y[1] /\ x[2] = y[2]

(***************************************************************************)
(* A full export, imported in full, brings everything back: the order of   *)
(* the kinds has what is referred to imported before what refers to it,    *)
(* and studios wait for their parents.  It does so for markers at          *)
(* different seconds, since two at the same are duplicates and take their  *)
(* scene with them, and for no more than three generations of studios,     *)
(* since the fourth may be tried before the third (Start, ImportStudios,   *)
(* ExportTask.Start).                                                      *)
(***************************************************************************)
FullTransferRestores ==
  stage = "over" /\ transfer.exports /\ transfer.full /\ plan.reset
    /\ ~cancelled /\ deletions = 0
    /\ ~Deep(transfer.library.refs) /\ ~TwoAtOneSecond(transfer.library.markers)
  => /\ rows = transfer.library.rows /\ refs = transfer.library.refs
     /\ markers = transfer.library.markers /\ tags = transfer.library.tags

(***************************************************************************)
(* What can be restored is: forests of tags, and all of an export.         *)
(***************************************************************************)
TransfersRestore == ForestsAreRestored /\ FullTransferRestores

(***************************************************************************)
(* "Include related objects in export"                                     *)
(* (ui/v2.5/src/locales/en-GB.json:605): what a file refers to has its     *)
(* file too, except for the parents of studios and tags, as long as what   *)
(* is asked for is there, nobody deletes anything, and one goroutine       *)
(* exports; two lose each other's ids.                                     *)
(***************************************************************************)
RelatedAreExported ==
  stage = "tags" /\ transfer.exports /\ transfer.dependencies
    /\ Cardinality(transfer.workers) = 1 /\ deletions = 0
    /\ transfer.asked \subseteq transfer.library.rows \cup transfer.library.tags
  => /\ \A e \in files.refs : e[1] \in Studios \/ e[2] \in files.saved
     /\ \A m \in files.markers : m[3] \in files.saved

(***************************************************************************)
(* Unless existing objects are to be overwritten, an import changes none:  *)
(* not as something another file lacks, not as a studio that waited, nor   *)
(* by the markers of a scene that is skipped (performImport, ImportScenes).*)
(***************************************************************************)
ImportsOnlyAdd ==
  [][stage = "rest" /\ plan.duplicate # "OVERWRITE"
     => /\ rows \subseteq rows'
        /\ \A o \in rows : /\ RefsIn(refs', o) = RefsIn(refs, o)
                           /\ MarksOf(o)' = MarksOf(o)]_allVars

(***************************************************************************)
(* A transfer comes to an end, or takes the server down: every listed file *)
(* is tried, no goroutine is left, and no studio or tag waits for ever, or *)
(* nests without end, if parents are listed in the order of the files, as  *)
(* an export lists them.                                                   *)
(***************************************************************************)
TransferEnds == <>(stage \in {"over", "down"}) \/ ~InFileOrder
=============================================================================
