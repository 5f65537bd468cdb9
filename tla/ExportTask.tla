----------------------------- MODULE ExportTask -----------------------------
(***************************************************************************)
(* The export task (internal/manager/task_export.go): kind by kind, the    *)
(* rows are read and fed to goroutines, each of which reads what its row   *)
(* is linked with, appends that to the lists of ids if dependencies are    *)
(* asked for, and writes a file.  WithReadTxn is no transaction of the     *)
(* database, so every read sees what users have committed by then; nor do  *)
(* the goroutines lock the lists they append to.                           *)
(***************************************************************************)
EXTENDS Transfer

\* Mutant: studios before the movies that may refer to them.
ExportOrderSwapped == <<"scenes", "images", "galleries", "studios", "movies",
                        "performers", "tags">>

ExportOrder == <<"scenes", "images", "galleries", "movies", "performers",
                 "studios", "tags">>

All(kind) == transfer.full \/ kind \in transfer.all
Present == rows \cup tags
AllIdle == \A w \in Workers : worker[w] = Idle

\* FindMany returns nothing if one of the ids is gone; or All.
FoundOf(kind, ids) ==
  IF All(kind) THEN Present \cap Of(kind)
  ELSE IF ids[kind] \subseteq Present THEN ids[kind] ELSE {}
Fetched(kind) == FoundOf(kind, asked)

-----------------------------------------------------------------------------
(* What a file names: rows by studio_id, or parent_id, and through the     *)
(* joined tables, in the order in which dependencies are appended.         *)

SceneJSON == <<"studios", "galleries", "tags", "movies", "performers">>
ImageJSON == <<"studios", "galleries", "tags", "performers">>
GalleryJSON == <<"studios", "tags", "performers">>
MovieJSON == <<"studios">>
PerformerJSON == <<"tags">>
StudioJSON == <<"studios">>
TagJSON == <<>>        \* tags name their parents, which TagImport has

NamedBy(o) == CASE o \in Scenes -> SceneJSON
                [] o \in Images -> ImageJSON
                [] o \in Galleries -> GalleryJSON
                [] o \in Movies -> MovieJSON
                [] o \in Performers -> PerformerJSON
                [] o \in Studios -> StudioJSON
                [] o \in Tags -> TagJSON

Named(o) == RefsIn(refs, o) \cap UNION {Of(k) : k \in Range(NamedBy(o))}

\* Rows come with their studio_id or parent_id.
WithStudio(o) == [row |-> o, studio |-> Named(o) \cap Studios]

-----------------------------------------------------------------------------
(* Start, and the loops that feed the goroutines *)

\* The scenes of movies, and the images of galleries, that are exported.
Populate ==
  /\ stage = "export" /\ turn = 0
  /\ LET Members(group, kind) ==
           {o \in rows \cap Of(kind) : RefsIn(refs, o) \cap Fetched(group) # {}}
         movieScenes ==
           IF transfer.dependencies /\ ~All("scenes")
           THEN Members("movies", "scenes") ELSE {}
         galleryImages ==
           IF ~All("images") THEN Members("galleries", "images") ELSE {}
     IN asked' = [asked EXCEPT !["scenes"] = @ \cup movieScenes,
                               !["images"] = @ \cup galleryImages]
  /\ turn' = 1
  /\ LET found == FoundOf(ExportOrder[1], asked')
     IN /\ queue' = {WithStudio(o) : o \in found}
        /\ files' = [files EXCEPT !.listed = found]
  /\ UNCHANGED <<vars, transfer, stage, db, worker, deletions, restVars>>

\* All goroutines are done with a kind; the rows of the next are read, and
\* listed in the mappings.
NextKind ==
  /\ stage = "export" /\ turn \in 1..6 /\ queue = {} /\ AllIdle
  /\ turn' = turn + 1
  /\ LET found == Fetched(ExportOrder[turn + 1])
     IN /\ queue' = {WithStudio(o) : o \in found}
        /\ files' = [files EXCEPT !.listed = @ \cup found]
  /\ UNCHANGED <<vars, transfer, stage, db, exportVars, restVars>>

ByName(S) == {s \in [1..Cardinality(S) -> S] :
                \A i, j \in DOMAIN s : i < j => s[i] < s[j]}

\* The zip, or the metadata directory, is taken to where it is imported.
ExportEnds ==
  /\ stage = "export" /\ turn = 7 /\ queue = {} /\ AllIdle
  /\ stage' = "tags" /\ turn' = 0
  /\ \E order \in ByName(files.listed \cap Tags),
        parents \in [Tags -> UNION {ByName(ParentsIn(relations, t)) : t \in Tags}] :
       /\ \A t \in Tags : parents[t] \in ByName(ParentsIn(relations, t))
       /\ plan' = [plan EXCEPT !.order = order, !.parents = parents]
  /\ rows' = transfer.target.rows /\ refs' = transfer.target.refs
  /\ markers' = transfer.target.markers
  /\ tags' = transfer.target.tags /\ relations' = transfer.target.relations
  /\ UNCHANGED <<importVars, cancelled, edited, transfer, files, queue,
                 exportVars, restVars>>

-----------------------------------------------------------------------------
(* A goroutine: exportScene and its siblings *)

Joined(o) == Named(o) \ Studios
MarksOf(o) == {m \in markers : m[1] = o}

\* It takes a row and reads what it is linked with, movies by id only.
Look(w) ==
  /\ stage = "export" /\ worker[w] = Idle /\ w \in transfer.workers
  /\ \E x \in queue :
       /\ queue' = queue \ {x}
       /\ worker' = [worker EXCEPT ![w] =
            [Idle EXCEPT !.row = x.row, !.studio = x.studio,
               !.seen = (x.studio \cap rows) \cup Joined(x.row),
               !.marks = MarksOf(x.row)]]
  /\ UNCHANGED <<vars, transfer, stage, db, files, turn, asked, deletions,
                 restVars>>

Unresolved(w) == worker[w].row # None /\ ~worker[w].resolved

\* A movie that is gone by now is nil when its name is asked for: the
\* goroutine panics, and the server ends.
ResolvePanics(w) ==
  /\ stage = "export" /\ Unresolved(w)
  /\ ~(worker[w].seen \cap Movies \subseteq rows)
  /\ stage' = "down"
  /\ UNCHANGED <<vars, transfer, db, files, turn, queue, exportVars, restVars>>

\* What the row depends on, kind by kind, the studio if there is one: the
\* parents of studios and tags are not asked for.
DependentsOf(w) ==
  LET o == worker[w].row
      all == worker[w].studio \cup (worker[w].seen \cap (Galleries \cup Performers))
               \cup (Joined(o) \cap (Tags \cup Movies)) \cup {m[3] : m \in MarksOf(o)}
      kinds == IF NamedBy(o)[1] = "studios" /\ worker[w].studio = {}
               THEN Tail(NamedBy(o)) ELSE NamedBy(o)
  IN IF ~transfer.dependencies \/ o \in Studios \cup Tags THEN <<>>
     ELSE [i \in DOMAIN kinds |-> [kind |-> kinds[i], ids |-> all \cap Of(kinds[i])]]

\* The movies have their names, and the dependencies are read once more.
Resolve(w) ==
  /\ stage = "export" /\ Unresolved(w)
  /\ worker[w].seen \cap Movies \subseteq rows
  /\ worker' = [worker EXCEPT ![w].resolved = TRUE, ![w].appends = DependentsOf(w)]
  /\ UNCHANGED <<vars, transfer, stage, db, files, turn, queue, asked, deletions,
                 restVars>>

Appends(w, kind) == worker[w].appends # <<>> /\ worker[w].appends[1].kind = kind

\* IntAppendUniques is given the list as it is now
Load(w) ==
  /\ stage = "export" /\ worker[w].appends # <<>> /\ worker[w].loaded = None
  /\ worker' = [worker EXCEPT ![w].loaded = <<asked[worker[w].appends[1].kind]>>]
  /\ UNCHANGED <<vars, transfer, stage, db, files, turn, queue, asked, deletions,
                 restVars>>

\* and its result replaces what the list is then.  When two goroutines write
\* one list, its pointer may be of one and its length of the other: there may
\* be an id in it that no row has.
StoreList(w) ==
  /\ stage = "export" /\ worker[w].loaded # None
  /\ LET step == worker[w].appends[1]
         others == {v \in Workers \ {w} :
                      Appends(v, step.kind) /\ worker[v].loaded # None}
     IN \E torn \in SUBSET (IF others = {} THEN {} ELSE {None}) :
          asked' = [asked EXCEPT ![step.kind] =
                      worker[w].loaded[1] \cup step.ids \cup torn]
  /\ worker' = [worker EXCEPT ![w].loaded = None, ![w].appends = Tail(@)]
  /\ UNCHANGED <<vars, transfer, stage, db, files, turn, queue, deletions,
                 restVars>>

\* The file is written.
SaveFile(w) ==
  /\ stage = "export" /\ worker[w].resolved /\ worker[w].appends = <<>>
  /\ files' = [files EXCEPT
       !.saved = @ \cup {worker[w].row},
       !.refs = @ \cup ({worker[w].row} \X worker[w].seen),
       !.markers = @ \cup worker[w].marks]
  /\ worker' = [worker EXCEPT ![w] = Idle]
  /\ UNCHANGED <<vars, transfer, stage, db, turn, queue, asked, deletions,
                 restVars>>

ExportStep ==
  \/ Populate \/ NextKind \/ ExportEnds
  \/ \E w \in Workers : Look(w) \/ ResolvePanics(w) \/ Resolve(w) \/ Load(w)
                          \/ StoreList(w) \/ SaveFile(w)

-----------------------------------------------------------------------------
\* A user deletes a row; what refers to it loses the reference.
UserDeletes ==
  /\ stage = "export" /\ transfer.editing /\ deletions < MaxDeletions
  /\ \E o \in rows :
       /\ rows' = rows \ {o}
       /\ refs' = {e \in refs : o \notin {e[1], e[2]}}
       /\ markers' = {m \in markers : m[1] # o}
  /\ deletions' = deletions + 1
  /\ UNCHANGED <<vars, transfer, stage, files, turn, queue, asked, worker,
                 restVars>>
=============================================================================
