------------------------------ MODULE Catalog ------------------------------
(***************************************************************************)
(* The tables of the library and the statements by which repositories      *)
(* change them (pkg/sqlite/repository.go), with the constraints that the   *)
(* database puts on them (pkg/database/migrations).  A transaction is the  *)
(* sequence of its statements; if one of them fails, so does the whole.    *)
(*                                                                         *)
(* Rows are as in Filters.  The checksum of a performer, studio or movie   *)
(* is that of its name, and the name stands for both.  A table without a   *)
(* unique index may hold a row several times: the first is as it is        *)
(* written, each further one has its number in a column "copy" of its own. *)
(***************************************************************************)
EXTENDS ObjectFilters

CONSTANT Failed   \* the outcome of a transaction that is rolled back

----------------------------------------------------------------------------
(* The schema. *)

Reference(table, column, to, onDelete) ==
  [table |-> table, column |-> column, to |-> to, onDelete |-> onDelete]

References ==
  {Reference(table, "studio_id", "studios", "SET NULL") :
     table \in {"scenes", "images", "galleries", "movies"}}
  \cup {Reference("studios", "parent_id", "studios", "SET NULL")}
  \cup {Reference(r[1], r[2], r[3], "NO ACTION") : r \in
     {<<"performers_scenes", "scene_id", "scenes">>,
      <<"performers_scenes", "performer_id", "performers">>,
      <<"scenes_tags", "tag_id", "tags">>,
      <<"scene_markers", "scene_id", "scenes">>,
      <<"scene_markers", "primary_tag_id", "tags">>,
      <<"scene_markers_tags", "tag_id", "tags">>}}
  \cup {Reference(r[1], r[2], r[3], "CASCADE") : r \in
     {<<"scenes_tags", "scene_id", "scenes">>, <<"scenes_cover", "scene_id", "scenes">>,
      <<"scene_stash_ids", "scene_id", "scenes">>,
      <<"scenes_galleries", "scene_id", "scenes">>,
      <<"scenes_galleries", "gallery_id", "galleries">>,
      <<"movies_scenes", "scene_id", "scenes">>, <<"movies_scenes", "movie_id", "movies">>,
      <<"scene_markers_tags", "scene_marker_id", "scene_markers">>,
      <<"images_tags", "image_id", "images">>, <<"images_tags", "tag_id", "tags">>,
      <<"performers_images", "image_id", "images">>,
      <<"performers_images", "performer_id", "performers">>,
      <<"galleries_images", "image_id", "images">>,
      <<"galleries_images", "gallery_id", "galleries">>,
      <<"galleries_tags", "gallery_id", "galleries">>, <<"galleries_tags", "tag_id", "tags">>,
      <<"performers_galleries", "gallery_id", "galleries">>,
      <<"performers_galleries", "performer_id", "performers">>,
      <<"performers_tags", "performer_id", "performers">>,
      <<"performers_tags", "tag_id", "tags">>,
      <<"performers_image", "performer_id", "performers">>,
      <<"performer_stash_ids", "performer_id", "performers">>,
      <<"studios_image", "studio_id", "studios">>,
      <<"studio_aliases", "studio_id", "studios">>,
      <<"studio_stash_ids", "studio_id", "studios">>,
      <<"movies_images", "movie_id", "movies">>,
      <<"tags_image", "tag_id", "tags">>, <<"tag_aliases", "tag_id", "tags">>,
      <<"tags_relations", "parent_id", "tags">>, <<"tags_relations", "child_id", "tags">>}}

UniqueKeys ==
  {<<"performers", {"name"}>>, <<"studios", {"name"}>>, <<"movies", {"name"}>>,
   <<"galleries", {"checksum"}>>, <<"saved_filters", {"mode", "name"}>>,
   <<"tag_aliases", {"alias"}>>, <<"studio_aliases", {"alias"}>>,
   <<"tags_relations", {"parent_id", "child_id"}>>}

\* What a deletion cascades to is referenced by nothing, so that one step is enough.
ASSUME CascadesEnd ==
  \A r \in References : r.onDelete = "CASCADE" => ~\E s \in References : s.to = r.table

----------------------------------------------------------------------------
(* Statements. *)

Require(holds) == [do |-> "require", holds |-> holds]
Insert(table, row) == [do |-> "insert", table |-> table, row |-> row]
Update(table, id, columns) ==
  [do |-> "update", table |-> table, id |-> id, columns |-> columns]
Rewrite(table, rows) == [do |-> "rewrite", table |-> table, rows |-> rows]
DeleteWhere(table, column, value) ==
  [do |-> "delete", table |-> table, column |-> column, value |-> value]

\* A table without rows need not be in the database.
With(d, table, rows) == (table :> rows) @@ d

Resolved(d, table, row) ==
  \A r \in {x \in References : x.table = table} :
    Column(row, r.column) \in Ids(d, r.to) \cup {Null}

Clashes(d, table, row) ==
  \E key \in {k[2] : k \in {x \in UniqueKeys : x[1] = table}}, other \in Rows(d, table) :
    /\ "id" \in DOMAIN row => other.id # row.id
    /\ \A c \in key : Column(row, c) # Null /\ Column(other, c) = Column(row, c)

\* studios: CHECK (id IS NOT parent_id).
Permitted(d, table, row) ==
  /\ Resolved(d, table, row)
  /\ ~Clashes(d, table, row)
  /\ table = "studios" => Column(row, "parent_id") # row.id

\* A row as it is written, and once more among rows that may hold it.
Bare(row) == [c \in DOMAIN row \ {"copy"} |-> row[c]]
Again(rows, row) ==
  LET copies == Cardinality({r \in rows : Bare(r) = row})
  IN rows \cup {IF copies = 0 THEN row ELSE [copy |-> copies] @@ row}

Inserted(d, s) ==
  IF Permitted(d, s.table, s.row) THEN With(d, s.table, Again(Rows(d, s.table), s.row))
  ELSE Failed

\* Only the columns of a partial object that are not nil are set.
Updated(d, s) ==
  LET row == CHOOSE r \in Rows(d, s.table) : r.id = s.id
      new == s.columns @@ row
  IN IF s.id \notin Ids(d, s.table) THEN Failed
     ELSE IF Permitted(d, s.table, new)
          THEN With(d, s.table, (Rows(d, s.table) \ {row}) \cup {new}) ELSE Failed

Deleted(d, s) ==
  LET going == {r \in Rows(d, s.table) : Column(r, s.column) = s.value}
      ids == {Column(r, "id") : r \in going} \ {Null}
      Refers(ref, r) == Column(r, ref.column) \in ids
      Of(table, action) == {x \in References : x.table = table /\ x.to = s.table
                                               /\ x.onDelete = action}
      Kept(table) ==
        LET rows == Rows(d, table) \ (IF table = s.table THEN going ELSE {})
            rest == {r \in rows : ~\E ref \in Of(table, "CASCADE") : Refers(ref, r)}
        IN {IF \E ref \in Of(table, "SET NULL") : Refers(ref, r)
            THEN [c \in {ref.column : ref \in Of(table, "SET NULL")} |-> Null] @@ r
            ELSE r : r \in rest}
  IN IF \E table \in DOMAIN d : \E ref \in Of(table, "NO ACTION") :
          \E r \in Rows(d, table) : Refers(ref, r)
     THEN Failed
     ELSE IF ids = {} THEN With(d, s.table, Rows(d, s.table) \ going)
          ELSE [table \in DOMAIN d |-> Kept(table)]

Execute(d, s) ==
  CASE s.do = "require" -> IF s.holds THEN d ELSE Failed
    [] s.do = "insert" -> Inserted(d, s)
    [] s.do = "update" -> Updated(d, s)
    [] s.do = "rewrite" -> With(d, s.table, s.rows)
    [] s.do = "delete" -> Deleted(d, s)

ExecuteAll(d, statements) ==
  FoldLeft(LAMBDA e, s : IF e = Failed THEN Failed ELSE Execute(e, s), d, statements)

----------------------------------------------------------------------------
(* What repositories do with them.                                         *)

\* An id is never given again (autoincrement).
NewID(d, table) ==
  1 + Max({0} \cup Ids(d, table)
            \cup {r.seq : r \in {x \in Rows(d, "sqlite_sequence") : x.name = table}})

Create(d, table, columns) ==
  LET id == NewID(d, table)
  IN <<Insert(table, ("id" :> id) @@ columns), DeleteWhere("sqlite_sequence", "name", table),
       Insert("sqlite_sequence", [name |-> table, seq |-> id])>>

DestroyExisting(d, table, id) ==
  <<Require(id \in Ids(d, table)), DeleteWhere(table, "id", id)>>

InsertAll(table, rows) == [i \in DOMAIN rows |-> Insert(table, rows[i])]

\* The rows of an object in another table, all anew.
Replace(table, fk, id, rows) ==
  <<DeleteWhere(table, fk, id)>> \o InsertAll(table, [i \in DOMAIN rows |-> (fk :> id) @@ rows[i]])

\* A row for each id of the list, also for one that is in it twice.
ReplaceIDs(table, fk, id, other, ids) ==
  Replace(table, fk, id, IF ids = Null THEN <<>> ELSE [i \in DOMAIN ids |-> other :> ids[i]])

\* What is done for each id of a list, in its order.
EachID(d, list, Statements(_, _)) ==
  FoldLeft(LAMBDA e, id : IF e = Failed THEN Failed ELSE ExecuteAll(e, Statements(e, id)), d, list)

\* A list, in which an id is as often as there are rows.
LinkedIDs(d, table, fk, id, other) ==
  LET rows == SetToSeq({r \in Rows(d, table) : Column(r, fk) = id})
  IN [i \in DOMAIN rows |-> rows[i][other]]

\* An image is replaced by what is given, unless that is empty; it is taken away when
\* it is given as nothing.
GiveImage(table, fk, id, column, image) ==
  IF image = Null THEN <<>> ELSE Replace(table, fk, id, <<column :> image>>)
SetImage(table, fk, id, column, fields) ==
  CASE column \notin DOMAIN fields -> <<>>
    [] column \in DOMAIN fields /\ fields[column] = Null -> <<DeleteWhere(table, fk, id)>>
    [] OTHER -> GiveImage(table, fk, id, column, fields[column])
=============================================================================
