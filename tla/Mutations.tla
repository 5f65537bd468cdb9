----------------------------- MODULE Mutations -----------------------------
(***************************************************************************)
(* The GraphQL mutations that change the library, one action for each      *)
(* (internal/api/resolver_mutation_*.go).  A mutation is a transaction,    *)
(* whose statements it computes from the input and the database; it holds  *)
(* the database's write lock, so a mutation is one step.  One that fails   *)
(* or panics is rolled back and changes nothing.  Afterwards plugins are   *)
(* told by hooks.                                                          *)
(*                                                                         *)
(* A request names ids, and has fields, a function: a field that it does   *)
(* not name is not in the domain, one that it names without a value is     *)
(* Null.  Lists are sequences: nothing keeps a client from naming an id    *)
(* twice.  Deletion of files is in FileDeletion.                           *)
(***************************************************************************)
EXTENDS Catalog

CONSTANTS
  Sessions,       \* bound: a client's library and what it may ask, [library, requests]
  MaxMutations,   \* bound: mutations one after the other
  MaxTag          \* bound: the largest id of a tag

ASSUME MutationsAssumption == MaxMutations \in Nat /\ MaxTag \in Nat

VARIABLES
  library,   \* what the database holds
  requests,  \* what the client may ask
  input,     \* history: the last mutation
  hooks,     \* the hooks that it executed, <<kind, what, id>>, one after the other
  made       \* mutations so far

mutationVars == <<library, requests, input, hooks, made>>

NoInput == [op |-> "none"]

Tagged == INSTANCE TagHierarchy WITH
  Tags <- 1..MaxTag, tags <- Ids(library, "tags"), relations <- TagLinks(library)

----------------------------------------------------------------------------
(* The changeset translator: which columns an input sets.  A null is       *)
(* written to a nullable column, and ignored for others.                   *)

\* Mutant: what is given as null is as good as not given.
ColumnsWithValue(fields, nullable, others) ==
  [c \in {x \in (nullable \cup others) \cap DOMAIN fields : fields[x] # Null} |-> fields[c]]

Columns(fields, nullable, others) ==
  [c \in (nullable \cap DOMAIN fields) \cup {x \in others \cap DOMAIN fields : fields[x] # Null}
     |-> fields[c]]

\* The columns of a new row: what is not given is null.
NewColumns(fields, names) ==
  [c \in names |-> IF c \in DOMAIN fields THEN fields[c] ELSE Null]

\* The lists of an object: <<table, its column for the object, the other column>>.
Lists ==
  [scenes |-> [performer_ids |-> <<"performers_scenes", "scene_id", "performer_id">>,
               tag_ids |-> <<"scenes_tags", "scene_id", "tag_id">>,
               gallery_ids |-> <<"scenes_galleries", "scene_id", "gallery_id">>,
               stash_ids |-> <<"scene_stash_ids", "scene_id", "stash_id">>,
               movie_ids |-> <<"movies_scenes", "scene_id", "movie_id">>],
   images |-> [gallery_ids |-> <<"galleries_images", "image_id", "gallery_id">>,
               performer_ids |-> <<"performers_images", "image_id", "performer_id">>,
               tag_ids |-> <<"images_tags", "image_id", "tag_id">>],
   galleries |-> [performer_ids |-> <<"performers_galleries", "gallery_id", "performer_id">>,
                  tag_ids |-> <<"galleries_tags", "gallery_id", "tag_id">>,
                  scene_ids |-> <<"scenes_galleries", "gallery_id", "scene_id">>,
                  image_ids |-> <<"galleries_images", "gallery_id", "image_id">>],
   performers |-> [tag_ids |-> <<"performers_tags", "performer_id", "tag_id">>,
                   stash_ids |-> <<"performer_stash_ids", "performer_id", "stash_id">>],
   studios |-> [stash_ids |-> <<"studio_stash_ids", "studio_id", "stash_id">>,
                aliases |-> <<"studio_aliases", "studio_id", "alias">>],
   tags |-> [aliases |-> <<"tag_aliases", "tag_id", "alias">>,
             parent_ids |-> <<"tags_relations", "child_id", "parent_id">>,
             child_ids |-> <<"tags_relations", "parent_id", "child_id">>],
   movies |-> <<>>,
   scene_markers |-> [tag_ids |-> <<"scene_markers_tags", "scene_marker_id", "tag_id">>]]

ListOf(d, kind, name, id) ==
  LET list == Lists[kind][name] IN LinkedIDs(d, list[1], list[2], id, list[3])
IDsOf(d, kind, name, id) == ToSet(ListOf(d, kind, name, id))

SetList(kind, id, name, ids) ==
  LET list == Lists[kind][name] IN ReplaceIDs(list[1], list[2], id, list[3], ids)

\* The lists that the input names, in the order of the code.
SetLists(kind, id, fields, names) ==
  LET given == SelectSeq(names, LAMBDA name : name \in DOMAIN fields)
  IN FlattenSeq([i \in DOMAIN given |-> SetList(kind, id, given[i], fields[given[i]])])

\* Only if it is not there yet (IntAppendUnique).
AppendUnique(list, id) == IF Contains(list, id) THEN list ELSE Append(list, id)

\* Of a bulk update's list: a mode and ids.  An id that is named is removed where it is
\* first found, and nowhere else.
AdjustIDs(old, change) ==
  CASE change.mode = "SET" -> change.ids
    [] change.mode = "ADD" -> FoldLeft(AppendUnique, old, change.ids)
    [] change.mode = "REMOVE" -> FoldLeft(RemoveFirst, old, change.ids)

\* A list of a bulk update that is named without a value is a nil that is dereferenced.
AdjustLists(d, kind, id, fields, names) ==
  LET given == SelectSeq(names, LAMBDA name : name \in DOMAIN fields)
      Adjusted(name) == SetList(kind, id, name, AdjustIDs(ListOf(d, kind, name, id), fields[name]))
  IN FlattenSeq([i \in DOMAIN given |->
       IF fields[given[i]] = Null THEN <<Require(FALSE)>> ELSE Adjusted(given[i])])

----------------------------------------------------------------------------
(* A mutation that succeeds: its transaction ends with "after". *)

Mutate(request, after, executed) ==
  /\ made < MaxMutations
  /\ after # Failed
  /\ library' = after
  /\ input' = request
  /\ hooks' = executed
  /\ made' = made + 1
  /\ UNCHANGED requests

Asked(op) == {r \in requests : r.op = op}
After(statements) == ExecuteAll(library, statements)
Hooks(kind, what, ids) == [i \in DOMAIN ids |-> <<kind, what, ids[i]>>]

----------------------------------------------------------------------------
(* Scenes. *)

SceneColumns(fields) ==
  Columns(fields, {"title", "details", "url", "date", "rating", "studio_id"}, {"organized"})

MovieRows(movies) == IF movies = Null THEN <<>> ELSE movies

SceneStatements(id, fields) ==
  <<Update("scenes", id, SceneColumns(fields))>>
  \o (IF "cover_image" \in DOMAIN fields
      THEN GiveImage("scenes_cover", "scene_id", id, "cover", fields.cover_image) ELSE <<>>)
  \o SetLists("scenes", id, fields, <<"performer_ids">>)
  \o (IF "movies" \in DOMAIN fields
      THEN Replace("movies_scenes", "scene_id", id, MovieRows(fields.movies)) ELSE <<>>)
  \o SetLists("scenes", id, fields, <<"tag_ids", "gallery_ids", "stash_ids">>)

SceneUpdate ==
  \E r \in Asked("SceneUpdate") :
    Mutate(r, After(SceneStatements(r.ids[1], r.fields)), Hooks("scenes", "Update", <<r.ids[1]>>))

\* Each scene with the fields that are named for it.
ScenesUpdate ==
  \E r \in Asked("ScenesUpdate") :
    Mutate(r, After(FlattenSeq([i \in DOMAIN r.ids |-> SceneStatements(r.ids[i], r.each[i])])),
           Hooks("scenes", "Update", r.ids))

\* Movies keep the index they have; those that are set get none.
AdjustMovies(d, id, change) ==
  LET rows == SetToSeq({r \in Rows(d, "movies_scenes") : r.scene_id = id})
      old == [i \in DOMAIN rows |-> [movie_id |-> rows[i].movie_id, scene_index |-> rows[i].scene_index]]
      New(x) == [movie_id |-> x, scene_index |-> Null]
      Has(list, x) == \E i \in DOMAIN list : list[i].movie_id = x
      Add(list, x) == IF Has(list, x) THEN list ELSE Append(list, New(x))
      Without(list, x) == RemoveFirstMatch(list, LAMBDA movie : movie.movie_id = x)
  IN CASE change.mode = "SET" -> [i \in DOMAIN change.ids |-> New(change.ids[i])]
       [] change.mode = "ADD" -> FoldLeft(Add, old, change.ids)
       [] change.mode = "REMOVE" -> FoldLeft(Without, old, change.ids)

BulkSceneUpdate ==
  \E r \in Asked("BulkSceneUpdate") :
    LET Statements(d, id) ==
          <<Update("scenes", id, SceneColumns(r.fields))>>
          \o AdjustLists(d, "scenes", id, r.fields, <<"performer_ids", "tag_ids", "gallery_ids">>)
          \o (IF "movie_ids" \notin DOMAIN r.fields THEN <<>>
              ELSE IF r.fields.movie_ids = Null THEN <<Require(FALSE)>>
              ELSE Replace("movies_scenes", "scene_id", id, AdjustMovies(d, id, r.fields.movie_ids)))
    IN Mutate(r, EachID(library, r.ids, Statements), Hooks("scenes", "Update", r.ids))

MarkersOf(d, id) == {m.id : m \in {x \in Rows(d, "scene_markers") : Column(x, "scene_id") = id}}

DestroyScene(d, id) ==
  LET markers == SetToSeq(MarkersOf(d, id))
  IN FlattenSeq([i \in DOMAIN markers |-> DestroyExisting(d, "scene_markers", markers[i])])
     \o <<DeleteWhere("performers_scenes", "scene_id", id)>>
     \o DestroyExisting(d, "scenes", id)

\* One, or several; one that is not there is an error, or a nil that is dereferenced.
ScenesDestroy ==
  \E r \in Asked("ScenesDestroy") :
    Mutate(r, EachID(library, r.ids, DestroyScene), Hooks("scenes", "Destroy", r.ids))

\* The counters of scenes and images; a row that is not there is an error.
Counter(table, id) ==
  LET rows == {r \in Rows(library, table) : r.id = id}
  IN IF rows = {} THEN 0 ELSE (CHOOSE r \in rows : TRUE).o_counter
CountTo(r, table, n) == Mutate(r, After(<<Update(table, r.ids[1], [o_counter |-> n])>>), <<>>)

IncrementO(r, table) == CountTo(r, table, Counter(table, r.ids[1]) + 1)
DecrementO(r, table) == CountTo(r, table, Max({1, Counter(table, r.ids[1])}) - 1)
ResetO(r, table) == CountTo(r, table, 0)

SceneIncrementO == \E r \in Asked("SceneIncrementO") : IncrementO(r, "scenes")
SceneDecrementO == \E r \in Asked("SceneDecrementO") : DecrementO(r, "scenes")
SceneResetO == \E r \in Asked("SceneResetO") : ResetO(r, "scenes")

----------------------------------------------------------------------------
(* Markers.  One belongs to no scene if its scene has the id 0.  Its       *)
(* primary tag is not one of its tags.  Times are 1, the zero time 0.      *)

MarkerColumns(fields, createdAt) ==
  [title |-> fields.title, seconds |-> fields.seconds, primary_tag_id |-> fields.primary_tag_id,
   scene_id |-> IF fields.scene_id = 0 THEN Null ELSE fields.scene_id, created_at |-> createdAt]
MarkerTagList(id, fields) ==
  SetList("scene_markers", id, "tag_ids", SelectSeq(fields.tag_ids, LAMBDA t : t # fields.primary_tag_id))

SceneMarkerCreate ==
  \E r \in Asked("SceneMarkerCreate") :
    LET id == NewID(library, "scene_markers")
    IN Mutate(r, After(Create(library, "scene_markers", MarkerColumns(r.fields, 1))
                         \o MarkerTagList(id, r.fields)),
              Hooks("scene_markers", "Create", <<id>>))

\* All columns are written, also the time of its creation, which the request has not.
SceneMarkerUpdate ==
  \E r \in Asked("SceneMarkerUpdate") :
    Mutate(r, After(<<Update("scene_markers", r.ids[1], MarkerColumns(r.fields, 0))>>
                      \o MarkerTagList(r.ids[1], r.fields)),
           Hooks("scene_markers", "Update", <<r.ids[1]>>))

\* The files of a marker are named by its scene: without that it is not deleted.
SceneMarkerDestroy ==
  \E r \in Asked("SceneMarkerDestroy") :
    LET id == r.ids[1]
        HasScene == \E m \in Rows(library, "scene_markers") : m.id = id /\ m.scene_id # Null
    IN Mutate(r, After(<<Require(HasScene)>> \o DestroyExisting(library, "scene_markers", id)),
              Hooks("scene_markers", "Destroy", <<id>>))

----------------------------------------------------------------------------
(* Images. *)

ImageColumns(fields) == Columns(fields, {"title", "rating", "studio_id"}, {"organized"})
ImageLists == <<"gallery_ids", "performer_ids", "tag_ids">>

ImageStatements(id, fields) ==
  <<Update("images", id, ImageColumns(fields))>> \o SetLists("images", id, fields, ImageLists)

ImageUpdate ==
  \E r \in Asked("ImageUpdate") :
    Mutate(r, After(ImageStatements(r.ids[1], r.fields)), Hooks("images", "Update", <<r.ids[1]>>))

ImagesUpdate ==
  \E r \in Asked("ImagesUpdate") :
    Mutate(r, After(FlattenSeq([i \in DOMAIN r.ids |-> ImageStatements(r.ids[i], r.each[i])])),
           Hooks("images", "Update", r.ids))

BulkImageUpdate ==
  \E r \in Asked("BulkImageUpdate") :
    LET Statements(d, id) ==
          <<Update("images", id, ImageColumns(r.fields))>>
          \o AdjustLists(d, "images", id, r.fields, ImageLists)
    IN Mutate(r, EachID(library, r.ids, Statements), Hooks("images", "Update", r.ids))

DestroyImage(d, id) == DestroyExisting(d, "images", id)

ImagesDestroy ==
  \E r \in Asked("ImagesDestroy") :
    Mutate(r, EachID(library, r.ids, DestroyImage), Hooks("images", "Destroy", r.ids))

ImageIncrementO == \E r \in Asked("ImageIncrementO") : IncrementO(r, "images")
ImageDecrementO == \E r \in Asked("ImageDecrementO") : DecrementO(r, "images")
ImageResetO == \E r \in Asked("ImageResetO") : ResetO(r, "images")

----------------------------------------------------------------------------
(* Galleries.  One that users create has no path, and the title, which may *)
(* not be empty, stands for its checksum.                                  *)

GalleryOf(d, id) ==
  LET rows == {g \in Rows(d, "galleries") : g.id = id}
  IN IF rows = {} THEN Null ELSE CHOOSE g \in rows : TRUE
NewTitle(fields) == "title" \in DOMAIN fields /\ fields.title # Null

GalleryCreate ==
  \E r \in Asked("GalleryCreate") :
    LET id == NewID(library, "galleries")
        columns == NewColumns(r.fields, {"title", "url", "details", "date", "rating", "studio_id"})
                   @@ [checksum |-> r.fields.title, path |-> Null, zip |-> FALSE, organized |-> FALSE]
    IN Mutate(r, After(<<Require(r.fields.title # {})>> \o Create(library, "galleries", columns)
                         \o SetLists("galleries", id, r.fields, <<"performer_ids", "tag_ids", "scene_ids">>)),
              Hooks("galleries", "Create", <<id>>))

GalleryColumns(fields) ==
  Columns(fields, {"details", "url", "date", "rating", "studio_id"}, {"organized"})

GalleryStatements(d, id, fields) ==
  LET original == GalleryOf(d, id)
      title == IF ~NewTitle(fields) THEN <<>> ELSE [title |-> fields.title]
      checksum == IF ~NewTitle(fields) \/ Column(original, "path") # Null THEN <<>>
                  ELSE [checksum |-> fields.title]
  IN <<Require(original # Null), Require(NewTitle(fields) => fields.title # {}),
       Update("galleries", id, title @@ checksum @@ GalleryColumns(fields))>>
     \o SetLists("galleries", id, fields, <<"performer_ids", "tag_ids", "scene_ids">>)

GalleryUpdate ==
  \E r \in Asked("GalleryUpdate") :
    Mutate(r, After(GalleryStatements(library, r.ids[1], r.fields)),
           Hooks("galleries", "Update", <<r.ids[1]>>))

GalleriesUpdate ==
  \E r \in Asked("GalleriesUpdate") :
    LET Statements(d, i) == GalleryStatements(d, r.ids[i], r.each[i])
    IN Mutate(r, EachID(library, [i \in DOMAIN r.ids |-> i], Statements),
              Hooks("galleries", "Update", r.ids))

BulkGalleryUpdate ==
  \E r \in Asked("BulkGalleryUpdate") :
    LET Statements(d, id) ==
          <<Update("galleries", id, GalleryColumns(r.fields))>>
          \o AdjustLists(d, "galleries", id, r.fields, <<"performer_ids", "tag_ids", "scene_ids">>)
    IN Mutate(r, EachID(library, r.ids, Statements), Hooks("galleries", "Update", r.ids))

\* The images that go with a gallery: all that are in its zip file, or with the files of
\* a folder those that no other gallery has.
ImagesToDestroy(d, id, deleteFile) ==
  LET gallery == GalleryOf(d, id)
      inside == IDsOf(d, "galleries", "image_ids", id)
  IN CASE gallery # Null /\ gallery.zip -> inside
       [] gallery # Null /\ ~gallery.zip /\ deleteFile ->
            {i \in inside : IDsOf(d, "images", "gallery_ids", i) = {id}}
       [] OTHER -> {}

DestroyGallery(d, id, deleteFile) ==
  LET images == SetToSeq(ImagesToDestroy(d, id, deleteFile))
  IN FlattenSeq([i \in DOMAIN images |-> DestroyImage(d, images[i])])
     \o DestroyExisting(d, "galleries", id)

\* Mutant: the images that would go with each gallery alone.
ImagesDestroyedAtOnce(ids, deleteFile) ==
  FlattenSeq([i \in DOMAIN ids |-> SetToSeq(ImagesToDestroy(library, ids[i], deleteFile))])

\* A later gallery of the list finds the images that the earlier ones have left.
ImagesDestroyedWith(ids, deleteFile) ==
  LET Statements(d, id) == DestroyGallery(d, id, deleteFile)
      ImagesAt(i) == LET d == EachID(library, SubSeq(ids, 1, i - 1), Statements)
                     IN SetToSeq(ImagesToDestroy(d, ids[i], deleteFile))
  IN FlattenSeq([i \in DOMAIN ids |-> ImagesAt(i)])

GalleryDestroy ==
  \E r \in Asked("GalleryDestroy") :
    LET Statements(d, id) == DestroyGallery(d, id, r.deleteFile)
        after == EachID(library, r.ids, Statements)
    IN Mutate(r, after,
              IF after = Failed THEN <<>>
              ELSE Hooks("galleries", "Destroy", r.ids)
                     \o Hooks("images", "Destroy", ImagesDestroyedWith(r.ids, r.deleteFile)))

\* Which images are in a zip file is not changed.
ModifyImages(r, images) ==
  LET gallery == GalleryOf(library, r.ids[1])
  IN Mutate(r, After(<<Require(gallery # Null), Require(gallery # Null => ~gallery.zip)>>
                       \o SetList("galleries", r.ids[1], "image_ids", images)), <<>>)

AddGalleryImages ==
  \E r \in Asked("AddGalleryImages") :
    ModifyImages(r, FoldLeft(AppendUnique, ListOf(library, "galleries", "image_ids", r.ids[1]),
                             r.fields.image_ids))
RemoveGalleryImages ==
  \E r \in Asked("RemoveGalleryImages") :
    ModifyImages(r, SelectSeq(ListOf(library, "galleries", "image_ids", r.ids[1]),
                              LAMBDA i : ~Contains(r.fields.image_ids, i)))

----------------------------------------------------------------------------
(* Performers.  Dates are years; 0 is the empty date, which is none.       *)

Known(date) == date \notin {Null, 0}
GivenDate(fields, existing, name) ==
  IF name \in DOMAIN fields /\ fields[name] # Null THEN fields[name] ELSE Column(existing, name)

\* Mutant: only dates that are both given are compared.
ValidateGivenDates(existing, fields) ==
  \A birthdate, death \in {3, 2, 1} :
    birthdate = GivenDate(fields, Null, "birthdate") /\ death = GivenDate(fields, Null, "death_date")
      => birthdate <= death

\* Only if a date is given, with the existing one for the other.
ValidateDeathDate(existing, fields) ==
  LET birthdate == GivenDate(fields, existing, "birthdate")
      death == GivenDate(fields, existing, "death_date")
  IN \/ \A name \in {"birthdate", "death_date"} : name \in DOMAIN fields => fields[name] = Null
     \/ ~Known(birthdate) \/ ~Known(death)
     \/ birthdate <= death

PerformerOf(d, id) ==
  LET rows == {p \in Rows(d, "performers") : p.id = id}
  IN IF rows = {} THEN Null ELSE CHOOSE p \in rows : TRUE

PerformerNullable == {"url", "birthdate", "death_date", "aliases", "favorite", "rating", "details"}

PerformerCreate ==
  \E r \in Asked("PerformerCreate") :
    LET id == NewID(library, "performers")
        given == NewColumns(r.fields, PerformerNullable \cup {"name"})
        columns == [given EXCEPT !.favorite = IF @ = Null THEN FALSE ELSE @]
    IN Mutate(r, After(<<Require(ValidateDeathDate(Null, r.fields))>>
                         \o Create(library, "performers", columns)
                         \o SetLists("performers", id, r.fields, <<"tag_ids">>)
                         \o SetImage("performers_image", "performer_id", id, "image", r.fields)
                         \o SetLists("performers", id, r.fields, <<"stash_ids">>)),
              Hooks("performers", "Create", <<id>>))

PerformerUpdate ==
  \E r \in Asked("PerformerUpdate") :
    LET id == r.ids[1]
        existing == PerformerOf(library, id)
    IN Mutate(r, After(<<Require(existing # Null), Require(ValidateDeathDate(existing, r.fields)),
                         Update("performers", id, Columns(r.fields, PerformerNullable, {"name"}))>>
                         \o SetLists("performers", id, r.fields, <<"tag_ids">>)
                         \o SetImage("performers_image", "performer_id", id, "image", r.fields)
                         \o SetLists("performers", id, r.fields, <<"stash_ids">>)),
              Hooks("performers", "Update", <<id>>))

\* The hooks it executes are those of images (line 399).
BulkPerformerUpdate ==
  \E r \in Asked("BulkPerformerUpdate") :
    LET Statements(d, id) ==
          <<Require(id \in Ids(d, "performers")),
            Require(ValidateDeathDate(PerformerOf(d, id), r.fields)),
            Update("performers", id, Columns(r.fields, PerformerNullable, {}))>>
          \o AdjustLists(d, "performers", id, r.fields, <<"tag_ids">>)
    IN Mutate(r, EachID(library, r.ids, Statements), Hooks("images", "Update", r.ids))

DestroyPerformer(d, id) ==
  <<DeleteWhere("performers_scenes", "performer_id", id)>> \o DestroyExisting(d, "performers", id)

PerformersDestroy ==
  \E r \in Asked("PerformersDestroy") :
    Mutate(r, EachID(library, r.ids, DestroyPerformer), Hooks("performers", "Destroy", r.ids))

----------------------------------------------------------------------------
(* Studios. *)

\* The walk from a parent up: it ends at a studio without parent, unless it meets the
\* studio itself, or one that is not there, a nil that is dereferenced.
ValidateModifyStudio(d, id, fields) ==
  LET parents == [x \in Ids(d, "studios") |->
                    Column(CHOOSE s \in Rows(d, "studios") : s.id = x, "parent_id")]
      Up(x) == IF x \in DOMAIN parents THEN parents[x] ELSE x
      walk[n \in 0..Cardinality(DOMAIN parents)] ==
        IF n = 0 THEN fields.parent_id ELSE Up(walk[n - 1])
  IN "parent_id" \in DOMAIN fields =>
       /\ \A n \in DOMAIN walk : walk[n] # id
       /\ walk[Cardinality(DOMAIN parents)] = Null

\* An alias is no name and no alias of another studio, or tag.
EnsureUnique(d, kind, aliases, fk, id, name) ==
  /\ \A other \in Rows(d, kind) : Column(other, "name") = name => other.id = id
  /\ \A a \in Rows(d, aliases) : a.alias = name => a[fk] = id
EnsureAliases(d, kind, aliases, fk, id, fields) ==
  "aliases" \in DOMAIN fields /\ fields.aliases # Null =>
    \A name \in ToSet(fields.aliases) : EnsureUnique(d, kind, aliases, fk, id, name)

StudioNullable == {"url", "details", "parent_id", "rating"}

\* The aliases are compared with the names that there are with the new one.
StudioParts(d, id, fields) ==
  SetImage("studios_image", "studio_id", id, "image", fields)
  \o SetLists("studios", id, fields, <<"stash_ids">>)
  \o <<Require(EnsureAliases(d, "studios", "studio_aliases", "studio_id", id, fields))>>
  \o SetLists("studios", id, fields, <<"aliases">>)

StudioCreate ==
  \E r \in Asked("StudioCreate") :
    LET id == NewID(library, "studios")
        created == After(Create(library, "studios", NewColumns(r.fields, StudioNullable \cup {"name"})))
    IN Mutate(r, IF created = Failed THEN Failed
                 ELSE ExecuteAll(created, StudioParts(created, id, r.fields)),
              Hooks("studios", "Create", <<id>>))

StudioUpdate ==
  \E r \in Asked("StudioUpdate") :
    LET id == r.ids[1]
        updated == After(<<Require(ValidateModifyStudio(library, id, r.fields)),
                           Update("studios", id, Columns(r.fields, StudioNullable, {"name"}))>>)
    IN Mutate(r, IF updated = Failed THEN Failed
                 ELSE ExecuteAll(updated, StudioParts(updated, id, r.fields)),
              Hooks("studios", "Update", <<id>>))

DestroyStudio(d, id) == DestroyExisting(d, "studios", id)

StudiosDestroy ==
  \E r \in Asked("StudiosDestroy") :
    Mutate(r, EachID(library, r.ids, DestroyStudio), Hooks("studios", "Destroy", r.ids))

----------------------------------------------------------------------------
(* Movies.  A row of images has a front image; the default one if only the *)
(* back is known.                                                          *)

MovieNullable == {"aliases", "duration", "date", "rating", "studio_id", "director", "synopsis", "url"}

MovieImages(id, front, back) ==
  IF front = Null /\ back = Null THEN <<DeleteWhere("movies_images", "movie_id", id)>>
  ELSE Replace("movies_images", "movie_id", id,
               <<[front_image |-> IF front = Null THEN "default" ELSE front, back_image |-> back]>>)

MovieCreate ==
  \E r \in Asked("MovieCreate") :
    LET id == NewID(library, "movies")
        images == NewColumns(r.fields, {"front_image", "back_image"})
    IN Mutate(r, After(Create(library, "movies", NewColumns(r.fields, MovieNullable \cup {"name"}))
                         \o MovieImages(id, images.front_image, images.back_image)),
              Hooks("movies", "Create", <<id>>))

ImageNow(d, id, fields, name) ==
  LET rows == {x \in Rows(d, "movies_images") : x.movie_id = id}
  IN CASE name \in DOMAIN fields -> fields[name]
       [] name \notin DOMAIN fields /\ rows # {} -> (CHOOSE x \in rows : TRUE)[name]
       [] OTHER -> Null

MovieUpdate ==
  \E r \in Asked("MovieUpdate") :
    LET id == r.ids[1]
        Now(name) == ImageNow(library, id, r.fields, name)
    IN Mutate(r, After(<<Update("movies", id, Columns(r.fields, MovieNullable, {"name"}))>>
                         \o (IF DOMAIN r.fields \cap {"front_image", "back_image"} = {} THEN <<>>
                             ELSE MovieImages(id, Now("front_image"), Now("back_image")))),
              Hooks("movies", "Update", <<id>>))

BulkMovieUpdate ==
  \E r \in Asked("BulkMovieUpdate") :
    LET Statements(d, id) ==
          <<Update("movies", id, Columns(r.fields, {"rating", "studio_id", "director"}, {}))>>
    IN Mutate(r, EachID(library, r.ids, Statements), Hooks("movies", "Update", r.ids))

DestroyMovie(d, id) == DestroyExisting(d, "movies", id)

MoviesDestroy ==
  \E r \in Asked("MoviesDestroy") :
    Mutate(r, EachID(library, r.ids, DestroyMovie), Hooks("movies", "Destroy", r.ids))

----------------------------------------------------------------------------
(* Tags.  Their names and aliases are told apart, and TagHierarchy has the *)
(* links between parents and children.                                     *)

\* The parents or children that a request gives: {list}, as TagHierarchy takes sets.
Relatives(fields, name) ==
  IF name \notin DOMAIN fields THEN Tagged!NotGiven
  ELSE {IF fields[name] = Null THEN <<>> ELSE fields[name]}

\* The links are written first and validated afterwards.
HierarchyStatements(d, id, parents, children) ==
  LET P == {ToSet(list) : list \in parents}
      C == {ToSet(list) : list \in children}
      linked == Tagged!Linked(TagLinks(d), id, P, C)
      given == P # Tagged!NotGiven \/ C # Tagged!NotGiven
      Written(lists, name) == FlattenSeq(SetToSeq({SetList("tags", id, name, list) : list \in lists}))
  IN Written(parents, "parent_ids") \o Written(children, "child_ids")
     \o <<Require(given => Tagged!ValidateHierarchy(Ids(d, "tags") \cup {id}, linked, id, P, C))>>

EnsureTagNameUnique(d, id, name) == EnsureUnique(d, "tags", "tag_aliases", "tag_id", id, name)

TagParts(d, id, fields, parents, children) ==
  SetImage("tags_image", "tag_id", id, "image", fields)
  \o <<Require(EnsureAliases(d, "tags", "tag_aliases", "tag_id", id, fields))>>
  \o SetLists("tags", id, fields, <<"aliases">>)
  \o HierarchyStatements(d, id, parents, children)

\* Empty lists are as good as none.
TagCreate ==
  \E r \in Asked("TagCreate") :
    LET id == NewID(library, "tags")
        created == After(<<Require(EnsureTagNameUnique(library, 0, r.fields.name))>>
                           \o Create(library, "tags", [name |-> r.fields.name]))
        Listed(name) == IF Relatives(r.fields, name) = {<<>>} THEN Tagged!NotGiven
                       ELSE Relatives(r.fields, name)
    IN Mutate(r, IF created = Failed THEN Failed
                 ELSE ExecuteAll(created, TagParts(created, id, r.fields, Listed("parent_ids"), Listed("child_ids"))),
              Hooks("tags", "Create", <<id>>))

\* A name is compared with others if it is a new one.
TagUpdate ==
  \E r \in Asked("TagUpdate") :
    LET id == r.ids[1]
        Same == \E t \in Rows(library, "tags") : t.id = id /\ t.name = r.fields.name
        renamed == "name" \in DOMAIN r.fields /\ r.fields.name # Null /\ ~Same
        updated == After(<<Require(renamed => EnsureTagNameUnique(library, id, r.fields.name)),
                           Update("tags", id, Columns(r.fields, {}, {"name", "ignore_auto_tag"}))>>)
    IN Mutate(r, IF updated = Failed THEN Failed
                 ELSE ExecuteAll(updated, TagParts(updated, id, r.fields, Relatives(r.fields, "parent_ids"),
                                                   Relatives(r.fields, "child_ids"))),
              Hooks("tags", "Update", <<id>>))

\* A tag that is the primary one of a marker is kept by the foreign key.
DestroyTag(d, id) ==
  <<DeleteWhere("scenes_tags", "tag_id", id), DeleteWhere("scene_markers_tags", "tag_id", id)>>
  \o DestroyExisting(d, "tags", id)

TagsDestroy ==
  \E r \in Asked("TagsDestroy") :
    Mutate(r, EachID(library, r.ids, DestroyTag), Hooks("tags", "Destroy", r.ids))

\* Links to the sources become links to the destination, unless there is one already
\* when the statement begins: those to two sources become the same link twice.
TagTables ==
  <<<<"scenes_tags", "scene_id">>, <<"scene_markers_tags", "scene_marker_id">>,
    <<"galleries_tags", "gallery_id">>, <<"images_tags", "image_id">>,
    <<"performers_tags", "performer_id">>>>

RepointLinks(d, table, column, source, destination) ==
  LET Linked(row) == \E o \in Rows(d, table) : o[column] = row[column] /\ o.tag_id = destination
      moved == {row \in Rows(d, table) : row.tag_id \in source /\ ~Linked(row)}
  IN Rewrite(table, FoldSet(LAMBDA row, rows : Again(rows, [Bare(row) EXCEPT !.tag_id = destination]),
                            Rows(d, table) \ moved, moved))

\* The names of the sources become aliases; their aliases stay aliases.
MergeStatements(d, source, destination) ==
  LET names == {t.name : t \in {x \in Rows(d, "tags") : x.id \in source}}
      aliases == Rows(d, "tag_aliases") \cup {[tag_id |-> destination, alias |-> n] : n \in names}
      To(row, column) == IF row[column] \in source THEN [row EXCEPT ![column] = destination] ELSE row
  IN <<Require(destination \notin source)>>
     \o [i \in DOMAIN TagTables |-> RepointLinks(d, TagTables[i][1], TagTables[i][2], source, destination)]
     \o <<Rewrite("scene_markers", {To(m, "primary_tag_id") : m \in Rows(d, "scene_markers")})>>
     \o InsertAll("tag_aliases", SetToSeq({[tag_id |-> destination, alias |-> n] : n \in names}))
     \o <<Rewrite("tag_aliases", {To(a, "tag_id") : a \in aliases})>>

TagsMerge ==
  \E r \in Asked("TagsMerge") :
    LET source == ToSet(r.ids)
        merged == After(<<Require(r.into \in Ids(library, "tags"))>>
                          \o MergeStatements(library, source, r.into))
        destroyed == IF merged = Failed THEN Failed ELSE EachID(merged, r.ids, DestroyTag)
        related == Tagged!MergeHierarchy(r.into, source)
    IN Mutate(r, IF destroyed = Failed THEN Failed
                 ELSE ExecuteAll(destroyed, HierarchyStatements(destroyed, r.into, {SetToSeq(related.parents)},
                                                                {SetToSeq(related.children)})),
              Hooks("tags", "Merge", <<r.into>>))

----------------------------------------------------------------------------
(* Saved filters.  The one with the empty name is the default of a mode.   *)
(* Plugins are not told of them.                                           *)

\* All columns of an existing one are written.
SaveFilter ==
  \E r \in Asked("SaveFilter") :
    Mutate(r, After(<<Require(r.fields.name # {})>>
                      \o (IF r.ids = <<>> THEN Create(library, "saved_filters", r.fields)
                          ELSE <<Update("saved_filters", r.ids[1], r.fields)>>)), <<>>)

DestroySavedFilter ==
  \E r \in Asked("DestroySavedFilter") :
    Mutate(r, After(DestroyExisting(library, "saved_filters", r.ids[1])), <<>>)

FindDefault(d, mode) ==
  {f \in Rows(d, "saved_filters") : f.mode = mode /\ f.name = {}}

SetDefaultFilter ==
  \E r \in Asked("SetDefaultFilter") :
    LET default == {f.id : f \in FindDefault(library, r.fields.mode)}
        columns == [mode |-> r.fields.mode, name |-> {}, filter |-> r.fields.filter]
    IN Mutate(r, After(
         IF r.fields.filter = Null
         THEN SetToSeq({DeleteWhere("saved_filters", "id", id) : id \in default})
         ELSE IF default = {} THEN Create(library, "saved_filters", columns)
         ELSE SetToSeq({Update("saved_filters", id, columns) : id \in default})), <<>>)

----------------------------------------------------------------------------
MutationsInit ==
  /\ \E session \in Sessions : library = session.library /\ requests = session.requests
  /\ input = NoInput
  /\ hooks = <<>>
  /\ made = 0

SceneMutation ==
  \/ SceneUpdate \/ ScenesUpdate \/ BulkSceneUpdate \/ ScenesDestroy
  \/ SceneIncrementO \/ SceneDecrementO \/ SceneResetO
  \/ SceneMarkerCreate \/ SceneMarkerUpdate \/ SceneMarkerDestroy
ImageMutation ==
  \/ ImageUpdate \/ ImagesUpdate \/ BulkImageUpdate \/ ImagesDestroy
  \/ ImageIncrementO \/ ImageDecrementO \/ ImageResetO
GalleryMutation ==
  \/ GalleryCreate \/ GalleryUpdate \/ GalleriesUpdate \/ BulkGalleryUpdate \/ GalleryDestroy
  \/ AddGalleryImages \/ RemoveGalleryImages
PerformerMutation ==
  PerformerCreate \/ PerformerUpdate \/ BulkPerformerUpdate \/ PerformersDestroy
StudioMutation == StudioCreate \/ StudioUpdate \/ StudiosDestroy
MovieMutation == MovieCreate \/ MovieUpdate \/ BulkMovieUpdate \/ MoviesDestroy
TagMutation == TagCreate \/ TagUpdate \/ TagsDestroy \/ TagsMerge
FilterMutation == SaveFilter \/ DestroySavedFilter \/ SetDefaultFilter

MutationsNext ==
  \/ SceneMutation \/ ImageMutation \/ GalleryMutation \/ PerformerMutation
  \/ StudioMutation \/ MovieMutation \/ TagMutation \/ FilterMutation

----------------------------------------------------------------------------
(* What is asked of mutations, apart from how they do it. *)

NamesOf(d, tag) == {tag.name} \cup IDsOf(d, "tags", "aliases", tag.id)

\* Whatever clients ask for, no word names two tags, no tag and no studio is above itself,
\* nobody dies before they are born, a movie with a back image has one for its front, and
\* the checksum of a gallery without a path is that of its title (tag/update.go:38-88,
\* manager/studio.go:10-37, performer/validate.go:10-39, resolver_mutation_movie.go:34-38
\* and 202-225, resolver_mutation_gallery.go:40-41 and 233-236).
RowsMakeSense ==
  /\ \A s, t \in Rows(library, "tags") : s # t => NamesOf(library, s) \cap NamesOf(library, t) = {}
  /\ Tagged!Acyclic
  /\ \A S \in SUBSET Rows(library, "studios") :
       S # {} => \E s \in S : \A t \in S : Column(s, "parent_id") # t.id
  /\ \A p \in Rows(library, "performers") :
       Known(Column(p, "birthdate")) /\ Known(Column(p, "death_date")) => p.birthdate <= p.death_date
  /\ \A i \in Rows(library, "movies_images") : i.front_image # Null
  /\ \A g \in Rows(library, "galleries") : Column(g, "path") = Null => g.checksum = g.title

Creates == {"SceneMarkerCreate", "GalleryCreate", "PerformerCreate", "StudioCreate", "MovieCreate", "TagCreate"}
Updates == {"SceneUpdate", "ScenesUpdate", "BulkSceneUpdate", "SceneMarkerUpdate", "ImageUpdate", "ImagesUpdate",
            "BulkImageUpdate", "GalleryUpdate", "GalleriesUpdate", "BulkGalleryUpdate", "PerformerUpdate",
            "BulkPerformerUpdate", "StudioUpdate", "MovieUpdate", "BulkMovieUpdate", "TagUpdate"}
Destroys == {"ScenesDestroy", "SceneMarkerDestroy", "ImagesDestroy", "GalleryDestroy", "PerformersDestroy",
             "StudiosDestroy", "MoviesDestroy", "TagsDestroy"}

\* Where the fields of an object are kept that are no columns of its row.
Places(kind) ==
  [name \in DOMAIN Lists[kind] |-> <<Lists[kind][name][1], Lists[kind][name][2]>>] @@
  CASE kind = "scenes" -> [cover_image |-> <<"scenes_cover", "scene_id">>,
                           movies |-> <<"movies_scenes", "scene_id">>]
    [] kind = "movies" -> [front_image |-> <<"movies_images", "movie_id">>,
                           back_image |-> <<"movies_images", "movie_id">>]
    [] kind = "performers" -> [image |-> <<"performers_image", "performer_id">>]
    [] kind = "studios" -> [image |-> <<"studios_image", "studio_id">>]
    [] kind = "tags" -> [image |-> <<"tags_image", "tag_id">>]
    [] OTHER -> <<>>

FieldsOf(r, i) == IF "each" \in DOMAIN r THEN r.each[i] ELSE r.fields

NeedValues == {"organized", "name", "ignore_auto_tag"}
Bulk == {"BulkSceneUpdate", "BulkImageUpdate", "BulkGalleryUpdate", "BulkPerformerUpdate"}

\* How often a list has an element, and how often it should after a request that gives a
\* list: as often as that; what a bulk update adds is there, once if it was not; each time
\* that it names an id to remove takes one away, so that one of two that a merge has left
\* stays.
Times(list, x) == Cardinality({i \in DOMAIN list : list[i] = x})
Named(r, given) ==
  CASE given = Null -> <<>>
    [] given # Null /\ r.op \in Bulk -> given.ids
    [] OTHER -> given
TimesAsked(r, was, given, x) ==
  LET mode == IF given # Null /\ r.op \in Bulk THEN given.mode ELSE "SET"
      named == Times(Named(r, given), x)
  IN CASE mode = "SET" -> named
       [] mode = "ADD" -> IF named = 0 THEN Times(was, x) ELSE Max({1, Times(was, x)})
       [] mode = "REMOVE" -> Max({0, Times(was, x) - named})

\* A list and a column are as the request gives them; a column that needs a value stays as
\* it is if it is given none.
AsGiven(old, new, r, id, fields, name) ==
  LET kind == r.kind
      given == fields[name]
      RowIn(d) == IF id \in Ids(d, kind) THEN CHOOSE x \in Rows(d, kind) : x.id = id ELSE Null
      was == ListOf(old, kind, name, id)
      is == ListOf(new, kind, name, id)
      Asks(x) ==
        IF kind = "scene_markers" /\ x = fields.primary_tag_id THEN 0
        ELSE TimesAsked(r, was, given, x)
  IN IF name \notin DOMAIN Places(kind)
     THEN Column(RowIn(new), name) =
            CASE given = Null /\ (name \in NeedValues \/ <<kind, name>> = <<"galleries", "title">>) ->
                   Column(RowIn(old), name)
              [] <<kind, name, given>> = <<"scene_markers", "scene_id", 0>> -> Null
              [] <<kind, name, given>> = <<"performers", "favorite", Null>> /\ RowIn(old) = Null -> FALSE
              [] OTHER -> given
     ELSE name \in DOMAIN Lists[kind] =>
            \A x \in UNION {ToSet(was), ToSet(is), ToSet(Named(r, given))} : Times(is, x) = Asks(x)

\* Rows that are neither those of the objects nor belong to fields that are named.
Untouched(r, kind, ids, d, table) ==
  {row \in Rows(d, table) : \A i \in DOMAIN ids :
     /\ table = kind => row.id # ids[i]
     /\ \A name \in DOMAIN FieldsOf(r, i) \cap DOMAIN Places(kind) :
          LET place == Places(kind)[name] IN place[1] = table => row[place[2]] # ids[i]}

SavedAsGiven(r, ids, old, new) ==
  /\ \A i \in DOMAIN ids : \A name \in DOMAIN FieldsOf(r, i) :
       AsGiven(old, new, r, ids[i], FieldsOf(r, i), name)
  /\ \A i \in DOMAIN ids : \A x \in Rows(old, r.kind), y \in Rows(new, r.kind) :
       x.id = ids[i] /\ y.id = ids[i] =>
         \A c \in (DOMAIN x \cup DOMAIN y) \ (DOMAIN FieldsOf(r, i) \cup {"checksum", "created_at"}) :
           Column(x, c) = Column(y, c)
  /\ \A table \in (DOMAIN old \cup DOMAIN new) \ {"sqlite_sequence"} :
       Untouched(r, r.kind, ids, old, table) = Untouched(r, r.kind, ids, new, table)

Gone(old, new, kind) == Ids(old, kind) \ Ids(new, kind)

\* What goes besides: the markers of scenes, the images of galleries that nothing else has.
GoesAlong(r, old, new) ==
  CASE r.op = "ScenesDestroy" -> {"scene_markers"}
    [] r.op = "GalleryDestroy" -> {"images"}
    [] OTHER -> {}

DestroyedAsAsked(r, old, new) ==
  /\ Gone(old, new, r.kind) = ToSet(r.ids)
  /\ \A kind \in DOMAIN Lists \ ({r.kind} \cup GoesAlong(r, old, new)) : Gone(old, new, kind) = {}
  /\ r.op = "ScenesDestroy" =>
       Gone(old, new, "scene_markers") = UNION {MarkersOf(old, id) : id \in ToSet(r.ids)}
  /\ r.op = "GalleryDestroy" =>
       LET zips == {g.id : g \in {x \in Rows(old, "galleries") : x.zip}} \cap ToSet(r.ids)
       IN Gone(old, new, "images") =
            {i \in Ids(old, "images") :
               LET in == IDsOf(old, "images", "gallery_ids", i)
               IN \/ in \cap zips # {}
                  \/ r.deleteFile /\ in # {} /\ in \subseteq ToSet(r.ids)}
  /\ \A ref \in References : \A row \in Rows(new, ref.table) :
       Column(row, ref.column) \in Ids(new, ref.to) \cup {Null}

\* What was tagged with a source is tagged with the destination, which has their names.
MergedAsAsked(r, old, new) ==
  LET source == ToSet(r.ids)
      TagsOf(d, table, id) == ToSet(LinkedIDs(d, table[1], table[2], id, "tag_id"))
      Now(t) == IF t \in source THEN r.into ELSE t
      Tag(d, id) == CHOOSE t \in Rows(d, "tags") : t.id = id
  IN /\ Gone(old, new, "tags") = source
     /\ \A table \in ToSet(TagTables) : \A row \in Rows(old, table[1]) :
          TagsOf(new, table, row[table[2]]) = {Now(t) : t \in TagsOf(old, table, row[table[2]])}
     /\ {[m EXCEPT !.primary_tag_id = Now(@)] : m \in Rows(old, "scene_markers")} = Rows(new, "scene_markers")
     /\ NamesOf(new, Tag(new, r.into)) = UNION {NamesOf(old, Tag(old, t)) : t \in source \cup {r.into}}

\* A mutation that succeeds does what the request says and nothing else: what it creates
\* or updates is as given and the rest is as it was, also in the tables that it shares
\* with other objects, but for the time at which a marker was created, which updates of it
\* overwrite (scene_marker.go:44-46); it destroys what it names with all that refers to it; a merge
\* loses no link and no name (resolver_mutation_*.go, changeset_translator.go:64-150,
\* repository.go:100-125, tag.go:661-727).
MutationsMean ==
  [][LET r == input'
         new == Ids(library', r.kind) \ Ids(library, r.kind)
     IN /\ r.op \in Creates => /\ Cardinality(new) = 1
                               /\ SavedAsGiven(r, SetToSeq(new), library, library')
        /\ r.op \in Updates => SavedAsGiven(r, r.ids, library, library')
        /\ r.op \in Destroys => DestroyedAsAsked(r, library, library')
        /\ r.op = "TagsMerge" => MergedAsAsked(r, library, library')]_mutationVars

\* Plugins are told exactly what was created and destroyed, of each once, the images that
\* go with a gallery included, and of updates in the order of the request; not told of are
\* the markers that go with a scene and the tags that are merged into another
\* (ExecutePostHooks in resolver_mutation_*.go).  A bulk update of performers is told as
\* one of images.
HooksTell ==
  [][LET Told(what) == SelectSeq(hooks', LAMBDA h : h[2] = what)
         Of(what) == {<<h[1], h[3]>> : h \in ToSet(Told(what))}
         Silent == (IF input'.op = "ScenesDestroy" THEN {"scene_markers"} ELSE {})
                     \cup (IF input'.op = "TagsMerge" THEN {"tags"} ELSE {})
         In(old, new) == UNION {{kind} \X Gone(old, new, kind) : kind \in DOMAIN Lists \ Silent}
     IN /\ Of("Create") = In(library', library)
        /\ Of("Destroy") = In(library, library')
        /\ \A what \in {"Create", "Destroy"} : Len(Told(what)) = Cardinality(Of(what))
        /\ input'.op \in Updates \ {"BulkPerformerUpdate"} =>
             Told("Update") = Hooks(input'.kind, "Update", input'.ids)
        /\ Told("Update") # <<>> => input'.op \in Updates]_mutationVars
=============================================================================
