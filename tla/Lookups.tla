------------------------------ MODULE Lookups ------------------------------
(***************************************************************************)
(* What the API answers about an object besides its own columns: the       *)
(* resolvers of its fields (internal/api/resolver_model_*.go) and the      *)
(* lookups of the repositories that they call (FindBy..., CountBy... and   *)
(* Get... in pkg/sqlite).  Objects are answered by their ids.              *)
(***************************************************************************)
EXTENDS ObjectFilters

CONSTANTS
  Error,            \* a resolver panics, or leaves a field null that must not be
  FarthestLikeness  \* bound: the distance up to which scenes are asked to look alike

ASSUME LookupsAssumption == FarthestLikeness \in Nat

----------------------------------------------------------------------------
(* Lookups. *)

\* SELECT the objects of a kind that a row of the join table joins to an id.  Rows that
\* are there twice are grouped, but by the lookups of performers, which tell them twice.
FindJoined(d, kind, join, own, fk, id) ==
  {row.id : row \in {r \in Rows(d, kind) :
     \E link \in Rows(d, join) : Column(link, own) = r.id /\ Column(link, fk) = id}}

\* SELECT from the join table only, a row for each group.
CountGroups(d, join, fk, id, group) ==
  Cardinality({Column(link, group) : link \in {l \in Rows(d, join) : Column(l, fk) = id}})

\* Find: nothing for an id that there is not.
Find(d, kind, id) == IF id \in Ids(d, kind) THEN id ELSE Null

ScenesByPerformerID(d, id) == FindJoined(d, "scenes", "performers_scenes", "scene_id", "performer_id", id)
ScenesByMovieID(d, id) == FindJoined(d, "scenes", "movies_scenes", "scene_id", "movie_id", id)
ScenesByGalleryID(d, id) == FindJoined(d, "scenes", "scenes_galleries", "scene_id", "gallery_id", id)
SceneCountByPerformerID(d, id) == CountGroups(d, "performers_scenes", "performer_id", id, "scene_id")
SceneCountByMovieID(d, id) == Cardinality(ScenesByMovieID(d, id))
\* Mutant: links are counted in groups of the wrong column.
SceneCountByTag(d, id) == CountGroups(d, "scenes_tags", "tag_id", id, "tag_id")
SceneCountByTagID(d, id) == CountGroups(d, "scenes_tags", "tag_id", id, "scene_id")
SceneCountByStudioID(d, id) ==
  Cardinality({s \in Rows(d, "scenes") : Column(s, "studio_id") = id /\ id \in Ids(d, "studios")})

ImagesByGalleryID(d, id) == FindJoined(d, "images", "galleries_images", "image_id", "gallery_id", id)
ImageCountByGalleryID(d, id) == CountGroups(d, "galleries_images", "gallery_id", id, "image_id")
GalleriesBySceneID(d, id) == FindJoined(d, "galleries", "scenes_galleries", "gallery_id", "scene_id", id)
GalleriesByImageID(d, id) == FindJoined(d, "galleries", "galleries_images", "gallery_id", "image_id", id)

\* Images and galleries are counted by a query with a filter of one criterion.
CountFiltered(d, kind, handled) ==
  Cardinality(RunQuery(Table(d, kind), <<>>, <<>>, <<[handled |-> handled, op |-> "AND"]>>))
Includes(id) == [modifier |-> "INCLUDES", value |-> {id}]
IncludesAt0(id) == Includes(id) @@ [depth |-> 0]
ImageCountByPerformerID(d, id) == CountFiltered(d, "images", ImageFilter([performers |-> Includes(id)], d, d))
ImageCountByStudioID(d, id) == CountFiltered(d, "images", ImageFilter([studios |-> IncludesAt0(id)], d, d))
ImageCountByTagID(d, id) == CountFiltered(d, "images", ImageFilter([tags |-> IncludesAt0(id)], d, d))
GalleryCountByPerformerID(d, id) ==
  CountFiltered(d, "galleries", GalleryFilter([performers |-> Includes(id)], d, d))
GalleryCountByStudioID(d, id) == CountFiltered(d, "galleries", GalleryFilter([studios |-> IncludesAt0(id)], d, d))
GalleryCountByTagID(d, id) == CountFiltered(d, "galleries", GalleryFilter([tags |-> IncludesAt0(id)], d, d))

PerformersBySceneID(d, id) == FindJoined(d, "performers", "performers_scenes", "performer_id", "scene_id", id)
PerformersByImageID(d, id) == FindJoined(d, "performers", "performers_images", "performer_id", "image_id", id)
PerformersByGalleryID(d, id) ==
  FindJoined(d, "performers", "performers_galleries", "performer_id", "gallery_id", id)
PerformerCountByTagID(d, id) == CountGroups(d, "performers_tags", "tag_id", id, "performer_id")

TagsBySceneID(d, id) == FindJoined(d, "tags", "scenes_tags", "tag_id", "scene_id", id)
TagsByPerformerID(d, id) == FindJoined(d, "tags", "performers_tags", "tag_id", "performer_id", id)
TagsByImageID(d, id) == FindJoined(d, "tags", "images_tags", "tag_id", "image_id", id)
TagsByGalleryID(d, id) == FindJoined(d, "tags", "galleries_tags", "tag_id", "gallery_id", id)
TagsBySceneMarkerID(d, id) == FindJoined(d, "tags", "scene_markers_tags", "tag_id", "scene_marker_id", id)
TagsByParentTagID(d, id) == FindJoined(d, "tags", "tags_relations", "child_id", "parent_id", id)
TagsByChildTagID(d, id) == FindJoined(d, "tags", "tags_relations", "parent_id", "child_id", id)

StudioChildren(d, id) == {s.id : s \in {r \in Rows(d, "studios") : Column(r, "parent_id") = id}}

\* The two joins are of link tables; the movies among them are told once.
MoviesByPerformerID(d, id) ==
  {m.movie_id : m \in {l \in Rows(d, "movies_scenes") :
     [performer_id |-> id, scene_id |-> l.scene_id] \in Rows(d, "performers_scenes")}}
MovieCountByPerformerID(d, id) == Cardinality(MoviesByPerformerID(d, id))
MoviesByStudioID(d, id) == {m.id : m \in {r \in Rows(d, "movies") : Column(r, "studio_id") = id}}
MovieCountByStudioID(d, id) == Cardinality(MoviesByStudioID(d, id))

MarkersBySceneID(d, id) == {m.id : m \in {r \in Rows(d, "scene_markers") : Column(r, "scene_id") = id}}
MarkerCountByTagID(d, id) ==
  Cardinality({m \in Rows(d, "scene_markers") :
     m.primary_tag_id = id \/ [scene_marker_id |-> m.id, tag_id |-> id] \in Rows(d, "scene_markers_tags")})

GetAliases(d, table, fk, id) == {a.alias : a \in {r \in Rows(d, table) : r[fk] = id}}
GetStashIDs(d, table, fk, id) == {s.stash_id : s \in {r \in Rows(d, table) : r[fk] = id}}
HasImage(d, table, fk, id) == \E r \in Rows(d, table) : r[fk] = id

----------------------------------------------------------------------------
(* Fields.  What a row says of another object is looked up by its id.      *)

\* Mutant: whatever is referred to is required.
ReferredRequired(d, row, column, kind) ==
  IF Column(row, column) = Null THEN Null
  ELSE IF row[column] \in Ids(d, kind) THEN row[column] ELSE Error

Referred(d, row, column, kind) ==
  IF Column(row, column) = Null THEN Null ELSE Find(d, kind, row[column])

\* The image that is the gallery's cover, or else the first one in the order of paths.
IsCover(row) == Column(row, "path") = 0
GalleryCover(d, id) ==
  LET images == {r \in Rows(d, "images") : r.id \in ImagesByGalleryID(d, id)}
      covers == {r \in images : IsCover(r)}
      First(rows) == CHOOSE r \in rows : \A other \in rows : Column(r, "path") <= Column(other, "path")
  IN IF images = {} THEN Null ELSE First(IF covers = {} THEN images ELSE covers).id

\* Columns that are answered as they are; those that are null as nothing.
Values(row, names) == [name \in names |-> Column(row, name)]
SceneGetters(row) ==
  Values(row, {"checksum", "oshash", "title", "details", "url", "date", "rating", "interactive_speed", "phash"})
ImageGetters(row) == Values(row, {"title", "rating"})
GalleryGetters(row) == Values(row, {"path", "title", "date", "url", "details", "rating"})
PerformerGetters(row) ==
  Values(row, {"name", "url", "gender", "twitter", "instagram", "birthdate", "ethnicity", "country", "eye_color",
               "height", "measurements", "fake_tits", "career_length", "tattoos", "piercings", "aliases"})
PerformerDetails(row) == Values(row, {"rating", "details", "death_date", "hair_color", "weight"})
StudioGetters(row) == Values(row, {"url", "rating", "details"})
MovieGetters(row) == Values(row, {"url", "aliases", "duration", "date", "rating"})
MovieDetails(row) == Values(row, {"director", "synopsis"})

SceneFields(d, row) ==
  SceneGetters(row) @@
  [captions |-> {c.filename : c \in {r \in Rows(d, "scene_captions") : r.scene_id = row.id}},
   scene_markers |-> MarkersBySceneID(d, row.id), galleries |-> GalleriesBySceneID(d, row.id),
   studio |-> Referred(d, row, "studio_id", "studios"), tags |-> TagsBySceneID(d, row.id),
   performers |-> PerformersBySceneID(d, row.id),
   stash_ids |-> GetStashIDs(d, "scene_stash_ids", "scene_id", row.id)]

ImageFields(d, row) ==
  ImageGetters(row) @@
  [galleries |-> GalleriesByImageID(d, row.id), studio |-> Referred(d, row, "studio_id", "studios"),
   tags |-> TagsByImageID(d, row.id), performers |-> PerformersByImageID(d, row.id)]

GalleryFields(d, row) ==
  GalleryGetters(row) @@
  [images |-> ImagesByGalleryID(d, row.id), cover |-> GalleryCover(d, row.id),
   scenes |-> ScenesByGalleryID(d, row.id), studio |-> Referred(d, row, "studio_id", "studios"),
   tags |-> TagsByGalleryID(d, row.id), performers |-> PerformersByGalleryID(d, row.id),
   image_count |-> ImageCountByGalleryID(d, row.id)]

PerformerFields(d, row) ==
  PerformerGetters(row) @@ PerformerDetails(row) @@
  [favorite |-> Column(row, "favorite") = TRUE, tags |-> TagsByPerformerID(d, row.id),
   scene_count |-> SceneCountByPerformerID(d, row.id), image_count |-> ImageCountByPerformerID(d, row.id),
   gallery_count |-> GalleryCountByPerformerID(d, row.id), scenes |-> ScenesByPerformerID(d, row.id),
   stash_ids |-> GetStashIDs(d, "performer_stash_ids", "performer_id", row.id),
   movies |-> MoviesByPerformerID(d, row.id), movie_count |-> MovieCountByPerformerID(d, row.id)]

StudioFields(d, row) ==
  StudioGetters(row) @@
  [name |-> IF Column(row, "name") = Null THEN Error ELSE row.name,
   image_path |-> HasImage(d, "studios_image", "studio_id", row.id),
   aliases |-> GetAliases(d, "studio_aliases", "studio_id", row.id),
   scene_count |-> SceneCountByStudioID(d, row.id), image_count |-> ImageCountByStudioID(d, row.id),
   gallery_count |-> GalleryCountByStudioID(d, row.id),
   parent_studio |-> Referred(d, row, "parent_id", "studios"), child_studios |-> StudioChildren(d, row.id),
   stash_ids |-> GetStashIDs(d, "studio_stash_ids", "studio_id", row.id),
   movies |-> MoviesByStudioID(d, row.id), movie_count |-> MovieCountByStudioID(d, row.id)]

\* There is a path for a movie's back image only if it has one.
MovieFields(d, row) ==
  MovieGetters(row) @@ MovieDetails(row) @@
  [name |-> IF Column(row, "name") = Null THEN {} ELSE row.name,
   studio |-> Referred(d, row, "studio_id", "studios"),
   back_image_path |->
     \E image \in Rows(d, "movies_images") : image.movie_id = row.id /\ image.back_image # Null,
   scene_count |-> SceneCountByMovieID(d, row.id), scenes |-> ScenesByMovieID(d, row.id)]

TagFields(d, row) ==
  [parents |-> TagsByChildTagID(d, row.id), children |-> TagsByParentTagID(d, row.id),
   aliases |-> GetAliases(d, "tag_aliases", "tag_id", row.id),
   scene_count |-> SceneCountByTagID(d, row.id), scene_marker_count |-> MarkerCountByTagID(d, row.id),
   image_count |-> ImageCountByTagID(d, row.id), gallery_count |-> GalleryCountByTagID(d, row.id),
   performer_count |-> PerformerCountByTagID(d, row.id)]

\* The scene and the primary tag of a marker must not be null in an answer.
MarkerFields(d, row) ==
  LET Required(column, kind) ==
        IF Referred(d, row, column, kind) = Null THEN Error ELSE row[column]
  IN [scene |-> Required("scene_id", "scenes"), primary_tag |-> Required("primary_tag_id", "tags"),
      tags |-> TagsBySceneMarkerID(d, row.id)]

Fields(d, kind, row) ==
  CASE kind = "scenes" -> SceneFields(d, row)
    [] kind = "images" -> ImageFields(d, row)
    [] kind = "galleries" -> GalleryFields(d, row)
    [] kind = "performers" -> PerformerFields(d, row)
    [] kind = "studios" -> StudioFields(d, row)
    [] kind = "movies" -> MovieFields(d, row)
    [] kind = "tags" -> TagFields(d, row)
    [] kind = "scene_markers" -> MarkerFields(d, row)

\* What a field of a name is about, if it is about other objects.
LinkOf(name) ==
  CASE name \in DOMAIN CountOf -> CountOf[name]
    [] name = "scene_markers" -> "markers"
    [] name = "studio" -> "studios"
    [] name = "parent_studio" -> "parents"
    [] name = "child_studios" -> "children"
    [] name = "cover" -> "images"
    [] OTHER -> name

\* The answer that the links of the object call for.  The tags of a marker are those
\* besides its primary tag, which a merge of tags may have put among them though.
AnswersLinks(kind, name, answer, linked, primary) ==
  CASE name \in DOMAIN CountOf -> answer = Cardinality(linked)
    [] name \in {"studio", "parent_studio"} -> {answer} \ {Null} = linked
    [] name = "cover" -> IF linked = {} THEN answer = Null ELSE answer \in linked
    [] <<kind, name>> = <<"scene_markers", "tags">> -> linked = answer \cup primary
    [] OTHER -> answer = linked

FieldMeans(d, kind, row, name, answer) ==
  AnswersLinks(kind, name, answer, LinkedBy(d, kind, LinkOf(name), row.id),
               {m.primary_tag_id : m \in {r \in Rows(d, "scene_markers") : r.id = row.id}})

----------------------------------------------------------------------------
(* Scenes that look alike.  A hash is a set of bits.                       *)

Distance(a, b) == Cardinality((a \ b) \cup (b \ a))

\* Bucket of a scene: it and, one after the other, its neighbours that are in none yet,
\* each with its own neighbours at once.
RECURSIVE FindNeighbors(_, _, _)
FindNeighbors(neighbors, taken, list) ==
  FoldLeft(LAMBDA now, id : IF id \in now THEN now
                            ELSE FindNeighbors(neighbors, now \cup {id}, neighbors[id]),
           taken, list)

FindDuplicatesAmong(scenes, distance) ==
  LET order == SetToSeq(scenes)
      ids == [i \in DOMAIN order |-> order[i].id]
      HashOf(id) == (CHOOSE s \in scenes : s.id = id).phash
      neighbors == [id \in ToSet(ids) |->
        SelectSeq(ids, LAMBDA other : other # id /\ Distance(HashOf(id), HashOf(other)) <= distance)]
      Next(done, id) ==
        IF neighbors[id] = <<>> \/ id \in done.taken THEN done
        ELSE LET now == FindNeighbors(neighbors, done.taken \cup {id}, neighbors[id])
             IN [taken |-> now, buckets |-> done.buckets \cup {now \ done.taken}]
  IN FoldLeft(Next, [taken |-> {}, buckets |-> {}], ids).buckets

\* With a distance of zero, those with the same hash are grouped by the database.
FindDuplicateScenes(d, distance) ==
  LET hashed == {s \in Rows(d, "scenes") : Column(s, "phash") # Null}
      Same(hash) == {s.id : s \in {r \in hashed : r.phash = hash}}
  IN IF distance = 0 THEN {same \in {Same(s.phash) : s \in hashed} : Cardinality(same) > 1}
     ELSE FindDuplicatesAmong(hashed, distance)

\* Nothing in a bucket is like anything outside of it, and no bucket falls apart.
LikenessMeans(d, distance, buckets) ==
  LET hashed == {s \in Rows(d, "scenes") : Column(s, "phash") # Null}
      alike == {<<p[1].id, p[2].id>> : p \in {q \in hashed \X hashed :
                  q[1] # q[2] /\ Distance(q[1].phash, q[2].phash) <= distance}}
  IN /\ UNION buckets = {pair[1] : pair \in alike}
     /\ \A pair \in alike : \A b \in buckets : pair[1] \in b <=> pair[2] \in b
     /\ \A b \in buckets : \A part \in SUBSET b :
          part \notin {{}, b} => \E pair \in alike : pair[1] \in part /\ pair[2] \in b \ part
=============================================================================
