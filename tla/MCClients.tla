----------------------------- MODULE MCClients ------------------------------
(***************************************************************************)
(* Clients for TLC: queries, each alone on databases that hold objects     *)
(* with every combination of links, as an answer depends on an object's    *)
(* own links only, some there twice, and that come in versions, of which a *)
(* user's change mixes two; and a library with a few objects of each kind, linked to     *)
(* each other, with what a client may ask of each kind, twice in a row,    *)
(* some of it refused, one with a query under way.                         *)
(***************************************************************************)
EXTENDS Clients

Versions == 1..2

\* The subset of 1..n that the bits of i name.
Chosen(n, i) == {t \in 1..n : (i \div 2^(t - 1)) % 2 = 1}
TextOf(i) == {IF t = 1 THEN "a" ELSE "b" : t \in Chosen(2, i)}
NullIfZero(i) == IF i = 0 THEN Null ELSE i

\* Every subset of 1..3 is linked to one of the objects 1..8, to another one in every
\* table ("turn" is odd); version 2 has fewer links.  Of every second object one link is
\* there twice.
LinkRows(v, left, right, turn) ==
  LET Links(i) == IF v = 2 THEN {t \in 1..3 : t + i \in {turn, turn + 2}} ELSE Chosen(3, turn * i + v)
      Twice(i) == IF (i + v) % 2 = 0 THEN Links(i) \cap {3 - v} ELSE {}
  IN UNION {{(left :> i) @@ (right :> t) : t \in Links(i)}
            \cup {(left :> i) @@ (right :> t) @@ [copy |-> 1] : t \in Twice(i)} : i \in 1..8}

\* The last object of a kind has no links and is destroyed in version 2.
Objects(v, kind, table) == 1..(IF table = kind /\ v = 2 THEN 8 ELSE 9)

TagsTree == <<{<<1, 2>>, <<2, 3>>}, {<<1, 3>>, <<2, 3>>}>>
StudioTree == <<<<Null, 1, 2>>, <<Null, Null, 1>>>>

Row(v, table, i) ==
  CASE table \in {"scenes", "images", "galleries"} ->
         [id |-> i, title |-> TextOf(i + v), organized |-> i % 2 = 0,
          rating |-> NullIfZero((i + v) % 3), date |-> i % 4, studio_id |-> NullIfZero(i % 4),
          phash |-> NullIfZero((i \div v) % 5), resolution |-> (i * v) % 4]
    [] table = "performers" ->
         [id |-> i, name |-> TextOf(i), aliases |-> TextOf(i + v), favorite |-> i % (v + 1) = 0,
          birthdate |-> i % 3, rating |-> NullIfZero(i % 3)]
    [] table = "studios" ->
         [id |-> i, name |-> TextOf(i), rating |-> NullIfZero(i % 3),
          parent_id |-> IF i <= 3 THEN StudioTree[v][i] ELSE Null]
    [] table = "movies" ->
         [id |-> i, name |-> TextOf(i + v), rating |-> i % 3, studio_id |-> NullIfZero(i % 4)]
    [] table = "tags" -> [id |-> i, name |-> TextOf(i)]
    [] table = "scene_markers" ->
         [id |-> i, scene_id |-> 1 + ((i * v) % 5), primary_tag_id |-> 1 + (i % 3), title |-> TextOf(i)]

TableOf(v, kind, table) ==
  CASE table = "tags_relations" -> {[parent_id |-> l[1], child_id |-> l[2]] : l \in TagsTree[v]}
    [] table = "scenes_tags" -> LinkRows(v, "scene_id", "tag_id", 1)
    [] table = "performers_scenes" -> LinkRows(v, "scene_id", "performer_id", 3)
    [] table = "movies_scenes" -> LinkRows(v, "scene_id", "movie_id", 5)
    [] table = "scenes_galleries" -> LinkRows(v, "scene_id", "gallery_id", 7)
    [] table = "images_tags" -> LinkRows(v, "image_id", "tag_id", 1)
    [] table = "performers_images" -> LinkRows(v, "image_id", "performer_id", 3)
    [] table = "galleries_tags" -> LinkRows(v, "gallery_id", "tag_id", 1)
    [] table = "performers_galleries" -> LinkRows(v, "gallery_id", "performer_id", 3)
    [] table = "galleries_images" -> LinkRows(v, "gallery_id", "image_id", 5)
    [] table = "performers_tags" -> LinkRows(v, "performer_id", "tag_id", 5)
    [] table = "scene_markers_tags" -> LinkRows(v, "scene_marker_id", "tag_id", 3)
    [] table = "studio_aliases" -> {[studio_id |-> i, alias |-> TextOf(i * v)] : i \in 1..5}
    [] table = "tag_aliases" ->
         {[tag_id |-> 1 + (i % (5 - v)), alias |-> TextOf(i)] : i \in 1..4}
    [] OTHER -> {Row(v, table, i) : i \in Objects(v, kind, table)}

----------------------------------------------------------------------------
(* The requests. *)

Ask(kind, levels, search) == [kind |-> kind, levels |-> levels, search |-> search]
Level(criteria, op) == [criteria |-> criteria, op |-> op]
Alone1(kind, name, c) == Ask(kind, <<Level(name :> c, "AND")>>, NoSearch)

Linked(modifier, value) == [modifier |-> modifier, value |-> value]
Rooted(modifier, value, depth) == Linked(modifier, value) @@ [depth |-> depth]

Kinds == {"scenes", "images", "galleries", "performers", "studios", "movies", "tags",
          "scene_markers"}
LinkNames(kind) ==
  CASE kind = "scenes" -> {"performers", "movies"}
    [] kind = "images" -> {"performers", "galleries"}
    [] kind = "galleries" -> {"performers"}
    [] kind = "studios" -> {"parents"}
    [] kind = "movies" -> {"performers"}
    [] kind = "scene_markers" -> {"performers"}
    [] OTHER -> {}
TreeNames(kind) ==
  CASE kind \in {"scenes", "images", "galleries"} -> {"tags", "studios", "performer_tags"}
    [] kind = "performers" -> {"tags", "studios"}
    [] kind = "movies" -> {"studios"}
    [] kind = "tags" -> {"parents", "children"}
    [] kind = "scene_markers" -> {"tags", "scene_tags"}
    [] OTHER -> {}
CountNames(kind) ==
  CASE kind = "scenes" -> {"tag_count", "performer_count"}
    [] kind = "images" -> {"tag_count", "performer_count"}
    [] kind = "galleries" -> {"tag_count", "performer_count", "image_count"}
    [] kind = "performers" -> {"tag_count", "scene_count", "image_count", "gallery_count"}
    [] kind = "studios" -> {"scene_count", "image_count", "gallery_count"}
    [] kind = "tags" -> {"scene_count", "image_count", "gallery_count", "performer_count",
                         "marker_count", "parent_count", "child_count"}
    [] OTHER -> {}
MissingNames(kind) ==
  CASE kind = "scenes" -> {"tags", "performers", "galleries", "movie", "studio"}
    [] kind = "images" -> {"tags", "performers", "galleries", "studio"}
    [] kind = "galleries" -> {"tags", "performers", "scenes", "studio"}
    [] kind = "performers" -> {"scenes"}
    [] kind = "movies" -> {"scenes"}
    [] OTHER -> {}

Including == {"INCLUDES", "INCLUDES_ALL", "EXCLUDES"}
Comparing == {"EQUALS", "NOT_EQUALS", "LESS_THAN", "GREATER_THAN", "BETWEEN", "NOT_BETWEEN"}

LinkRequests ==
  UNION {{Alone1(kind, name, Linked(m, v)) : m \in Including, v \in {{1}, {1, 2}}, name \in LinkNames(kind)}
         \cup {Alone1(kind, name, Rooted(x[1], x[2], x[3])) :
                 x \in {<<m, v, depth>> \in Including \X {{1}, {1, 2}} \X {-1, 0, 1} :
                          v = {1} => m = "INCLUDES"}, name \in TreeNames(kind)}
         \cup {Alone1(kind, name, Linked(m, {})) :
                 m \in NullModifiers, name \in LinkNames(kind) \cup TreeNames(kind)} : kind \in Kinds}
CountRequests ==
  UNION {{Alone1(kind, name, Linked(m, n) @@ [value2 |-> n + 1]) :
            m \in Comparing, n \in 0..1, name \in CountNames(kind)} : kind \in Kinds}
OtherRequests ==
  UNION {{Alone1(kind, "is_missing", what) : what \in MissingNames(kind)} : kind \in Kinds}
  \cup {Alone1(kind, "performer_favorite", b) : kind \in {"scenes", "images", "galleries"}, b \in BOOLEAN}
  \cup {Alone1(kind, "performer_age", Linked(m, n) @@ [value2 |-> n + 1]) :
          kind \in {"scenes", "galleries"}, m \in Comparing, n \in 0..1}
  \cup {Alone1("scenes", name, b) : name \in {"has_markers", "duplicated"}, b \in BOOLEAN}
  \cup {Alone1("scene_markers", "tag_id", t) : t \in 1..2}
  \cup {Alone1(kind, "title", Linked("MATCHES_REGEX", {"("})) : kind \in {"scenes", "images", "galleries"}}

SearchRequests ==
  {Ask(kind, <<Level(<<>>, "AND")>>, search) : kind \in Kinds,
     search \in {[NoSearch EXCEPT !.mustHave = {"a"}], [NoSearch EXCEPT !.mustHave = {"a", "b"}],
                 [NoSearch EXCEPT !.mustNot = {"b"}], [NoSearch EXCEPT !.anySets = {{"a", "b"}}],
                 [mustHave |-> {"a"}, mustNot |-> {"b"}, anySets |-> {}]}}

\* What is combined.
Pool(kind) ==
  CASE kind = "scenes" ->
         <<<<"title", Linked("INCLUDES", {"a"})>>, <<"rating", Linked("GREATER_THAN", 1)>>,
           <<"rating", Linked("IS_NULL", 0)>>,
           <<"organized", TRUE>>, <<"tags", Rooted("INCLUDES", {1}, -1)>>,
           <<"tags", Rooted("INCLUDES_ALL", {1, 2}, 0)>>, <<"performers", Linked("EXCLUDES", {1})>>,
           <<"performers", Linked("INCLUDES", {2})>>, <<"performer_favorite", TRUE>>,
           <<"performer_age", Linked("GREATER_THAN", 0)>>, <<"has_markers", TRUE>>,
           <<"studios", Rooted("INCLUDES", {1}, -1)>>, <<"movies", Linked("INCLUDES", {1})>>,
           <<"performer_tags", Rooted("INCLUDES", {1}, 0)>>, <<"duplicated", TRUE>>,
           <<"tag_count", Linked("EQUALS", 1)>>>>
    [] kind = "galleries" ->
         <<<<"title", Linked("MATCHES_REGEX", {"a"})>>,
           <<"average_resolution", Linked("EQUALS", 1) @@ [value2 |-> 2]>>,
           <<"image_count", Linked("EQUALS", 1)>>, <<"tags", Rooted("EXCLUDES", {1}, 0)>>,
           <<"performer_favorite", FALSE>>>>
    [] kind = "images" ->
         <<<<"rating", Linked("BETWEEN", 1) @@ [value2 |-> 2]>>,
           <<"resolution", Linked("LESS_THAN", 2) @@ [value2 |-> 3]>>,
           <<"galleries", Linked("INCLUDES_ALL", {1, 2})>>,
           <<"title", Linked("NOT_MATCHES_REGEX", {"b"})>>>>
    [] kind = "performers" ->
         <<<<"name", Linked("EQUALS", {"a"})>>, <<"favorite", TRUE>>,
           <<"scene_count", Linked("GREATER_THAN", 1)>>,
           <<"studios", Rooted("INCLUDES", {1}, 0)>>, <<"tags", Rooted("INCLUDES", {1}, 0)>>>>
    [] kind = "studios" ->
         <<<<"name", Linked("EXCLUDES", {"a"})>>, <<"parents", Linked("INCLUDES", {1})>>,
           <<"scene_count", Linked("EQUALS", 1)>>, <<"image_count", Linked("NOT_EQUALS", 1)>>>>
    [] kind = "movies" ->
         <<<<"name", Linked("NOT_EQUALS", {"a"})>>, <<"studios", Rooted("INCLUDES", {1}, 0)>>,
           <<"performers", Linked("INCLUDES_ALL", {1, 2})>>>>
    [] kind = "tags" ->
         <<<<"name", Linked("NOT_NULL", {})>>, <<"parents", Rooted("INCLUDES", {1}, 0)>>,
           <<"children", Rooted("INCLUDES", {3}, 0)>>, <<"scene_count", Linked("GREATER_THAN", 0)>>,
           <<"marker_count", Linked("LESS_THAN", 3)>>>>
    [] kind = "scene_markers" ->
         <<<<"tags", Rooted("INCLUDES", {1}, 0)>>, <<"scene_tags", Rooted("EXCLUDES", {1}, 0)>>,
           <<"performers", Linked("INCLUDES", {1})>>>>

Part(p) == p[1] :> p[2]
CombinedRequests ==
  UNION {LET pool == Pool(kind)
         IN {Ask(kind, <<Level(Part(pool[p[1]]) @@ Part(pool[p[2]]), "AND")>>, NoSearch) :
               p \in {q \in (DOMAIN pool) \X (DOMAIN pool) : pool[q[1]][1] # pool[q[2]][1]}}
            \cup {Ask(kind, <<Level(Part(pool[i]), op), Level(Part(pool[j]), "AND")>>, NoSearch) :
                    i, j \in DOMAIN pool, op \in {"AND", "OR", "NOT"}}
         : kind \in Kinds}

MCRequests == LinkRequests \cup CountRequests \cup OtherRequests \cup SearchRequests
                \cup CombinedRequests

----------------------------------------------------------------------------
(* The databases. *)

Tables ==
  Kinds \cup {"tags_relations", "scenes_tags", "performers_scenes", "movies_scenes",
              "scenes_galleries", "images_tags", "performers_images", "galleries_tags",
              "performers_galleries", "galleries_images", "performers_tags",
              "scene_markers_tags", "studio_aliases", "tag_aliases"}
Store == [kind \in Kinds |-> [v \in Versions |-> [table \in Tables |-> TableOf(v, kind, table)]]]

\* The tables that a request is about, the others are empty.
TablesOf(request) ==
  LET kind == request.kind
      criteria == request.levels[1].criteria
      names == UNION {DOMAIN level.criteria : level \in ToSet(request.levels)}
      links == {CASE n \in DOMAIN CountOf -> CountOf[n]
                  [] n = "is_missing" -> MissingOf[criteria[n]]
                  [] n = "has_markers" -> "markers"
                  [] n \in {"performer_favorite", "performer_age"} -> "performers"
                  [] n = "average_resolution" -> "images"
                  [] n = "tag_id" -> "tags"
                  [] OTHER -> n : n \in names}
      paths == UNION {LinksOf[kind][l] : l \in links \cap DOMAIN LinksOf[kind]}
      targets == {"tags", "performers", "studios", "movies", "galleries"} \cap links
  IN {kind} \cup (IF kind = "scene_markers" THEN {"scenes"} ELSE {}) \cup targets
       \cup UNION {{step[1] : step \in ToSet(path)} : path \in paths}
       \cup (IF links \cap {"tags", "performer_tags", "scene_tags", "parents", "children"} = {}
             THEN {} ELSE {"tags", "tags_relations"})
       \cup (IF request.search = NoSearch \/ kind \notin {"scenes", "studios", "tags", "scene_markers"}
             THEN {}
             ELSE CASE kind = "studios" -> {"studio_aliases"}
                    [] kind = "tags" -> {"tag_aliases"}
                    [] OTHER -> {"scenes", "scene_markers"})
       \cup (IF links \cap {"average_resolution", "images"} = {} THEN {} ELSE {"images"})

\* What is combined or compared is asked of one database, but for EQUALS; everything
\* else of those of both versions.
VersionsFor(request) ==
  LET given == {l.criteria : l \in ToSet(request.levels)}
  IN IF Len(request.levels) = 2 \/ (\E c \in given : Cardinality(DOMAIN c) = 2)
        \/ \E c \in given : \E name \in DOMAIN c \cap DOMAIN CountOf : c[name].modifier # "EQUALS"
     THEN {1} ELSE Versions

MCDatabasesFor(request) ==
  {[table \in TablesOf(request) |-> Store[request.kind][v][table]] : v \in VersionsFor(request)}

----------------------------------------------------------------------------
A == {"a"}
B == {"b"}
C == {"a", "b"}

LinkTable(left, right, pairs) == {(left :> p[1]) @@ (right :> p[2]) : p \in pairs}

MCLibrary ==
  [scenes |-> {[id |-> i, title |-> A, organized |-> FALSE, studio_id |-> i, o_counter |-> 2 - i] : i \in 1..2},
   images |-> {[id |-> i, title |-> B, path |-> 3 - i, organized |-> FALSE, studio_id |-> 2, o_counter |-> i - 1] : i \in 1..3},
   galleries |->
     {[id |-> 1, title |-> A, checksum |-> A, path |-> Null, zip |-> FALSE, organized |-> FALSE, studio_id |-> 1],
      [id |-> 2, title |-> B, checksum |-> C, path |-> "zip", zip |-> TRUE, organized |-> FALSE, studio_id |-> Null],
      [id |-> 3, title |-> Null, checksum |-> {"c"}, path |-> "folder", zip |-> FALSE, organized |-> TRUE,
       studio_id |-> Null]},
   performers |-> {[id |-> 1, name |-> A, favorite |-> TRUE, birthdate |-> 1, death_date |-> Null],
                   [id |-> 2, name |-> B, favorite |-> FALSE, birthdate |-> Null, death_date |-> 2]},
   studios |-> {[id |-> 1, name |-> A, parent_id |-> Null], [id |-> 2, name |-> B, parent_id |-> 1],
                [id |-> 3, name |-> C, parent_id |-> 2]},
   movies |-> {[id |-> 1, name |-> A, studio_id |-> 1], [id |-> 2, name |-> B, studio_id |-> Null]},
   tags |-> {[id |-> 1, name |-> A], [id |-> 2, name |-> B], [id |-> 3, name |-> C]},
   scene_markers |->
     {[id |-> 1, title |-> A, seconds |-> 1, primary_tag_id |-> 1, scene_id |-> 1, created_at |-> 1],
      [id |-> 2, title |-> A, seconds |-> 2, primary_tag_id |-> 2, scene_id |-> Null, created_at |-> 1]},
   saved_filters |-> {[id |-> 1, mode |-> "SCENES", name |-> A, filter |-> 1],
                      [id |-> 2, mode |-> "SCENES", name |-> {}, filter |-> 2]},
   performers_scenes |-> LinkTable("performer_id", "scene_id", {<<1, 1>>, <<1, 2>>, <<2, 2>>}),
   scenes_tags |-> LinkTable("scene_id", "tag_id", {<<1, 1>>, <<1, 2>>, <<2, 3>>}),
   scenes_galleries |-> LinkTable("scene_id", "gallery_id", {<<1, 1>>, <<2, 1>>}),
   scenes_cover |-> {[scene_id |-> 1, cover |-> "jpg"]},
   scene_stash_ids |-> {[scene_id |-> 1, stash_id |-> 7]},
   movies_scenes |-> {[movie_id |-> 1, scene_id |-> 1, scene_index |-> 4],
                      [movie_id |-> 1, scene_id |-> 2, scene_index |-> Null]},
   images_tags |-> LinkTable("image_id", "tag_id", {<<1, 1>>, <<2, 1>>}),
   performers_images |-> LinkTable("performer_id", "image_id", {<<1, 1>>, <<2, 3>>}),
   galleries_images |-> LinkTable("gallery_id", "image_id", {<<2, 1>>, <<3, 2>>, <<3, 3>>, <<1, 3>>}),
   galleries_tags |-> LinkTable("gallery_id", "tag_id", {<<1, 2>>, <<3, 1>>}),
   performers_galleries |-> LinkTable("performer_id", "gallery_id", {<<1, 1>>, <<1, 2>>}),
   performers_tags |-> LinkTable("performer_id", "tag_id", {<<1, 1>>, <<1, 2>>, <<2, 2>>}),
   performers_image |-> {[performer_id |-> 1, image |-> "jpg"]},
   movies_images |-> {[movie_id |-> 1, front_image |-> "jpg", back_image |-> "jpg"]},
   scene_markers_tags |-> LinkTable("scene_marker_id", "tag_id", {<<1, 2>>, <<2, 3>>}),
   studio_aliases |-> {[studio_id |-> 1, alias |-> {"c"}]},
   tag_aliases |-> {[tag_id |-> 1, alias |-> {"c"}], [tag_id |-> 2, alias |-> {"d"}]},
   tags_relations |-> LinkTable("parent_id", "child_id", {<<1, 2>>, <<2, 3>>})]

----------------------------------------------------------------------------
(* Requests. *)

Mutation(op, kind, these, fields) == [op |-> op, kind |-> kind, ids |-> these, fields |-> fields]
Adjust(mode, these) == [mode |-> mode, ids |-> these]
Modes == {"SET", "ADD", "REMOVE"}
On(name, ones) == {name :> v : v \in ones}
Two == {<<1, 2>>, <<2, 1>>}

Edits(op, kind, fields) == {Mutation(op, kind, <<id>>, f) : id \in 1..2, f \in fields}
Bulks(op, kind, fields) == {Mutation(op, kind, <<1, 2>>, f) : f \in fields}
Several(op, kind, f, g) == {Mutation(op, kind, <<1, 2>>, <<>>) @@ [each |-> <<f, g>>]}
Destroy(op, kind, lists) == {Mutation(op, kind, l, <<>>) : l \in lists}
Adjustments(names) == UNION {On(n, {Adjust(m, <<2>>) : m \in Modes} \cup {Null}) : n \in names}

MediaFields ==
  {[title |-> B, studio_id |-> 2, organized |-> TRUE], [organized |-> Null, rating |-> 3]}
  \cup On("studio_id", {Null, 9}) \cup On("performer_ids", {<<>>, <<2, 2>>, <<9>>}) \cup On("tag_ids", {Null, <<2, 3>>})

SceneRequests ==
  Edits("SceneUpdate", "scenes",
        MediaFields \cup {[gallery_ids |-> <<2>>, stash_ids |-> <<8, 8>>], [cover_image |-> Null], [cover_image |-> "png"],
                          [movies |-> <<[movie_id |-> 2, scene_index |-> 1]>>], [movies |-> Null]})
  \cup Several("ScenesUpdate", "scenes", [title |-> C], [tag_ids |-> <<>>])
  \cup Bulks("BulkSceneUpdate", "scenes",
             {[rating |-> 1, studio_id |-> Null]}
             \cup Adjustments({"performer_ids", "tag_ids", "gallery_ids", "movie_ids"})
             \cup On("movie_ids", {Adjust("REMOVE", <<1>>), Adjust("SET", <<2, 2>>)}))
  \cup Destroy("ScenesDestroy", "scenes", Two \cup {<<1>>, <<2>>})
  \cup Edits("SceneIncrementO", "scenes", {<<>>}) \cup Edits("SceneDecrementO", "scenes", {<<>>})
  \cup Edits("SceneResetO", "scenes", {<<>>})

Marker(scene, primary, tags) ==
  [title |-> B, seconds |-> 3, scene_id |-> scene, primary_tag_id |-> primary, tag_ids |-> tags]
MarkerRequests ==
  {Mutation("SceneMarkerCreate", "scene_markers", <<>>, Marker(s, p, t)) :
     s \in 0..2, p \in {1, 9}, t \in {<<>>, <<2, 1, 2>>}}
  \cup Edits("SceneMarkerUpdate", "scene_markers", {Marker(s, 2, t) : s \in {0, 2}, t \in {<<2>>, <<1, 2, 3>>}})
  \cup Destroy("SceneMarkerDestroy", "scene_markers", {<<1>>, <<2>>, <<3>>})
  \cup Destroy("ScenesDestroy", "scenes", Two \cup {<<1>>})

ImageRequests ==
  Edits("ImageUpdate", "images", MediaFields \cup {[gallery_ids |-> <<1, 2>>]})
  \cup Several("ImagesUpdate", "images", [title |-> C], [gallery_ids |-> <<>>])
  \cup Bulks("BulkImageUpdate", "images", {[rating |-> 1]} \cup Adjustments({"gallery_ids", "performer_ids", "tag_ids"}))
  \cup Destroy("ImagesDestroy", "images", Two \cup {<<1>>, <<3>>, <<1, 1>>})
  \cup Edits("ImageIncrementO", "images", {<<>>}) \cup Edits("ImageDecrementO", "images", {<<>>})
  \cup Edits("ImageResetO", "images", {<<>>})

GalleryRequests ==
  {Mutation("GalleryCreate", "galleries", <<>>, [title |-> t, tag_ids |-> <<1>>, scene_ids |-> <<2>>]) : t \in {{}, A, B}}
  \cup {Mutation("GalleryUpdate", "galleries", <<id>>, f) : id \in 1..4,
          f \in {[title |-> {}], [title |-> B], [title |-> Null, rating |-> 2],
                 [studio_id |-> 2, performer_ids |-> <<2>>, tag_ids |-> <<>>, scene_ids |-> <<2, 2>>]}}
  \cup Several("GalleriesUpdate", "galleries", [title |-> {"e"}], [title |-> A, organized |-> TRUE])
  \cup Bulks("BulkGalleryUpdate", "galleries", {[details |-> A]} \cup Adjustments({"performer_ids", "scene_ids"}))
  \cup {Mutation("GalleryDestroy", "galleries", l, <<>>) @@ [deleteFile |-> b] :
          l \in {<<1>>, <<2>>, <<3>>, <<1, 3>>, <<3, 1>>}, b \in BOOLEAN}
  \cup {Mutation(op, "galleries", <<id>>, [image_ids |-> <<1, 3, 1>>]) :
          op \in {"AddGalleryImages", "RemoveGalleryImages"}, id \in 1..3}

Dates == {[birthdate |-> 3], [death_date |-> 0], [death_date |-> 1], [death_date |-> Null],
          [birthdate |-> 2, death_date |-> 1], [birthdate |-> Null, death_date |-> 3], [birthdate |-> 0]}
PerformerRequests ==
  {Mutation("PerformerCreate", "performers", <<>>, f @@ [name |-> n]) : n \in {A, C},
     f \in {<<>>, [birthdate |-> 2, death_date |-> 1], [image |-> "png", tag_ids |-> <<1, 2>>, stash_ids |-> <<7>>]}}
  \cup Edits("PerformerUpdate", "performers",
             Dates \cup {[name |-> C, favorite |-> Null], [name |-> B], [image |-> Null], [image |-> "png"],
                         [tag_ids |-> <<2, 3, 2>>, stash_ids |-> <<7>>]})
  \cup Bulks("BulkPerformerUpdate", "performers", Dates \cup Adjustments({"tag_ids"}))
  \cup Destroy("PerformersDestroy", "performers", Two \cup {<<1>>, <<3>>})

StudioRequests ==
  {Mutation("StudioCreate", "studios", <<>>, f @@ [name |-> n]) : n \in {A, {"c"}},
     f \in {<<>>, [parent_id |-> 3], [aliases |-> <<B>>], [aliases |-> <<{"d"}>>, stash_ids |-> <<1>>]}}
  \cup Edits("StudioUpdate", "studios",
             On("parent_id", {Null, 1, 2, 3, 4, 9}) \cup On("aliases", {<<>>, <<{"c"}>>, <<{"d"}, {"d"}>>, <<{"d"}>>, <<A>>})
             \cup {[name |-> C], [name |-> {"d"}, image |-> "png"], [stash_ids |-> <<2>>, url |-> A]})
  \cup Destroy("StudiosDestroy", "studios", Two \cup {<<1>>, <<3>>, <<4>>})

ImagePairs == {[front_image |-> f, back_image |-> b] : f, b \in {Null, "png"}}
MovieRequests ==
  {Mutation("MovieCreate", "movies", <<>>, [name |-> n] @@ f) : n \in {A, C}, f \in ImagePairs}
  \cup Edits("MovieUpdate", "movies",
             ImagePairs \cup On("front_image", {Null, "png"}) \cup On("back_image", {Null, "png"})
             \cup {[name |-> C, studio_id |-> 2], [name |-> Null, director |-> A]})
  \cup Bulks("BulkMovieUpdate", "movies", {[rating |-> 2, studio_id |-> Null], [director |-> Null]})
  \cup Destroy("MoviesDestroy", "movies", Two \cup {<<1>>, <<3>>})

TagRequests ==
  {Mutation("TagCreate", "tags", <<>>, f @@ [name |-> n]) : n \in {{"c"}, {"e"}},
     f \in {<<>>, [aliases |-> <<B>>], [aliases |-> <<{"f"}>>, image |-> "png"],
            [parent_ids |-> <<3>>, child_ids |-> <<1>>], [parent_ids |-> <<1>>, child_ids |-> <<3>>]}}
  \cup {Mutation("TagUpdate", "tags", <<id>>, f) : id \in {1, 3, 4},
          f \in On("name", {A, {"c"}, {"e"}}) \cup On("aliases", {<<>>, <<B>>, <<{"c"}>>, <<{"f"}>>, Null})
                \cup On("parent_ids", {<<>>, <<1>>, <<2>>, <<3>>, <<1, 1>>}) \cup On("child_ids", {<<>>, <<1>>, <<4>>})
                \cup {[image |-> Null], [image |-> "png"]}}
  \cup Destroy("TagsDestroy", "tags", {<<1>>, <<2>>, <<3>>, <<1, 3>>})
  \cup {Mutation("TagsMerge", "tags", l, <<>>) @@ [into |-> t] : l \in {<<1>>, <<2>>, <<1, 2>>, <<3, 2>>}, t \in 1..4}

\* What is tagged with both of two tags that are merged, and then edited.
MergedRequests ==
  {Mutation("TagsMerge", "tags", l, <<>>) @@ [into |-> 3] : l \in {<<1, 2>>, <<2, 1>>}}
  \cup UNION {Bulks(b[1], b[2], On("tag_ids", {Adjust(m, l) : m \in Modes, l \in {<<3>>, <<3, 3>>}})) :
                b \in {<<"BulkSceneUpdate", "scenes">>, <<"BulkImageUpdate", "images">>,
                      <<"BulkGalleryUpdate", "galleries">>, <<"BulkPerformerUpdate", "performers">>}}
  \cup {Mutation("SceneMarkerUpdate", "scene_markers", <<1>>, Marker(1, 3, <<3, 2, 3>>)),
        Mutation("SceneMarkerUpdate", "scene_markers", <<1>>, Marker(1, 1, <<3, 2, 3>>)),
        Mutation("SceneUpdate", "scenes", <<1>>, [tag_ids |-> <<1, 2, 2, 1>>]),
        Mutation("TagUpdate", "tags", <<3>>, [parent_ids |-> <<1>>])}
  \cup Destroy("TagsDestroy", "tags", {<<3>>}) \cup Destroy("ScenesDestroy", "scenes", {<<1>>})

FilterRequests ==
  {Mutation("SaveFilter", "saved_filters", chosen, [mode |-> "SCENES", name |-> n, filter |-> 3]) :
     chosen \in {<<>>, <<1>>, <<2>>, <<9>>}, n \in {{}, A, B}}
  \cup Destroy("DestroySavedFilter", "saved_filters", {<<1>>, <<2>>, <<9>>})
  \cup {Mutation("SetDefaultFilter", "saved_filters", <<>>, [mode |-> mode, filter |-> f]) :
          mode \in {"SCENES", "TAGS"}, f \in {Null, 4}}

\* Requests that change what one may be reading.
WhileRead ==
  Bulks("BulkSceneUpdate", "scenes", {[studio_id |-> 2], [movie_ids |-> Adjust("SET", <<2>>)],
                                      [performer_ids |-> Adjust("REMOVE", <<1>>)], [tag_ids |-> Adjust("ADD", <<3>>)]})
  \cup Bulks("BulkImageUpdate", "images", {[gallery_ids |-> Adjust("REMOVE", <<3>>)]})
  \cup {Mutation("SceneMarkerUpdate", "scene_markers", <<1>>, Marker(2, 2, <<1>>))}
  \cup Destroy("ScenesDestroy", "scenes", {<<1>>}) \cup Destroy("StudiosDestroy", "studios", {<<1>>})
  \cup Destroy("MoviesDestroy", "movies", {<<1>>}) \cup Destroy("TagsDestroy", "tags", {<<1>>})
  \cup {Mutation("StudioUpdate", "studios", <<2>>, [parent_id |-> 3])}
  \cup {Mutation("TagsMerge", "tags", <<2>>, <<>>) @@ [into |-> 1]}

Readings ==
  ({"scenes"} \X {1} \X {"studio", "movies", "scene_marker_tags", "tags", "performers", "galleries"})
  \cup ({"scene_markers"} \X (1..2) \X {"scene", "primary_tag", "tags"})
  \cup {<<"studios", 2, "parent_studio">>, <<"studios", 1, "scene_count">>, <<"galleries", 3, "cover">>,
        <<"performers", 1, "movie_count">>, <<"tags", 1, "scene_marker_count">>, <<"tags", 1, "image_count">>}

\* Requests that change what one may be querying.
WhileQueried ==
  Bulks("BulkSceneUpdate", "scenes", {[tag_ids |-> Adjust("SET", <<2>>)]})
  \cup Destroy("ScenesDestroy", "scenes", {<<1>>}) \cup Destroy("PerformersDestroy", "performers", {<<1>>})
  \cup {Mutation("TagUpdate", "tags", <<3>>, [parent_ids |-> <<1>>]),
        Mutation("TagsMerge", "tags", <<2>>, <<>>) @@ [into |-> 1]}

\* Requests that change how many tags something has.
WhileCounted ==
  {Mutation("TagsMerge", "tags", <<1, 2>>, <<>>) @@ [into |-> 3]}
  \cup Bulks("BulkSceneUpdate", "scenes", On("tag_ids", {Adjust(m, <<3>>) : m \in Modes}))
  \cup Destroy("ScenesDestroy", "scenes", {<<1>>})

Session(lib, asks, reads) == [library |-> lib, requests |-> asks, readings |-> reads]

\* Libraries of four scenes that look more or less alike.
Hashes == {{}, {1}, {1, 2}, {1, 2, 3}, Null}
Alike ==
  {Session([scenes |-> {[id |-> i, phash |-> hash[i]] : i \in 1..4}], {}, {}) : hash \in [1..4 -> Hashes]}

MCSessions ==
  {Session(MCLibrary, asks, {}) :
     asks \in {SceneRequests, MarkerRequests, ImageRequests, GalleryRequests, PerformerRequests,
               StudioRequests, MovieRequests, TagRequests, MergedRequests, FilterRequests}}
  \cup {Session(MCLibrary, WhileRead, Readings), Session(MCLibrary, WhileQueried, {}), Session(MCLibrary, WhileCounted, {})}
  \cup Alike

----------------------------------------------------------------------------
QueriesMeanwhile ==
  {Alone1("scenes", "tags", Rooted("INCLUDES", {1}, -1)),
   Alone1("scenes", "performer_tags", Rooted("INCLUDES", {2}, 0)),
   Alone1("tags", "scene_count", Linked("EQUALS", 1)),
   Alone1("performers", "scene_count", Linked("GREATER_THAN", 1)),
   Ask("tags", <<Level(<<>>, "AND")>>, [NoSearch EXCEPT !.mustHave = {"a"}])}

MCQueriesFor(asks) ==
  CASE asks = WhileQueried -> QueriesMeanwhile
    [] asks = WhileCounted -> {Alone1("scenes", "tag_count", Linked("EQUALS", n)) : n \in 1..2}
    [] OTHER -> {}
=============================================================================
