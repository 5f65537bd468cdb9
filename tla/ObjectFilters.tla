--------------------------- MODULE ObjectFilters ---------------------------
(***************************************************************************)
(* The filters of the library's kinds of objects: which criteria each has, *)
(* in the order of its makeFilter, and what their handlers add.  A handler *)
(* gets the criterion and two databases: "read", which getHierarchicalVal- *)
(* ues reads while the filter is made, and "db", which the query itself    *)
(* reads afterwards.                                                       *)
(*                                                                         *)
(* Dates are years, 0 the date that stands for none; width and height are  *)
(* one number, and a resolution is the range value..value2 of it.          *)
(***************************************************************************)
EXTENDS Filters

\* A table that a database lacks is empty.
Rows(db, table) == IF table \in DOMAIN db THEN db[table] ELSE {}
Table(db, table) == [name |-> table, rows |-> Rows(db, table)]
Ids(db, table) == {row.id : row \in Rows(db, table)}
IdOf(table) == <<table, "id">>

\* What the handler of a criterion adds, if the filter has that.
Given(f, name, handled) == IF name \in DOMAIN f THEN handled ELSE Nothing

\* Criteria on columns of the table itself, which join nothing.
TextColumns(table, names, f) ==
  LET given == SetToSeq(names \cap DOMAIN f)
  IN Handled([i \in DOMAIN given |-> StringHandler(<<table, given[i]>>, f[given[i]])])
NumberColumns(table, names, f) ==
  LET given == SetToSeq(names \cap DOMAIN f)
  IN Handled([i \in DOMAIN given |-> IntHandler(<<table, given[i]>>, f[given[i]])])
FlagColumns(table, names, f) ==
  LET given == SetToSeq(names \cap DOMAIN f)
  IN Handled([i \in DOMAIN given |-> BoolHandler(<<table, given[i]>>, f[given[i]])])

TagLinks(db) == {<<row.parent_id, row.child_id>> : row \in Rows(db, "tags_relations")}
StudioLinks(db) ==
  {<<row.parent_id, row.id>> : row \in {r \in Rows(db, "studios") : Column(r, "parent_id") # Null}}
TagValues(read, c) == HierarchicalValues(Ids(read, "tags"), TagLinks(read), c)
StudioValues(read, c) == HierarchicalValues(Ids(read, "studios"), StudioLinks(read), c)

\* The rows of a join table, joined by the id of the primary table.
LinkJoin(as, db, joinTable, primaryFK, table) ==
  LeftJoin(as, Rows(db, joinTable), primaryFK, IdOf(table))

----------------------------------------------------------------------------
(* What scenes, images and galleries have in common: their handlers differ *)
(* in the names of tables only, m = [table, fk, tagsAs, tags, performers]. *)

TagsHandler(m, c, read, db) ==
  JoinedHierarchicalHandler(LinkJoin(m.tagsAs, db, m.tags, m.fk, m.table),
                            "tag_id", TagValues(read, c), c)

PerformersHandler(m, c, db) ==
  JoinedMultiHandler(IdOf(m.table), LinkJoin("performers_join", db, m.performers, m.fk, m.table),
                     m.fk, "performer_id", c)

StudiosHandler(table, c, read) ==
  HierarchicalHandler(<<table, "studio_id">>, "studio", StudioValues(read, c), c)

\* Which roots the performers (or whatever tagFK names) of a row are tagged below.
RootsOf(links, fk, tagLinks, tagFK, values) ==
  UNION {{(fk :> Column(link, fk)) @@ [root_tag_id |-> value.root_id] :
             value \in {v \in values : \E t \in tagLinks :
                          Column(t, tagFK) = Column(link, tagFK) /\ t.tag_id = v.item_id}}
         : link \in links}

PerformerTagsHandler(m, c, read, db) ==
  LET roots == RootsOf(Rows(db, m.performers), m.fk, Rows(db, "performers_tags"),
                       "performer_id", TagValues(read, c))
  IN CASE c.modifier \in NullModifiers ->
            Joined(<<LinkJoin(m.performers, db, m.performers, m.fk, m.table),
                     LeftJoin("performers_tags", Rows(db, "performers_tags"), "performer_id",
                              <<m.performers, "performer_id">>)>>,
                   <<<<NullTest(<<"performers_tags", "tag_id">>, c)>>>>)
       [] c.modifier \notin NullModifiers /\ c.value = {} -> Nothing
       [] OTHER ->
            Handle(Joined(<<WithJoin("performer_tags", roots, m.fk, IdOf(m.table))>>, <<>>),
                   HierarchicalClauses(<<"performer_tags", "root_tag_id">>, c))

FavoriteIn(db, link) ==
  \E p \in Rows(db, "performers") : p.id = link.performer_id /\ p.favorite

PerformerFavoriteHandler(m, favorite, db) ==
  LET links == Rows(db, m.performers)
      join == LinkJoin(m.performers, db, m.performers, m.fk, m.table)
      linked == {Column(link, m.fk) : link \in links}
      faved == {Column(link, m.fk) : link \in {l \in links : FavoriteIn(db, l)}}
  IN IF favorite
     THEN Joined(<<join, LeftJoin("performers", Rows(db, "performers"), "id",
                                  <<m.performers, "performer_id">>)>>,
                 <<<<IsIn(<<"performers", "favorite">>, {TRUE})>>>>)
     ELSE Joined(<<join, LeftJoin("nofaves", {[id |-> x] : x \in linked \ faved}, "id",
                                  IdOf(m.table))>>,
                 <<<<IsNull(<<m.performers, m.fk>>), NotNull(<<"nofaves", "id">>)>>>>)

PerformerAgeHandler(m, c, db) ==
  LET date == <<m.table, "date">>
      birth == <<"performers", "birthdate">>
      Known(ref) == <<Test(ref, {0}, FALSE, Fails)>>
  IN Joined(<<InnerJoin(m.performers, Rows(db, m.performers), m.fk, IdOf(m.table)),
              InnerJoin("performers", Rows(db, "performers"), "id",
                        <<m.performers, "performer_id">>)>>,
            <<Known(date), Known(birth), <<IntTest(date \o birth, c)>>>>)

\* A resolution is compared by its bounds.
ResolutionRange(c) ==
  IntRange(CASE c.modifier = "EQUALS" -> [c EXCEPT !.modifier = "BETWEEN"]
             [] c.modifier = "NOT_EQUALS" -> [c EXCEPT !.modifier = "NOT_BETWEEN"]
             [] c.modifier = "LESS_THAN" -> c
             [] c.modifier = "GREATER_THAN" -> [c EXCEPT !.value = c.value2])
ResolutionHandler(ref, c) == Where(<<<<RangeTest(ref, ResolutionRange(c))>>>>)

\* What is missing: a column, or a row of a table that refers to the object.
MissingText(table, column) == Where(<<<<Test(<<table, column>>, {{}}, TRUE, Holds)>>>>)
MissingDate(table) == Where(<<<<Test(<<table, "date">>, {0}, TRUE, Holds)>>>>)
MissingLink(join, column) == Joined(<<join>>, <<<<IsNull(<<join.as, column>>)>>>>)

StashIDHandler(join, c) ==
  Handle(Joined(<<join>>, <<>>), StringHandler(<<join.as, "stash_id">>, c))

LinksHandler(table, db, joinTable, primaryFK, c) ==
  CountHandler(Table(db, table), Rows(db, joinTable), primaryFK, c)

----------------------------------------------------------------------------
(* Scenes. *)

SceneTables == [table |-> "scenes", fk |-> "scene_id", tagsAs |-> "scene_tag",
                tags |-> "scenes_tags", performers |-> "performers_scenes"]
SceneLink(as, db, joinTable) == LinkJoin(as, db, joinTable, "scene_id", "scenes")

SceneHasMarkers(wanted, read, db) ==
  LET join == SceneLink("scene_markers", db, "scene_markers")
  IN IF wanted THEN Grouped(<<join>>, Count(<<"scene_markers", "scene_id">>,
                                            [low |-> 1, high |-> Most, in |-> TRUE]))
     ELSE MissingLink(join, "id")

SceneIsMissing(what, read, db) ==
  CASE what = "galleries" -> MissingLink(SceneLink("galleries_join", db, "scenes_galleries"), "scene_id")
    [] what = "studio" -> Where(<<<<IsNull(<<"scenes", "studio_id">>)>>>>)
    [] what = "movie" -> MissingLink(SceneLink("movies_join", db, "movies_scenes"), "scene_id")
    [] what = "performers" -> MissingLink(SceneLink("performers_join", db, "performers_scenes"), "scene_id")
    [] what = "date" -> MissingDate("scenes")
    [] what = "tags" -> MissingLink(SceneLink("tags_join", db, "scenes_tags"), "scene_id")
    [] what = "stash_id" -> MissingLink(SceneLink("scene_stash_ids", db, "scene_stash_ids"), "scene_id")
    [] what \in {"title", "details", "url"} -> MissingText("scenes", what)

SceneStashID(c, read, db) == StashIDHandler(SceneLink("scene_stash_ids", db, "scene_stash_ids"), c)
SceneCaption(c, read, db) ==
  StringListHandler(SceneLink("scene_captions", db, "scene_captions"), "language_code", c)
SceneTags(c, read, db) == TagsHandler(SceneTables, c, read, db)
SceneTagCount(c, read, db) == LinksHandler("scenes", db, "scenes_tags", "scene_id", c)
ScenePerformers(c, read, db) == PerformersHandler(SceneTables, c, db)
ScenePerformerCount(c, read, db) == LinksHandler("scenes", db, "performers_scenes", "scene_id", c)
SceneStudio(c, read, db) == StudiosHandler("scenes", c, read)
ScenePerformerTags(c, read, db) == PerformerTagsHandler(SceneTables, c, read, db)
ScenePerformerFavorite(c, read, db) == PerformerFavoriteHandler(SceneTables, c, db)
ScenePerformerAge(c, read, db) == PerformerAgeHandler(SceneTables, c, db)

SceneMovies(c, read, db) ==
  MultiHandler(IdOf("scenes"),
               <<SceneLink("movies_scenes", db, "movies_scenes"),
                 LeftJoin("movies", Rows(db, "movies"), "id", <<"movies_scenes", "movie_id">>)>>,
               "scene_id", "movie_id", c)

ScenePhashDuplicated(duplicated, read, db) ==
  LET hashed == {row \in Rows(db, "scenes") : Column(row, "phash") # Null}
      Copies(row) == Cardinality({r \in hashed : r.phash = row.phash})
      found == {row \in hashed : IF duplicated THEN Copies(row) > 1 ELSE Copies(row) = 1}
  IN Joined(<<InnerJoin("scph", found, "id", IdOf("scenes"))>>, <<>>)

SceneFilter(f, read, db) ==
  LET With(name, handled) == Given(f, name, handled)
  IN Handled(<<
    TextColumns("scenes", {"path", "title", "details", "oshash", "checksum", "url"}, f),
    NumberColumns("scenes", {"phash", "rating", "o_counter", "duration", "interactive_speed"}, f),
    FlagColumns("scenes", {"organized", "interactive"}, f),
    With("resolution", ResolutionHandler(<<"scenes", "resolution">>, f.resolution)),
    With("has_markers", SceneHasMarkers(f.has_markers, read, db)),
    With("is_missing", SceneIsMissing(f.is_missing, read, db)),
    With("stash_id", SceneStashID(f.stash_id, read, db)),
    With("captions", SceneCaption(f.captions, read, db)),
    With("tags", SceneTags(f.tags, read, db)),
    With("tag_count", SceneTagCount(f.tag_count, read, db)),
    With("performers", ScenePerformers(f.performers, read, db)),
    With("performer_count", ScenePerformerCount(f.performer_count, read, db)),
    With("studios", SceneStudio(f.studios, read, db)),
    With("movies", SceneMovies(f.movies, read, db)),
    With("performer_tags", ScenePerformerTags(f.performer_tags, read, db)),
    With("performer_favorite", ScenePerformerFavorite(f.performer_favorite, read, db)),
    With("performer_age", ScenePerformerAge(f.performer_age, read, db)),
    With("duplicated", ScenePhashDuplicated(f.duplicated, read, db))>>)

----------------------------------------------------------------------------
(* Images. *)

ImageTables == [table |-> "images", fk |-> "image_id", tagsAs |-> "image_tag",
                tags |-> "images_tags", performers |-> "performers_images"]
ImageLink(as, db, joinTable) == LinkJoin(as, db, joinTable, "image_id", "images")

ImageIsMissing(what, read, db) ==
  CASE what = "studio" -> Where(<<<<IsNull(<<"images", "studio_id">>)>>>>)
    [] what = "performers" -> MissingLink(ImageLink("performers_join", db, "performers_images"), "image_id")
    [] what = "galleries" -> MissingLink(ImageLink("galleries_join", db, "galleries_images"), "image_id")
    [] what = "tags" -> MissingLink(ImageLink("tags_join", db, "images_tags"), "image_id")
    [] what = "title" -> MissingText("images", what)

ImageTags(c, read, db) == TagsHandler(ImageTables, c, read, db)
ImageTagCount(c, read, db) == LinksHandler("images", db, "images_tags", "image_id", c)
ImagePerformers(c, read, db) == PerformersHandler(ImageTables, c, db)
ImagePerformerCount(c, read, db) == LinksHandler("images", db, "performers_images", "image_id", c)
ImageStudio(c, read, db) == StudiosHandler("images", c, read)
ImagePerformerTags(c, read, db) == PerformerTagsHandler(ImageTables, c, read, db)
ImagePerformerFavorite(c, read, db) == PerformerFavoriteHandler(ImageTables, c, db)

ImageGalleries(c, read, db) ==
  MultiHandler(IdOf("images"),
               <<ImageLink("galleries_images", db, "galleries_images"),
                 LeftJoin("galleries", Rows(db, "galleries"), "id",
                          <<"galleries_images", "gallery_id">>)>>,
               "image_id", "gallery_id", c)

ImageFilter(f, read, db) ==
  LET With(name, handled) == Given(f, name, handled)
  IN Handled(<<
    TextColumns("images", {"checksum", "title", "path"}, f),
    NumberColumns("images", {"rating", "o_counter"}, f),
    FlagColumns("images", {"organized"}, f),
    With("resolution", ResolutionHandler(<<"images", "resolution">>, f.resolution)),
    With("is_missing", ImageIsMissing(f.is_missing, read, db)),
    With("tags", ImageTags(f.tags, read, db)),
    With("tag_count", ImageTagCount(f.tag_count, read, db)),
    With("galleries", ImageGalleries(f.galleries, read, db)),
    With("performers", ImagePerformers(f.performers, read, db)),
    With("performer_count", ImagePerformerCount(f.performer_count, read, db)),
    With("studios", ImageStudio(f.studios, read, db)),
    With("performer_tags", ImagePerformerTags(f.performer_tags, read, db)),
    With("performer_favorite", ImagePerformerFavorite(f.performer_favorite, read, db))>>)

----------------------------------------------------------------------------
(* Galleries. *)

GalleryTables == [table |-> "galleries", fk |-> "gallery_id", tagsAs |-> "image_tag",
                  tags |-> "galleries_tags", performers |-> "performers_galleries"]
GalleryLink(as, db, joinTable) == LinkJoin(as, db, joinTable, "gallery_id", "galleries")

GalleryIsMissing(what, read, db) ==
  CASE what = "scenes" -> MissingLink(GalleryLink("scenes_join", db, "scenes_galleries"), "gallery_id")
    [] what = "studio" -> Where(<<<<IsNull(<<"galleries", "studio_id">>)>>>>)
    [] what = "performers" -> MissingLink(GalleryLink("performers_join", db, "performers_galleries"), "gallery_id")
    [] what = "date" -> MissingDate("galleries")
    [] what = "tags" -> MissingLink(GalleryLink("tags_join", db, "galleries_tags"), "gallery_id")
    [] what \in {"title", "details", "url"} -> MissingText("galleries", what)

GalleryTags(c, read, db) == TagsHandler(GalleryTables, c, read, db)
GalleryTagCount(c, read, db) == LinksHandler("galleries", db, "galleries_tags", "gallery_id", c)
GalleryPerformers(c, read, db) == PerformersHandler(GalleryTables, c, db)
GalleryPerformerCount(c, read, db) == LinksHandler("galleries", db, "performers_galleries", "gallery_id", c)
GalleryImageCount(c, read, db) == LinksHandler("galleries", db, "galleries_images", "gallery_id", c)
GalleryStudio(c, read, db) == StudiosHandler("galleries", c, read)
GalleryPerformerTags(c, read, db) == PerformerTagsHandler(GalleryTables, c, read, db)
GalleryPerformerFavorite(c, read, db) == PerformerFavoriteHandler(GalleryTables, c, db)
GalleryPerformerAge(c, read, db) == PerformerAgeHandler(GalleryTables, c, db)

GalleryAverageResolution(c, read, db) ==
  Grouped(<<GalleryLink("images_join", db, "galleries_images"),
            LeftJoin("images", Rows(db, "images"), "id", <<"images_join", "image_id">>)>>,
          [ref |-> <<"images", "resolution">>, average |-> TRUE, range |-> ResolutionRange(c)])

GalleryFilter(f, read, db) ==
  LET With(name, handled) == Given(f, name, handled)
  IN Handled(<<
    TextColumns("galleries", {"title", "details", "checksum", "path", "url"}, f),
    FlagColumns("galleries", {"zip", "organized"}, f),
    NumberColumns("galleries", {"rating"}, f),
    With("is_missing", GalleryIsMissing(f.is_missing, read, db)),
    With("tags", GalleryTags(f.tags, read, db)),
    With("tag_count", GalleryTagCount(f.tag_count, read, db)),
    With("performers", GalleryPerformers(f.performers, read, db)),
    With("performer_count", GalleryPerformerCount(f.performer_count, read, db)),
    With("studios", GalleryStudio(f.studios, read, db)),
    With("performer_tags", GalleryPerformerTags(f.performer_tags, read, db)),
    With("average_resolution", GalleryAverageResolution(f.average_resolution, read, db)),
    With("image_count", GalleryImageCount(f.image_count, read, db)),
    With("performer_favorite", GalleryPerformerFavorite(f.performer_favorite, read, db)),
    With("performer_age", GalleryPerformerAge(f.performer_age, read, db))>>)

----------------------------------------------------------------------------
(* Performers. *)

PerformerTables == [table |-> "performers", fk |-> "performer_id", tagsAs |-> "image_tag",
                    tags |-> "performers_tags"]
PerformerLink(as, db, joinTable) == LinkJoin(as, db, joinTable, "performer_id", "performers")

PerformerIsMissing(what, read, db) ==
  CASE what = "scenes" -> MissingLink(PerformerLink("scenes_join", db, "performers_scenes"), "scene_id")
    [] what = "image" -> MissingLink(PerformerLink("image_join", db, "performers_image"), "performer_id")
    [] what = "stash_id" ->
         MissingLink(PerformerLink("performer_stash_ids", db, "performer_stash_ids"), "performer_id")
    [] what \in {"url", "ethnicity", "gender"} -> MissingText("performers", what)

PerformerStashID(c, read, db) ==
  StashIDHandler(PerformerLink("performer_stash_ids", db, "performer_stash_ids"), c)
PerformerTags(c, read, db) == TagsHandler(PerformerTables, c, read, db)
PerformerTagCount(c, read, db) == LinksHandler("performers", db, "performers_tags", "performer_id", c)
PerformerSceneCount(c, read, db) == LinksHandler("performers", db, "performers_scenes", "performer_id", c)
PerformerImageCount(c, read, db) == LinksHandler("performers", db, "performers_images", "performer_id", c)
PerformerGalleryCount(c, read, db) == LinksHandler("performers", db, "performers_galleries", "performer_id", c)

\* Media of the three kinds, whose studios are the performer's.
Media == {SceneTables, ImageTables, GalleryTables}

PerformerStudios(c, read, db) ==
  LET StudioOf(m) == <<m.table, "studio_id">>
      JoinsOf(m) == <<PerformerLink(m.performers, db, m.performers),
                      LeftJoin(m.table, Rows(db, m.table), "id", <<m.performers, m.fk>>)>>
      joins == JoinsOf(SceneTables) \o JoinsOf(ImageTables) \o JoinsOf(GalleryTables)
      studios == <<StudioOf(SceneTables), StudioOf(ImageTables), StudioOf(GalleryTables)>>
      items == {v.item_id : v \in StudioValues(read, c)}
      appearing == UNION {{l.performer_id : l \in {k \in Rows(db, m.performers) :
                             \E row \in Rows(db, m.table) :
                               row.id = Column(k, m.fk) /\ Column(row, "studio_id") \in items}}
                          : m \in Media}
      join == WithJoin("performer_studio", {[performer_id |-> x] : x \in appearing},
                       "performer_id", IdOf("performers"))
      found == <<"performer_studio", "performer_id">>
  IN CASE c.modifier = "IS_NULL" -> Joined(joins, [i \in 1..3 |-> <<IsNull(studios[i])>>])
       [] c.modifier = "NOT_NULL" -> Joined(joins, <<[i \in 1..3 |-> NotNull(studios[i])]>>)
       [] c.modifier \notin NullModifiers /\ c.value = {} -> Nothing
       [] c.modifier = "INCLUDES" /\ c.value # {} -> Joined(<<join>>, <<<<NotNull(found)>>>>)
       [] c.modifier = "EXCLUDES" /\ c.value # {} -> Joined(<<join>>, <<<<IsNull(found)>>>>)
       [] OTHER -> Nothing

PerformerFilter(f, read, db) ==
  LET With(name, handled) == Given(f, name, handled)
  IN Handled(<<
    TextColumns("performers", {"name", "details", "ethnicity", "country", "eye_color", "height",
                           "measurements", "fake_tits", "career_length", "tattoos", "piercings",
                           "hair_color", "url", "aliases"}, f),
    FlagColumns("performers", {"favorite", "ignore_auto_tag", "gender"}, f),
    NumberColumns("performers", {"birth_year", "death_year", "age", "rating", "weight"}, f),
    With("is_missing", PerformerIsMissing(f.is_missing, read, db)),
    With("stash_id", PerformerStashID(f.stash_id, read, db)),
    With("tags", PerformerTags(f.tags, read, db)),
    With("studios", PerformerStudios(f.studios, read, db)),
    With("tag_count", PerformerTagCount(f.tag_count, read, db)),
    With("scene_count", PerformerSceneCount(f.scene_count, read, db)),
    With("image_count", PerformerImageCount(f.image_count, read, db)),
    With("gallery_count", PerformerGalleryCount(f.gallery_count, read, db))>>)

----------------------------------------------------------------------------
(* Studios. *)

StudioLink(as, db, joinTable) == LinkJoin(as, db, joinTable, "studio_id", "studios")

StudioIsMissing(what, read, db) ==
  CASE what = "image" -> MissingLink(StudioLink("studios_image", db, "studios_image"), "studio_id")
    [] what = "stash_id" ->
         MissingLink(StudioLink("studio_stash_ids", db, "studio_stash_ids"), "studio_id")
    [] what \in {"url", "details"} -> MissingText("studios", what)

StudioStashID(c, read, db) ==
  StashIDHandler(StudioLink("studio_stash_ids", db, "studio_stash_ids"), c)

\* Counts of what the left join finds, in a HAVING.
JoinedCount(join, column, c) == Grouped(<<join>>, Count(<<join.as, column>>, IntRange(c)))
StudioSceneCount(c, read, db) == JoinedCount(StudioLink("scenes", db, "scenes"), "id", c)
StudioImageCount(c, read, db) == JoinedCount(StudioLink("images", db, "images"), "id", c)
StudioGalleryCount(c, read, db) == JoinedCount(StudioLink("galleries", db, "galleries"), "id", c)

StudioParent(c, read, db) ==
  ColumnHandler(<<"studios", "parent_id">>,
                LeftJoin("parent_studio", Rows(db, "studios"), "id", <<"studios", "parent_id">>), c)
StudioAlias(c, read, db) ==
  StringListHandler(StudioLink("studio_aliases", db, "studio_aliases"), "alias", c)

StudioFilter(f, read, db) ==
  LET With(name, handled) == Given(f, name, handled)
  IN Handled(<<
    TextColumns("studios", {"name", "details", "url"}, f),
    NumberColumns("studios", {"rating"}, f),
    FlagColumns("studios", {"ignore_auto_tag"}, f),
    With("stash_id", StudioStashID(f.stash_id, read, db)),
    With("is_missing", StudioIsMissing(f.is_missing, read, db)),
    With("scene_count", StudioSceneCount(f.scene_count, read, db)),
    With("image_count", StudioImageCount(f.image_count, read, db)),
    With("gallery_count", StudioGalleryCount(f.gallery_count, read, db)),
    With("parents", StudioParent(f.parents, read, db)),
    With("aliases", StudioAlias(f.aliases, read, db))>>)

----------------------------------------------------------------------------
(* Movies. *)

MovieIsMissing(what, read, db) ==
  LET images == LinkJoin("movies_images", db, "movies_images", "movie_id", "movies")
      scenes == LinkJoin("movies_scenes", db, "movies_scenes", "movie_id", "movies")
  IN CASE what \in {"front_image", "back_image"} -> MissingLink(images, what)
       [] what = "scenes" -> MissingLink(scenes, "scene_id")
       [] what \in {"director", "synopsis", "url"} -> MissingText("movies", what)

MovieStudio(c, read, db) == StudiosHandler("movies", c, read)

MoviePerformers(c, read, db) ==
  LET scenes == LinkJoin("movies_scenes", db, "movies_scenes", "movie_id", "movies")
      performers == LeftJoin("performers_scenes", Rows(db, "performers_scenes"), "scene_id",
                             <<"movies_scenes", "scene_id">>)
      appearing == {[movie_id |-> pair[1].movie_id, performer_id |-> pair[2].performer_id] :
                      pair \in {p \in Rows(db, "movies_scenes") \X Rows(db, "performers_scenes") :
                        p[1].scene_id = p[2].scene_id /\ p[2].performer_id \in c.value}}
  IN CASE c.modifier \in NullModifiers ->
            Joined(<<scenes, performers>>, <<<<NullTest(<<"performers_scenes", "performer_id">>, c)>>>>)
       [] c.modifier \notin NullModifiers /\ c.value = {} -> Nothing
       [] OTHER ->
            Handle(Joined(<<WithJoin("movies_performers", appearing, "movie_id", IdOf("movies"))>>, <<>>),
                   HierarchicalClauses(<<"movies_performers", "performer_id">>, c))

MovieFilter(f, read, db) ==
  LET With(name, handled) == Given(f, name, handled)
  IN Handled(<<
    TextColumns("movies", {"name", "director", "synopsis", "url"}, f),
    NumberColumns("movies", {"rating", "duration"}, f),
    With("is_missing", MovieIsMissing(f.is_missing, read, db)),
    With("studios", MovieStudio(f.studios, read, db)),
    With("performers", MoviePerformers(f.performers, read, db))>>)

----------------------------------------------------------------------------
(* Tags. *)

TagLink(as, db, joinTable) == LinkJoin(as, db, joinTable, "tag_id", "tags")

TagAlias(c, read, db) == StringListHandler(TagLink("tag_aliases", db, "tag_aliases"), "alias", c)
TagIsMissing(what, read, db) == MissingLink(TagLink("tags_image", db, "tags_image"), "tag_id")
TagSceneCount(c, read, db) == JoinedCount(TagLink("scenes_tags", db, "scenes_tags"), "scene_id", c)
TagImageCount(c, read, db) == JoinedCount(TagLink("images_tags", db, "images_tags"), "image_id", c)
TagGalleryCount(c, read, db) ==
  JoinedCount(TagLink("galleries_tags", db, "galleries_tags"), "gallery_id", c)
TagPerformerCount(c, read, db) ==
  JoinedCount(TagLink("performers_tags", db, "performers_tags"), "performer_id", c)

\* A marker is the tag's by a row of its own or as the primary tag.
TagMarkerCount(c, read, db) ==
  Grouped(<<TagLink("scene_markers_tags", db, "scene_markers_tags"),
            JoinOn("scene_markers", Rows(db, "scene_markers"),
                   {<<"id", <<"scene_markers_tags", "scene_marker_id">>>>,
                    <<"primary_tag_id", IdOf("tags")>>})>>,
          Count(<<"scene_markers", "id">>, IntRange(c)))

\* What is below a value by one link and then at most depth more.
RelatedRows(links, c) ==
  UNION {{[root_id |-> link[1], item_id |-> item] : item \in Below(links, link[2], c.depth)}
         : link \in {l \in links : l[1] \in c.value}}

RelatedHandler(as, relations, foreignFK, links, c) ==
  CASE c.modifier \in NullModifiers ->
         Joined(<<relations>>, <<<<NullTest(<<relations.as, foreignFK>>, c)>>>>)
    [] c.modifier \notin NullModifiers /\ c.value = {} -> Nothing
    [] OTHER -> Handle(Joined(<<WithJoin(as, RelatedRows(links, c), "item_id", IdOf("tags"))>>, <<>>),
                       HierarchicalClauses(<<as, "root_id">>, c))

TagRelation(as, db, column) == LeftJoin(as, Rows(db, "tags_relations"), column, IdOf("tags"))

TagParents(c, read, db) ==
  RelatedHandler("parents", TagRelation("parent_relations", db, "child_id"), "parent_id",
                 TagLinks(db), c)
TagChildren(c, read, db) ==
  RelatedHandler("children", TagRelation("child_relations", db, "parent_id"), "child_id",
                 {<<link[2], link[1]>> : link \in TagLinks(db)}, c)
TagParentCount(c, read, db) ==
  JoinedCount(TagRelation("parents_count", db, "child_id"), "parent_id", c)
TagChildCount(c, read, db) ==
  JoinedCount(TagRelation("children_count", db, "parent_id"), "child_id", c)

TagFilter(f, read, db) ==
  LET With(name, handled) == Given(f, name, handled)
  IN Handled(<<
    TextColumns("tags", {"name"}, f), With("aliases", TagAlias(f.aliases, read, db)),
    FlagColumns("tags", {"ignore_auto_tag"}, f),
    With("is_missing", TagIsMissing(f.is_missing, read, db)),
    With("scene_count", TagSceneCount(f.scene_count, read, db)),
    With("image_count", TagImageCount(f.image_count, read, db)),
    With("gallery_count", TagGalleryCount(f.gallery_count, read, db)),
    With("performer_count", TagPerformerCount(f.performer_count, read, db)),
    With("marker_count", TagMarkerCount(f.marker_count, read, db)),
    With("parents", TagParents(f.parents, read, db)),
    With("children", TagChildren(f.children, read, db)),
    With("parent_count", TagParentCount(f.parent_count, read, db)),
    With("child_count", TagChildCount(f.child_count, read, db))>>)

----------------------------------------------------------------------------
(* Scene markers. *)

MarkerTags(as, db) ==
  LinkJoin(as, db, "scene_markers_tags", "scene_marker_id", "scene_markers")
OfScene(as, db, joinTable) ==
  LeftJoin(as, Rows(db, joinTable), "scene_id", <<"scene_markers", "scene_id">>)

MarkerTagID(tag, read, db) ==
  Joined(<<MarkerTags("scene_markers_tags", db)>>,
         <<<<IsIn(<<"scene_markers", "primary_tag_id">>, {tag}),
             IsIn(<<"scene_markers_tags", "tag_id">>, {tag})>>>>)

MarkerTagsHandler(c, read, db) ==
  LET secondary == {[scene_marker_id |-> r.scene_marker_id, tag_id |-> r.tag_id] :
                      r \in Rows(db, "scene_markers_tags")}
      primary == {[scene_marker_id |-> r.id, tag_id |-> r.primary_tag_id] :
                    r \in Rows(db, "scene_markers")}
      roots == UNION {{[scene_marker_id |-> r.scene_marker_id, root_tag_id |-> v.root_id] :
                         v \in {w \in TagValues(read, c) : w.item_id = r.tag_id}}
                      : r \in secondary \cup primary}
  IN CASE c.modifier \in NullModifiers ->
            Joined(<<MarkerTags("scene_markers_tags", db)>>,
                   <<<<NullTest(<<"scene_markers_tags", "tag_id">>, c)>>>>)
       [] c.modifier \notin NullModifiers /\ c.value = {} -> Nothing
       [] OTHER ->
            Handle(Joined(<<WithJoin("marker_tags", roots, "scene_marker_id",
                                     IdOf("scene_markers"))>>, <<>>),
                   HierarchicalClauses(<<"marker_tags", "root_tag_id">>, c))

MarkerSceneTags(c, read, db) ==
  LET roots == UNION {{[scene_id |-> r.scene_id, root_tag_id |-> v.root_id] :
                         v \in {w \in TagValues(read, c) : w.item_id = r.tag_id}}
                      : r \in Rows(db, "scenes_tags")}
  IN CASE c.modifier \in NullModifiers ->
            Joined(<<OfScene("scenes_tags", db, "scenes_tags")>>,
                   <<<<NullTest(<<"scenes_tags", "tag_id">>, c)>>>>)
       [] c.modifier \notin NullModifiers /\ c.value = {} -> Nothing
       [] OTHER ->
            Handle(Joined(<<WithJoin("scene_tags", roots, "scene_id",
                                     <<"scene_markers", "scene_id">>)>>, <<>>),
                   HierarchicalClauses(<<"scene_tags", "root_tag_id">>, c))

MarkerPerformers(c, read, db) ==
  JoinedMultiHandler(IdOf("scenes"), OfScene("performers_join", db, "performers_scenes"),
                     "scene_id", "performer_id", c)

\* Scenes are joined whether or not performers are asked for.
MarkerFilter(f, read, db) ==
  LET With(name, handled) == Given(f, name, handled)
  IN Handled(<<
    With("tag_id", MarkerTagID(f.tag_id, read, db)),
    With("tags", MarkerTagsHandler(f.tags, read, db)),
    With("scene_tags", MarkerSceneTags(f.scene_tags, read, db)),
    Joined(<<LeftJoin("scenes", Rows(db, "scenes"), "id", <<"scene_markers", "scene_id">>)>>, <<>>),
    With("performers", MarkerPerformers(f.performers, read, db))>>)

----------------------------------------------------------------------------
(* What objects are linked to, apart from how queries find it: the links   *)
(* of a kind by their names.  A link is paths through tables, each step a  *)
(* table with the column that is left and the column that is reached.      *)

MediaLinks(kind, fk, tags, performers) ==
  [tags |-> {<<<<tags, fk, "tag_id">>>>},
   performers |-> {<<<<performers, fk, "performer_id">>>>},
   performer_tags |-> {<<<<performers, fk, "performer_id">>,
                         <<"performers_tags", "performer_id", "tag_id">>>>},
   studios |-> {<<<<kind, "id", "studio_id">>>>}]

LinksOf ==
  [scenes |->
     MediaLinks("scenes", "scene_id", "scenes_tags", "performers_scenes") @@
     [movies |-> {<<<<"movies_scenes", "scene_id", "movie_id">>>>},
      galleries |-> {<<<<"scenes_galleries", "scene_id", "gallery_id">>>>},
      markers |-> {<<<<"scene_markers", "scene_id", "id">>>>}],
   images |->
     MediaLinks("images", "image_id", "images_tags", "performers_images") @@
     [galleries |-> {<<<<"galleries_images", "image_id", "gallery_id">>>>}],
   galleries |->
     MediaLinks("galleries", "gallery_id", "galleries_tags", "performers_galleries") @@
     [scenes |-> {<<<<"scenes_galleries", "gallery_id", "scene_id">>>>},
      images |-> {<<<<"galleries_images", "gallery_id", "image_id">>>>}],
   performers |->
     [tags |-> {<<<<"performers_tags", "performer_id", "tag_id">>>>},
      scenes |-> {<<<<"performers_scenes", "performer_id", "scene_id">>>>},
      images |-> {<<<<"performers_images", "performer_id", "image_id">>>>},
      galleries |-> {<<<<"performers_galleries", "performer_id", "gallery_id">>>>},
      movies |-> {<<<<"performers_scenes", "performer_id", "scene_id">>,
                    <<"movies_scenes", "scene_id", "movie_id">>>>},
      studios |-> {<<<<m.performers, "performer_id", m.fk>>, <<m.table, "id", "studio_id">>>> :
                     m \in Media}],
   studios |->
     [parents |-> {<<<<"studios", "id", "parent_id">>>>},
      children |-> {<<<<"studios", "parent_id", "id">>>>},
      movies |-> {<<<<"movies", "studio_id", "id">>>>},
      scenes |-> {<<<<"scenes", "studio_id", "id">>>>},
      images |-> {<<<<"images", "studio_id", "id">>>>},
      galleries |-> {<<<<"galleries", "studio_id", "id">>>>}],
   movies |->
     [studios |-> {<<<<"movies", "id", "studio_id">>>>},
      scenes |-> {<<<<"movies_scenes", "movie_id", "scene_id">>>>},
      performers |-> {<<<<"movies_scenes", "movie_id", "scene_id">>,
                        <<"performers_scenes", "scene_id", "performer_id">>>>}],
   tags |->
     [parents |-> {<<<<"tags_relations", "child_id", "parent_id">>>>},
      children |-> {<<<<"tags_relations", "parent_id", "child_id">>>>},
      scenes |-> {<<<<"scenes_tags", "tag_id", "scene_id">>>>},
      images |-> {<<<<"images_tags", "tag_id", "image_id">>>>},
      galleries |-> {<<<<"galleries_tags", "tag_id", "gallery_id">>>>},
      performers |-> {<<<<"performers_tags", "tag_id", "performer_id">>>>},
      markers |-> {<<<<"scene_markers_tags", "tag_id", "scene_marker_id">>>>,
                   <<<<"scene_markers", "primary_tag_id", "id">>>>}],
   scene_markers |->
     [tags |-> {<<<<"scene_markers_tags", "scene_marker_id", "tag_id">>>>,
                <<<<"scene_markers", "id", "primary_tag_id">>>>},
      scene_tags |-> {<<<<"scene_markers", "id", "scene_id">>,
                        <<"scenes_tags", "scene_id", "tag_id">>>>},
      performers |-> {<<<<"scene_markers", "id", "scene_id">>,
                        <<"performers_scenes", "scene_id", "performer_id">>>>}]]

Follow(d, from, step) ==
  {Column(row, step[3]) : row \in {r \in Rows(d, step[1]) : Column(r, step[2]) \in from}} \ {Null}

LinkedBy(d, kind, name, id) ==
  UNION {FoldLeft(LAMBDA from, step : Follow(d, from, step), {id}, path)
         : path \in LinksOf[kind][name]}

\* The links that a number of an object counts.
CountOf ==
  [tag_count |-> "tags", performer_count |-> "performers", scene_count |-> "scenes",
   image_count |-> "images", gallery_count |-> "galleries", movie_count |-> "movies",
   marker_count |-> "markers", scene_marker_count |-> "markers",
   parent_count |-> "parents", child_count |-> "children"]
=============================================================================
