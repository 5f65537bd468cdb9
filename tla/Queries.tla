------------------------------ MODULE Queries ------------------------------
(***************************************************************************)
(* A client's query for objects of a kind (the Query methods of            *)
(* pkg/sqlite): the filter is made, for which the hierarchies of tags and  *)
(* studios are read; the rows are counted; their ids are selected; and the *)
(* objects are fetched.  These are statements of their own: a read         *)
(* "transaction" begins and ends nothing (transaction.go), so users'       *)
(* changes may be committed between any two of them.                       *)
(*                                                                         *)
(* What a criterion means is stated apart from the SQL, on the links of an *)
(* object; the properties compare the two.                                 *)
(***************************************************************************)
EXTENDS ObjectFilters

CONSTANTS
  Requests,          \* bound: what is asked, [kind, levels, search]
  DatabasesFor(_),   \* bound: request -> databases it is asked of
  MaxChanges         \* bound: users' changes to a table during a query

ASSUME QueriesAssumption == MaxChanges \in Nat

VARIABLES
  db,      \* what the database holds
  asked,   \* the request
  phase,   \* "asked", "made", "counted", "selected", "answered" or "failed"
  read,    \* the database when the filter was made
  total,   \* the count
  ids,     \* the ids
  seen     \* history: the databases since the query began

queryVars == <<db, asked, phase, read, total, ids, seen>>

----------------------------------------------------------------------------
(* The queries of the kinds.  A request's search is empty or has words;    *)
(* its levels are the filter and its chain of sub-filters.                 *)

NoSearch == [mustHave |-> {}, mustNot |-> {}, anySets |-> {}]

\* Where a search looks, and what it joins to look there.
SceneSearch(d) ==
  [joins |-> <<SceneLink("scene_markers", d, "scene_markers")>>,
   columns |-> <<<<"scenes", "title">>, <<"scenes", "details">>, <<"scenes", "path">>,
                 <<"scenes", "oshash">>, <<"scenes", "checksum">>, <<"scene_markers", "title">>>>]
ImageSearch(d) ==
  [joins |-> <<>>,
   columns |-> <<<<"images", "title">>, <<"images", "path">>, <<"images", "checksum">>>>]
GallerySearch(d) ==
  [joins |-> <<>>,
   columns |-> <<<<"galleries", "title">>, <<"galleries", "path">>, <<"galleries", "checksum">>>>]
PerformerSearch(d) ==
  [joins |-> <<>>, columns |-> <<<<"performers", "name">>, <<"performers", "aliases">>>>]
StudioSearch(d) ==
  [joins |-> <<StudioLink("studio_aliases", d, "studio_aliases")>>,
   columns |-> <<<<"studios", "name">>, <<"studio_aliases", "alias">>>>]
MovieSearch(d) == [joins |-> <<>>, columns |-> <<<<"movies", "name">>>>]
TagSearch(d) ==
  [joins |-> <<TagLink("tag_aliases", d, "tag_aliases")>>,
   columns |-> <<<<"tags", "name">>, <<"tag_aliases", "alias">>>>]
MarkerSearch(d) ==
  [joins |-> <<>>, columns |-> <<<<"scene_markers", "title">>, <<"scenes", "title">>>>]

SearchOf(kind, d) ==
  CASE kind = "scenes" -> SceneSearch(d)
    [] kind = "images" -> ImageSearch(d)
    [] kind = "galleries" -> GallerySearch(d)
    [] kind = "performers" -> PerformerSearch(d)
    [] kind = "studios" -> StudioSearch(d)
    [] kind = "movies" -> MovieSearch(d)
    [] kind = "tags" -> TagSearch(d)
    [] kind = "scene_markers" -> MarkerSearch(d)

FilterOf(kind, f, then, now) ==
  CASE kind = "scenes" -> SceneFilter(f, then, now)
    [] kind = "images" -> ImageFilter(f, then, now)
    [] kind = "galleries" -> GalleryFilter(f, then, now)
    [] kind = "performers" -> PerformerFilter(f, then, now)
    [] kind = "studios" -> StudioFilter(f, then, now)
    [] kind = "movies" -> MovieFilter(f, then, now)
    [] kind = "tags" -> TagFilter(f, then, now)
    [] kind = "scene_markers" -> MarkerFilter(f, then, now)

\* The ids that the query's SELECT answers, or Null for an error.
Run(request, then, now) ==
  LET search == SearchOf(request.kind, now)
      searching == request.search # NoSearch
  IN RunQuery(Table(now, request.kind), IF searching THEN search.joins ELSE <<>>,
              IF searching THEN SearchClauses(search.columns, request.search) ELSE <<>>,
              [i \in DOMAIN request.levels |->
                 [handled |-> FilterOf(request.kind, request.levels[i].criteria, then, now),
                  op |-> request.levels[i].op]])

\* The filter has a regular expression that does not compile.  Scenes and images are
\* answered as if the filter were not there, as their Query does not look at the error.
FilterFails(request, d) ==
  \E level \in ToSet(request.levels) : FilterOf(request.kind, level.criteria, d, d).failed
Rejected(request, d) == request.kind \notin {"scenes", "images"} /\ FilterFails(request, d)

----------------------------------------------------------------------------
(* The steps of a query, and of users. *)

QueryInit ==
  /\ asked \in Requests
  /\ db \in DatabasesFor(asked)
  /\ read = db
  /\ phase = "asked"
  /\ total = Null
  /\ ids = {}
  /\ seen = {db}

MakeFilter ==
  /\ phase = "asked"
  /\ phase' = IF Rejected(asked, db) THEN "failed" ELSE "made"
  /\ UNCHANGED <<db, asked, read, total, ids, seen>>

CountRows ==
  /\ phase = "made"
  /\ LET found == Run(asked, read, db)
     IN /\ phase' = IF found = Null THEN "failed" ELSE "counted"
        /\ total' = IF found = Null THEN Null ELSE Cardinality(found)
  /\ UNCHANGED <<db, asked, read, ids, seen>>

SelectIDs ==
  /\ phase = "counted"
  /\ ids' = Run(asked, read, db)
  /\ phase' = "selected"
  /\ UNCHANGED <<db, asked, read, total, seen>>

\* An id that is gone makes the list incomplete, which the client gets as an error.
Fetch ==
  /\ phase = "selected"
  /\ phase' = IF ids \subseteq Ids(db, asked.kind) THEN "answered" ELSE "failed"
  /\ UNCHANGED <<db, asked, read, total, ids, seen>>

Change ==
  /\ phase \in {"made", "counted", "selected"}
  /\ Cardinality(seen) <= MaxChanges
  /\ \E other \in DatabasesFor(asked), table \in DOMAIN db :
       /\ other[table] # db[table]
       /\ db' = [db EXCEPT ![table] = other[table]]
       /\ seen' = seen \cup {db'}
  /\ UNCHANGED <<asked, phase, read, total, ids>>

Step == MakeFilter \/ CountRows \/ SelectIDs \/ Fetch

----------------------------------------------------------------------------
(* What a criterion means, in terms of what an object is linked to.        *)

\* A value of a hierarchical criterion stands for all that at most depth links lead to.
StandsFor(links, value, depth) ==
  LET bound == IF depth = -1 THEN Cardinality(links) ELSE depth
      leads[n \in 0..bound, from \in {value} \cup UNION {{l[1], l[2]} : l \in links}] ==
        {from} \cup IF n = 0 THEN {}
                    ELSE UNION {leads[n - 1, l[2]] : l \in {k \in links : k[1] = from}}
  IN leads[bound, value]

Hierarchy(d, name) ==
  CASE name = "studios" -> StudioLinks(d)
    [] name = "children" -> {<<l[2], l[1]>> : l \in TagLinks(d)}
    [] OTHER -> TagLinks(d)

MeansLinks(d, name, c, linked) ==
  LET Meets(value) == \E x \in linked :
        IF "depth" \in DOMAIN c THEN x \in StandsFor(Hierarchy(d, name), value, c.depth)
        ELSE x = value
  IN CASE c.modifier = "INCLUDES" -> \E value \in c.value : Meets(value)
       [] c.modifier = "INCLUDES_ALL" -> \A value \in c.value : Meets(value)
       [] c.modifier = "EXCLUDES" -> \A value \in c.value : ~Meets(value)
       [] c.modifier = "IS_NULL" -> linked = {}
       [] c.modifier = "NOT_NULL" -> linked # {}

Compares(n, c) ==
  CASE c.modifier = "EQUALS" -> n = c.value
    [] c.modifier = "NOT_EQUALS" -> n # c.value
    [] c.modifier = "LESS_THAN" -> n < c.value
    [] c.modifier = "GREATER_THAN" -> n > c.value
    [] c.modifier = "BETWEEN" -> c.value <= n /\ n <= c.value2
    [] c.modifier = "NOT_BETWEEN" -> n < c.value \/ n > c.value2

\* The links that a criterion asks the lack of.
MissingOf ==
  [tags |-> "tags", performers |-> "performers", scenes |-> "scenes",
   galleries |-> "galleries", movie |-> "movies", studio |-> "studios"]

\* How many rows link an object directly.  Numbers of what scenes, images, galleries and
\* performers have are of these: a link that is there twice counts twice.  Of tags and
\* studios, what they link is counted.
LinkRowsOf(d, kind, link, id) ==
  UNION {LET step == path[1] IN {row \in Rows(d, step[1]) : Column(row, step[2]) = id} :
         path \in LinksOf[kind][link]}
NumberOf(d, kind, link, id) ==
  Cardinality(IF kind \in {"tags", "studios"} THEN LinkedBy(d, kind, link, id)
              ELSE LinkRowsOf(d, kind, link, id))

Means(d, kind, name, c, row) ==
  LET Those(link) == LinkedBy(d, kind, link, row.id)
      people == {p \in Rows(d, "performers") : p.id \in Those("performers")}
      Copies == {r \in Rows(d, kind) : Column(r, "phash") = Column(row, "phash")}
  IN CASE name \in DOMAIN CountOf -> Compares(NumberOf(d, kind, CountOf[name], row.id), c)
       [] name = "is_missing" -> Those(MissingOf[c]) = {}
       [] name = "has_markers" -> (Those("markers") # {}) = c
       [] name = "performer_favorite" -> (\E p \in people : p.favorite) = c
       [] name = "performer_age" ->
            /\ Column(row, "date") \notin {Null, 0}
            /\ \E p \in people : /\ Column(p, "birthdate") \notin {Null, 0}
                                 /\ Compares(row.date - p.birthdate, c)
       [] name = "duplicated" -> /\ Column(row, "phash") # Null
                                 /\ (Copies # {row}) = c
       [] name = "tag_id" -> c \in Those("tags")
       [] OTHER -> MeansLinks(d, name, c, Those(name))

\* All the texts that a search looks at.
Words(d, kind, row) ==
  LET search == SearchOf(kind, d)
      joins == search.joins \o FilterOf(kind, <<>>, d, d).joins
      joined == FoldLeft(JoinRows, {kind :> row}, joins)
  IN UNION ({At(j, column) : j \in joined, column \in ToSet(search.columns)} \ {Null})

MeansSearch(d, kind, search, row) ==
  /\ search.mustHave \subseteq Words(d, kind, row)
  /\ search.mustNot \cap Words(d, kind, row) = {}
  /\ \A set \in search.anySets : set \cap Words(d, kind, row) # {}

Meant(request, d) ==
  {row.id : row \in {r \in Rows(d, request.kind) :
     /\ request.search # NoSearch => MeansSearch(d, request.kind, request.search, r)
     /\ \A name \in DOMAIN request.levels[1].criteria :
          Means(d, request.kind, name, request.levels[1].criteria[name], r)}}

----------------------------------------------------------------------------
(* Which requests are answered as they are meant, and which are not.       *)

\* Criteria that look at the links of links take a joined row without any for an object
\* without any; the tags of a marker are its others when asked whether there are none;
\* all studios of a performer cannot be asked for.
Misread(kind, name, c) ==
  \/ /\ <<kind, name>> \in {<<"scenes", "performer_tags">>, <<"images", "performer_tags">>,
                            <<"galleries", "performer_tags">>, <<"movies", "performers">>,
                            <<"performers", "studios">>}
     /\ c.modifier = "IS_NULL"
  \/ kind = "scene_markers" /\ name = "tags" /\ c.modifier \in NullModifiers
  \/ kind = "performers" /\ name = "studios" /\ c.modifier = "INCLUDES_ALL"

\* A search joins one row for each alias or marker title, and looks at each alone.
SearchedAlone(d, kind) ==
  \A row \in Rows(d, kind) :
    Cardinality(FoldLeft(JoinRows, {kind :> row}, SearchOf(kind, d).joins)) <= 1

OneCriterion(request) ==
  /\ Len(request.levels) = 1 /\ ~FilterFails(request, db)
  /\ LET criteria == request.levels[1].criteria
     IN /\ Cardinality(DOMAIN criteria) <= 1
        /\ \A name \in DOMAIN criteria : ~Misread(request.kind, name, criteria[name])
  /\ request.search # NoSearch => \A d \in seen : SearchedAlone(d, request.kind)

\* A query with a search or with a single criterion counts and answers the objects that
\* are meant at some moment between its beginning and its end, if users change one table
\* meanwhile: the roots read while the filter is made, the count and the ids may be of
\* different moments, but none mixes two (getHierarchicalValues and the handlers of
\* pkg/sqlite; ReadTransaction, which is none).
AnswersMean ==
  OneCriterion(asked) =>
    /\ phase = "counted" => total \in {Cardinality(Meant(asked, d)) : d \in seen}
    /\ phase = "selected" => ids \in {Meant(asked, d) : d \in seen}

\* What two parts of a filter must not share for the database to tell them apart: the
\* alias of a join, of which the second is dropped.
Apart(a, b) ==
  {j.as : j \in ToSet(a.joins)} \cap {j.as : j \in ToSet(b.joins)} = {}
OnlyWhere(h) ==
  h.where # <<>> /\ h.having = <<>> /\ \A j \in ToSet(h.joins) : ~j.inner
\* Conditions on columns of the object itself, none of which is null.
Certain(h, rows) ==
  /\ h.joins = <<>> /\ h.having = <<>> /\ h.where # <<>>
  /\ \A clause \in ToSet(h.where) : \A test \in ToSet(clause) : \A row \in rows :
       Column(row, test.ref[2]) # Null \/ test.ofNull # Unknown

Combinable(a, op, b) ==
  CASE op = "AND" -> Apart(a, b)
    [] op = "OR" -> Apart(a, b) /\ OnlyWhere(a) /\ OnlyWhere(b)
    [] op = "NOT" -> Certain(b, Rows(db, asked.kind))

\* A part of what is asked for: its clauses, and what it answers alone.
PartAlone(handled) ==
  [handled |-> handled,
   alone |-> RunQuery(Table(db, asked.kind), <<>>, <<>>, <<[handled |-> handled, op |-> "AND"]>>)]

PartsCombine(p) ==
  LET op == asked.levels[1].op
  IN IF Len(asked.levels) = 2
     THEN Combinable(p[1].handled, op, p[2].handled) =>
            ids = CASE op = "AND" -> p[1].alone \cap p[2].alone
                    [] op = "OR" -> p[1].alone \cup p[2].alone
                    [] op = "NOT" -> p[1].alone \ p[2].alone
     ELSE (\A i, j \in DOMAIN p : i = j \/ Apart(p[i].handled, p[j].handled)) =>
            ids = {id \in Ids(db, asked.kind) : \A i \in DOMAIN p : id \in p[i].alone}

\* Criteria at one level answer what each of them answers alone, and so do a filter and
\* its sub-filter, combined as sets by the operator between them, as long as the parts
\* have no join in common and, for OR and NOT, no part that is not a condition on rows
\* (filterBuilder's joins, generateWhereClauses and generateHavingClauses).
FiltersCombine ==
  LET criteria == asked.levels[1].criteria
      parts == IF Len(asked.levels) = 2 THEN <<criteria, asked.levels[2].criteria>>
               ELSE SetToSeq({name :> criteria[name] : name \in DOMAIN criteria})
  IN phase = "selected" /\ seen = {db} /\ asked.search = NoSearch /\ Len(parts) > 1 =>
     PartsCombine([i \in DOMAIN parts |-> PartAlone(FilterOf(asked.kind, parts[i], db, db))])

\* Queries answer what is meant, of the moments they live through and of their parts.
QueriesMean == AnswersMean /\ FiltersCombine
=============================================================================
