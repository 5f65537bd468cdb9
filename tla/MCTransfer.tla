----------------------------- MODULE MCTransfer -----------------------------
(***************************************************************************)
(* Instances of ImportTask for TLC.  First imports into and from libraries *)
(* of nothing but tags, which are numbers in the order of their names, as  *)
(* their files are; the parents vary over all tags, so that this covers    *)
(* every order.  Then libraries of every kind of row, with two or three    *)
(* tags without parents.                                                   *)
(***************************************************************************)
EXTENDS ImportTask

InOrder(S) == SetToSortSeq(S, <)

IsAcyclic(R) == \A t \in Tags :
  ParentsIn(R, t) \cap FindAllDescendants(Tags, R, t) = {}

Hierarchies == {R \in SUBSET (Tags \X Tags) : IsAcyclic(R)}
Forests == {R \in Hierarchies :
              \A t \in Tags : Cardinality(ParentsIn(R, t)) <= 1}

Plan(R, order, invalid, reset, editing, duplicate, missing) ==
  [order |-> order, parents |-> [t \in Tags |-> InOrder(ParentsIn(R, t))],
   invalid |-> invalid, reset |-> reset, editing |-> editing,
   duplicate |-> duplicate, missing |-> missing]

\* What the full import task makes of an exported hierarchy, or of files with
\* something wrong in them.
FullImports(H, invalid) ==
  {Plan(R, InOrder(Tags), i, TRUE, FALSE, "FAIL", "FAIL") : R \in H, i \in invalid}

\* Imports into a database that users edit before and meanwhile, the first
\* tag having to wait for its parent.
Merges ==
  {Plan(R, InOrder(Tags), {}, FALSE, TRUE, "FAIL", "CREATE") :
     R \in {F \in Forests : ParentsIn(F, 1) # {}}}
  \cup
  {Plan({<<2, 1>>, <<3, 2>>}, InOrder(Tags), {}, FALSE, TRUE, "IGNORE", "FAIL"),
   Plan({}, InOrder(Tags), {}, FALSE, TRUE, "OVERWRITE", "IGNORE")}

\* A part of the tags of an export.
Parts ==
  {Plan(R, InOrder(S), {}, FALSE, FALSE, d, m) :
     R \in Hierarchies, S \in SUBSET Tags,
     d \in {"IGNORE", "OVERWRITE"}, m \in {"FAIL", "IGNORE", "CREATE"}}

\* Files that somebody changed: 1 lists 3 before 2.
Changed ==
  {[Plan({<<3, 2>>}, InOrder(Tags), {}, FALSE, FALSE, d, "FAIL")
      EXCEPT !.parents[1] = <<3, 2>>] : d \in {"FAIL", "IGNORE", "OVERWRITE"}}

AllPlans ==
  FullImports(Hierarchies, SUBSET Tags) \cup Merges \cup Parts \cup Changed
Exports == FullImports(Hierarchies, {{}})

----------------------------------------------------------------------------
CONSTANTS s1, s2, i, g, m, p, a, b, c, d, w1, w2

NoLibrary == [rows |-> {}, refs |-> {}, markers |-> {}, tags |-> {},
              relations |-> {}]

\* Everything refers to everything it may refer to.
Everything ==
  [rows |-> Rows \ {d},
   refs |-> ({s1} \X {a, g, m, p, 1}) \cup ({s2} \X {b, m}) \cup ({i} \X {b, g, p, 2})
              \cup ({g} \X {c, p, 1}) \cup {<<m, b>>, <<p, 2>>, <<b, a>>, <<c, b>>},
   markers |-> {<<s1, 1, 2>>, <<s1, 2, 3>>},
   tags |-> {1, 2, 3}, relations |-> {}]

\* What others add to, or have their own idea of.
Something ==
  [rows |-> {s1, g, m, p, a, b},
   refs |-> {<<s1, b>>, <<s1, 1>>, <<g, a>>, <<a, b>>},
   markers |-> {<<s1, 1, 1>>},
   tags |-> {1}, relations |-> {}]

\* A scene with two markers at one second, in files made by hand.
TwoAtOnce == [Everything EXCEPT !.markers = {<<s1, 1, 2>>, <<s1, 1, 3>>}]

\* Four generations of studios.
Generations ==
  [NoLibrary EXCEPT !.rows = {a, b, c, d}, !.refs = {<<b, a>>, <<c, b>>, <<d, c>>}]

NoFilesOfTags(duplicate, missing, reset) ==
  Plan({}, <<>>, {}, reset, FALSE, duplicate, missing)

Simple(plans) ==
  [library : {NoLibrary}, exports : {FALSE}, full : {FALSE}, all : {{}},
   asked : {{}}, dependencies : {FALSE}, workers : {{w1}}, editing : {FALSE},
   target : {NoLibrary}, plan : plans]

FullTransfers ==
  [library : {Everything, TwoAtOnce, Generations}, exports : {TRUE}, full : {TRUE},
   all : {{}}, asked : {{}}, dependencies : {FALSE},
   workers : {{w1}, {w1, w2}}, editing : BOOLEAN, target : {NoLibrary},
   plan : {NoFilesOfTags("FAIL", "FAIL", TRUE)}]

\* Some rows, or all movies, taken to a library that has something.
PartTransfers ==
  [library : {Everything}, exports : {TRUE}, full : {FALSE}, all : {{}, {"movies"}},
   asked : {{s1}, {s2, i}, {g}}, dependencies : BOOLEAN,
   workers : {{w1}, {w1, w2}}, editing : {FALSE}, target : {Something},
   plan : {NoFilesOfTags("IGNORE", "CREATE", FALSE)}]
  \cup
  [library : {Everything}, exports : {TRUE}, full : {FALSE}, all : {{}},
   asked : {{m}}, dependencies : {TRUE},
   workers : {{w1, w2}}, editing : {TRUE}, target : {NoLibrary},
   plan : {NoFilesOfTags("FAIL", "IGNORE", FALSE)}]

\* Files with every choice for what is there already and what is missing.
HandMade ==
  [library : {Everything, TwoAtOnce}, exports : {FALSE}, full : {FALSE},
   all : {{}}, asked : {{}}, dependencies : {FALSE}, workers : {{w1}},
   editing : {FALSE}, target : {Something},
   plan : {NoFilesOfTags(dup, x, FALSE) : dup \in {"FAIL", "IGNORE", "OVERWRITE"},
                                        x \in {"FAIL", "IGNORE", "CREATE"}}]

MCPlans == AllPlans \cup {x.plan : x \in FullTransfers \cup PartTransfers \cup HandMade}
MCTransfers == Simple(AllPlans) \cup FullTransfers \cup PartTransfers \cup HandMade
=============================================================================
