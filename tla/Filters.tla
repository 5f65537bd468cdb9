------------------------------ MODULE Filters ------------------------------
(***************************************************************************)
(* How pkg/sqlite turns the criteria of a filter into one SELECT, and what *)
(* the database answers to it: the joins and clauses that the handlers of  *)
(* filter.go contribute, how the filter builder combines them with those   *)
(* of its sub-filter (AND, OR, AND NOT), how the query builder adds the    *)
(* words of a search, and the three-valued logic of SQL that decides which *)
(* rows stay.                                                              *)
(*                                                                         *)
(* A database is a function from the names of tables to sets of rows, a    *)
(* row a record of columns; a column that a row lacks is null.  A text is  *)
(* the set of its words, the blank text {}.  A joined row is a function    *)
(* from aliases to rows, Null where a LEFT JOIN found nothing.             *)
(***************************************************************************)
EXTENDS Integers, FiniteSets, Sequences, SequencesExt, TLC

CONSTANTS
  Null,        \* SQL's NULL
  Vocabulary,  \* words of texts
  Most         \* bound: the largest number there is

ASSUME FiltersAssumption == Most \in Nat

Texts == SUBSET Vocabulary

\* The values of a condition in SQL, in an order that makes AND the minimum,
\* OR the maximum, and NOT the distance from Holds.
Fails == 0
Unknown == 1
Holds == 2
AllHold(values) == Min(values \cup {Holds})
AnyHolds(values) == Max(values \cup {Fails})
Not(value) == Holds - value

Column(row, name) ==
  IF row = Null THEN Null ELSE IF name \in DOMAIN row THEN row[name] ELSE Null

\* A reference is <<alias, column>>, or two of them whose difference is meant.
At(joined, ref) ==
  LET first == Column(joined[ref[1]], ref[2])
  IN IF Len(ref) = 2 THEN first
     ELSE LET second == Column(joined[ref[3]], ref[4])
          IN IF Null \in {first, second} THEN Null ELSE first - second

\* A condition on a column: its value is, or is not, one of a set.
Test(ref, values, in, ofNull) == [ref |-> ref, values |-> values, in |-> in, ofNull |-> ofNull]
IsIn(ref, values) == Test(ref, values, TRUE, Unknown)
IsNull(ref) == Test(ref, {}, TRUE, Holds)
NotNull(ref) == Test(ref, {}, FALSE, Fails)

TestAt(joined, test) ==
  LET value == At(joined, test.ref)
  IN CASE value = Null -> test.ofNull
       [] value # Null /\ (value \in test.values) = test.in -> Holds
       [] OTHER -> Fails

\* Tests with OR between them make a clause, clauses with AND between them a WHERE.
WhereAt(joined, clauses) ==
  LET ClauseAt(clause) == AnyHolds({TestAt(joined, clause[i]) : i \in DOMAIN clause})
  IN AllHold({ClauseAt(clauses[i]) : i \in DOMAIN clauses})

----------------------------------------------------------------------------
(* Joins. *)

\* The rows of a table that match on one of the pairs of a column of theirs and
\* a column joined before; cte: the table is one of the WITH clause.
JoinOn(as, rows, on) == [as |-> as, rows |-> rows, on |-> on, inner |-> FALSE, cte |-> FALSE]
LeftJoin(as, rows, column, ref) == JoinOn(as, rows, {<<column, ref>>})
InnerJoin(as, rows, column, ref) == [LeftJoin(as, rows, column, ref) EXCEPT !.inner = TRUE]
WithJoin(as, rows, column, ref) == [LeftJoin(as, rows, column, ref) EXCEPT !.cte = TRUE]

\* Of the joins with the same alias only the first is made.
Distinct(joins) ==
  LET firsts == SelectSeq([i \in DOMAIN joins |-> i],
                          LAMBDA i : ~\E j \in 1..(i - 1) : joins[j].as = joins[i].as)
  IN [k \in DOMAIN firsts |-> joins[firsts[k]]]

JoinRows(joinedRows, join) ==
  UNION {LET found == {row \in join.rows : \E on \in join.on :
                         /\ Column(row, on[1]) # Null
                         /\ Column(row, on[1]) = At(joined, on[2])}
         IN IF found = {} /\ ~join.inner THEN {(join.as :> Null) @@ joined}
            ELSE {(join.as :> row) @@ joined : row \in found}
         : joined \in joinedRows}

----------------------------------------------------------------------------
(* What a handler adds to the filter builder. *)

Nothing == [joins |-> <<>>, where |-> <<>>, having |-> <<>>, failed |-> FALSE]
Where(clauses) == [Nothing EXCEPT !.where = clauses]
Joined(joins, clauses) == [Nothing EXCEPT !.joins = joins, !.where = clauses]
Grouped(joins, having) == [Nothing EXCEPT !.joins = joins, !.having = <<having>>]

\* What handlers add one after the other.
Handled(all) ==
  [joins |-> FlattenSeq([i \in DOMAIN all |-> all[i].joins]),
   where |-> FlattenSeq([i \in DOMAIN all |-> all[i].where]),
   having |-> FlattenSeq([i \in DOMAIN all |-> all[i].having]),
   failed |-> \E i \in DOMAIN all : all[i].failed]
Handle(a, b) == Handled(<<a, b>>)

\* A criterion has a modifier and a value (a text, a number or a set of ids), and
\* may have value2 (of a range) and depth (of a hierarchy).
NullModifiers == {"IS_NULL", "NOT_NULL"}
NullTest(ref, c) == IF c.modifier = "IS_NULL" THEN IsNull(ref) ELSE NotNull(ref)

WithAny(words) == {t \in Texts : t \cap words # {}}
WithAll(words) == {t \in Texts : words \subseteq t}

StringTest(ref, c) ==
  CASE c.modifier = "INCLUDES" -> Test(ref, WithAny(c.value), TRUE, Unknown)
    [] c.modifier = "EXCLUDES" -> Test(ref, WithAny(c.value), FALSE, Unknown)
    [] c.modifier = "EQUALS" -> Test(ref, {c.value}, TRUE, Unknown)
    [] c.modifier = "NOT_EQUALS" -> Test(ref, {c.value}, FALSE, Unknown)
    [] c.modifier = "MATCHES_REGEX" -> Test(ref, WithAll(c.value), TRUE, Fails)
    [] c.modifier = "NOT_MATCHES_REGEX" -> Test(ref, WithAll(c.value), FALSE, Holds)
    [] c.modifier = "IS_NULL" -> Test(ref, {{}}, TRUE, Holds)
    [] c.modifier = "NOT_NULL" -> Test(ref, {{}}, FALSE, Fails)

\* A regular expression with this in it does not compile.
Uncompilable(c) ==
  c.modifier \in {"MATCHES_REGEX", "NOT_MATCHES_REGEX"} /\ "(" \in c.value

StringHandler(ref, c) ==
  IF Uncompilable(c) THEN [Nothing EXCEPT !.failed = TRUE] ELSE Where(<<<<StringTest(ref, c)>>>>)

\* The numbers a comparison is about, and whether it asks for these.
IntRange(c) ==
  LET From(low, high, in) == [low |-> low, high |-> high, in |-> in]
  IN CASE c.modifier = "EQUALS" -> From(c.value, c.value, TRUE)
       [] c.modifier = "NOT_EQUALS" -> From(c.value, c.value, FALSE)
       [] c.modifier = "BETWEEN" -> From(c.value, c.value2, TRUE)
       [] c.modifier = "NOT_BETWEEN" -> From(c.value, c.value2, FALSE)
       [] c.modifier = "LESS_THAN" -> From(-Most, c.value - 1, TRUE)
       [] c.modifier = "GREATER_THAN" -> From(c.value + 1, Most, TRUE)
       [] c.modifier = "IS_NULL" -> From(1, 0, TRUE)
       [] c.modifier = "NOT_NULL" -> From(1, 0, FALSE)

RangeTest(ref, range) == Test(ref, range.low..range.high, range.in, Unknown)
IntTest(ref, c) ==
  IF c.modifier \in NullModifiers THEN NullTest(ref, c) ELSE RangeTest(ref, IntRange(c))
IntHandler(ref, c) == Where(<<<<IntTest(ref, c)>>>>)

BoolHandler(ref, value) == Where(<<<<IsIn(ref, {value})>>>>)

\* HAVING: the count of the distinct values, or their average, in the rows of a
\* group, compared as a fraction.
Count(ref, range) == [ref |-> ref, average |-> FALSE, range |-> range]
CountIs(ref, n) == Count(ref, [low |-> n, high |-> n, in |-> TRUE])

SumOf(rows, ref) == FoldSet(LAMBDA row, sum : At(row, ref) + sum, 0, rows)

HavingAt(rows, having) ==
  LET known == {row \in rows : At(row, having.ref) # Null}
      over == IF having.average THEN Cardinality(known) ELSE 1
      amount == IF having.average THEN SumOf(known, having.ref)
                ELSE Cardinality({At(row, having.ref) : row \in known})
  IN IF over = 0 THEN Unknown
     ELSE IF (amount \in having.range.low * over .. having.range.high * over) = having.range.in
     THEN Holds ELSE Fails

----------------------------------------------------------------------------
(* Handlers of links: the join table's rows hold an id of the primary      *)
(* table (primaryFK) and one of the foreign table (foreignFK).             *)

\* The ids of the primary table that rows of a join table link to one of the values.
LinkedTo(rows, primaryFK, foreignFK, values) ==
  {Column(row, primaryFK) : row \in {r \in rows : Column(r, foreignFK) \in values}}

\* The clauses on the column of a joined row that links; primaryId excludes.
MultiClauses(foreign, primaryId, linked, c) ==
  LET includes == Where(<<<<IsIn(foreign, c.value)>>>>)
  IN CASE c.modifier = "INCLUDES" -> includes
       [] c.modifier = "INCLUDES_ALL" ->
            [includes EXCEPT !.having = <<CountIs(foreign, Cardinality(c.value))>>]
       [] c.modifier = "EXCLUDES" -> Where(<<<<Test(primaryId, linked, FALSE, Holds)>>>>)
       [] OTHER -> Nothing

\* joinedMultiCriterionHandlerBuilder: "join" joins the join table, unless excluding.
JoinedMultiHandler(primaryId, join, primaryFK, foreignFK, c) ==
  LET foreign == <<join.as, foreignFK>>
      clauses == MultiClauses(foreign, primaryId,
                              LinkedTo(join.rows, primaryFK, foreignFK, c.value), c)
  IN CASE c.modifier \in NullModifiers -> Joined(<<join>>, <<<<NullTest(foreign, c)>>>>)
       [] c.modifier \notin NullModifiers /\ c.value = {} -> Nothing
       [] c.modifier \in {"INCLUDES", "INCLUDES_ALL"} /\ c.value # {} ->
            Handle(Joined(<<join>>, <<>>), clauses)
       [] OTHER -> clauses

\* multiCriterionHandlerBuilder: the join table, and the foreign one besides.
MultiHandler(primaryId, joins, primaryFK, foreignFK, c) ==
  LET join == Head(joins)
      foreign == <<join.as, foreignFK>>
      linked == LinkedTo(join.rows, primaryFK, foreignFK, c.value)
  IN CASE c.modifier \in NullModifiers -> Joined(<<join>>, <<<<NullTest(foreign, c)>>>>)
       [] c.modifier \notin NullModifiers /\ c.value = {} -> Nothing
       [] OTHER -> Handle(Joined(joins, <<>>), MultiClauses(foreign, primaryId, linked, c))

\* multiCriterionHandlerBuilder without a join table: the link is a column.
ColumnHandler(ref, join, c) ==
  CASE c.modifier \in NullModifiers -> Where(<<<<NullTest(ref, c)>>>>)
    [] c.modifier \notin NullModifiers /\ c.value = {} -> Nothing
    [] OTHER -> Handle(Joined(<<join>>, <<>>), MultiClauses(<<join.as, "id">>, ref, c.value, c))

\* The number of rows that link an object, compared for each id of the primary table.
CountHandler(table, rows, primaryFK, c) ==
  LET range == IntRange(c)
      Links(id) == Cardinality({row \in rows : Column(row, primaryFK) = id})
  IN Where(<<<<IsIn(<<table.name, "id">>,
                    {id \in {row.id : row \in table.rows} :
                       (Links(id) \in range.low..range.high) = range.in})>>>>)

StringListHandler(join, column, c) ==
  IF c.value = {} THEN Nothing
  ELSE Handle(Joined(<<join>>, <<>>), StringHandler(<<join.as, column>>, c))

----------------------------------------------------------------------------
(* Hierarchies: a value stands for itself and what is below it. *)

\* What is at most depth links below an id, everything below if depth is -1.
Below(links, id, depth) ==
  LET steps == IF depth = -1 THEN Cardinality(links) ELSE depth
      reached[n \in Nat] ==
        IF n = 0 THEN {id}
        ELSE reached[n - 1] \cup {link[2] : link \in {l \in links : l[1] \in reached[n - 1]}}
  IN reached[steps]

\* Mutant: the values themselves at any depth.
ValuesAlone(ids, links, c) == {[root_id |-> value, item_id |-> value] : value \in c.value}

\* The rows of the derived table; at depth 0 they are written from the values alone.
HierarchicalValues(ids, links, c) ==
  UNION {{[root_id |-> value, item_id |-> item] : item \in Below(links, value, c.depth)}
         : value \in IF c.depth = 0 THEN c.value ELSE c.value \cap ids}

HierarchicalClauses(ref, c) ==
  CASE c.modifier = "INCLUDES" -> Where(<<<<NotNull(ref)>>>>)
    [] c.modifier = "INCLUDES_ALL" ->
         [Where(<<<<NotNull(ref)>>>>) EXCEPT !.having = <<CountIs(ref, Cardinality(c.value))>>]
    [] c.modifier = "EXCLUDES" -> Where(<<<<IsNull(ref)>>>>)
    [] OTHER -> Nothing

\* The link is a column of the primary table.
HierarchicalHandler(ref, derived, values, c) ==
  CASE c.modifier \in NullModifiers -> Where(<<<<NullTest(ref, c)>>>>)
    [] c.modifier \notin NullModifiers /\ c.value = {} -> Nothing
    [] OTHER -> Handle(Joined(<<LeftJoin(derived, values, "item_id", ref)>>, <<>>),
                       HierarchicalClauses(<<derived, "root_id">>, c))

\* Rows of a join table with the roots of what they link to.
RootedRows(rows, foreignFK, values) ==
  UNION {{row @@ value : value \in {v \in values : v.item_id = Column(row, foreignFK)}}
         : row \in rows}

JoinedHierarchicalHandler(join, foreignFK, values, c) ==
  CASE c.modifier \in NullModifiers -> Joined(<<join>>, <<<<NullTest(<<join.as, foreignFK>>, c)>>>>)
    [] c.modifier \notin NullModifiers /\ c.value = {} -> Nothing
    [] OTHER -> Handle(Joined(<<[join EXCEPT !.rows = RootedRows(@, foreignFK, values)]>>, <<>>),
                       HierarchicalClauses(<<join.as, "root_id">>, c))

----------------------------------------------------------------------------
(* The words of a search: those that must be there, those that must not,   *)
(* and sets of which one must be.                                          *)

SearchClauses(columns, search) ==
  LET AnyOf(words) == [i \in DOMAIN columns |-> IsIn(columns[i], WithAny(words))]
  IN SetToSeq({AnyOf({word}) : word \in search.mustHave})
       \o [i \in DOMAIN columns |-> <<Test(columns[i], WithAny(search.mustNot), FALSE, Holds)>>]
       \o SetToSeq({AnyOf(words) : words \in search.anySets})

----------------------------------------------------------------------------
(* The filter and the query.  A filter is the sequence of its levels, what *)
(* the handlers of each have added and the operator before the next.       *)

AllJoins(joins, levels) ==
  Distinct(joins \o FlattenSeq([i \in DOMAIN levels |-> levels[i].handled.joins]))

\* Mutant: a sub-filter after NOT is not negated.
SubFilterUnnegated(own, op, sub) ==
  CASE sub = Null -> own
    [] own = Null /\ sub # Null -> sub
    [] OTHER -> IF op = "OR" THEN AnyHolds({own, sub}) ELSE AllHold({own, sub})

\* A level's own condition and that of its sub-filter; Null is the empty string.
SubFilterClause(own, op, sub) ==
  CASE sub = Null -> own
    [] own = Null /\ sub # Null -> IF op = "NOT" THEN Not(sub) ELSE sub
    [] own # Null /\ sub # Null /\ op = "AND" -> AllHold({own, sub})
    [] own # Null /\ sub # Null /\ op = "OR" -> AnyHolds({own, sub})
    [] own # Null /\ sub # Null /\ op = "NOT" -> AllHold({own, Not(sub)})

\* What the levels from the given one on say, when each by itself says own[i].
Combined(own, levels, from) ==
  FoldRight(LAMBDA i, sub : SubFilterClause(own[i], levels[i].op, sub),
            [k \in 1..(Len(levels) - from + 1) |-> k + from - 1], Null)

\* WHERE: the search's clauses and the filter's have AND between them, and no
\* parentheses around the filter's, so that they are no part of what comes after OR.
WhereHolds(joined, search, levels) ==
  LET own == [i \in DOMAIN levels |->
                IF levels[i].handled.where = <<>> THEN Null
                ELSE WhereAt(joined, levels[i].handled.where)]
      words == WhereAt(joined, search)
      sub == Combined(own, levels, 2)
  IN IF own[1] # Null THEN SubFilterClause(AllHold({words, own[1]}), levels[1].op, sub)
     ELSE AllHold({words, SubFilterClause(Null, levels[1].op, sub), Holds} \ {Null})

HavingHolds(rows, levels) ==
  LET own == [i \in DOMAIN levels |->
                IF levels[i].handled.having = <<>> THEN Null
                ELSE AllHold({HavingAt(rows, h) : h \in ToSet(levels[i].handled.having)})]
  IN Combined(own, levels, 1)

\* Only the first level's WITH clause becomes part of the query.
LacksTable(joins, first) ==
  \E join \in ToSet(joins) :
    join.cte /\ ~\E own \in ToSet(first.joins) : own.cte /\ own.as = join.as

\* The ids of a table that a query answers, or Null for an error.  A query whose filter
\* has failed gets none of the filter's clauses and joins.
RunQuery(table, searchJoins, search, given) ==
  LET failed == \E i \in DOMAIN given : given[i].handled.failed
      levels == IF failed THEN <<[handled |-> Nothing, op |-> "AND"]>> ELSE given
      joins == AllJoins(searchJoins, levels)
      Rows(row) == {joined \in FoldLeft(JoinRows, {table.name :> row}, joins) :
                      WhereHolds(joined, search, levels) = Holds}
      grouped == \E i \in DOMAIN levels : levels[i].handled.having # <<>>
  IN IF LacksTable(joins, levels[1].handled) THEN Null
     ELSE {row.id : row \in {r \in table.rows :
             Rows(r) # {} /\ (grouped => HavingHolds(Rows(r), levels) = Holds)}}
=============================================================================
