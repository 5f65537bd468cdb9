---------------------------- MODULE TransferProofs ---------------------------
(***************************************************************************)
(* The tag hierarchy has no cycle, and merging keeps ancestry, for any     *)
(* tags.  The proof needs no induction: a cycle is a set of tags each of   *)
(* which has a parent in the set.                                          *)
(***************************************************************************)
EXTENDS ImportTask, FiniteSetTheorems, TLAPS

NoCycle(T, R) == \A S \in SUBSET T :
  S # {} => \E s \in S : ParentsIn(R, s) \cap S = {}

\* The parents of a tag are those that are linked to it.
LEMMA ParentsAreLinked ==
  ASSUME NEW T, NEW R \in SUBSET (T \X T), NEW a, NEW d
  PROVE  a \in ParentsIn(R, d) <=> <<a, d>> \in R
BY DEF ParentsIn

-----------------------------------------------------------------------------
(* What the recursive queries find *)

\* The tag that a search starts from is among what it finds.
LEMMA ReachedSelf ==
  ASSUME NEW T, NEW R, NEW t \in T
  PROVE  t \in Reached(T, R, t)
BY DEF Reached

\* What a search finds is closed under the links.
LEMMA ReachedClosed ==
  ASSUME NEW T, NEW R, NEW t, NEW a \in Reached(T, R, t), NEW d \in T,
         <<a, d>> \in R
  PROVE  d \in Reached(T, R, t)
BY DEF Reached

\* And nothing smaller is.
LEMMA ReachedLeast ==
  ASSUME NEW T, NEW R, NEW t, NEW Z \in SUBSET T, t \in Z,
         \A e \in R : e[1] \in Z => e[2] \in Z
  PROVE  Reached(T, R, t) \subseteq Z
BY DEF Reached

-----------------------------------------------------------------------------
(* Links that are written and validated *)

\* Off t, the links are those that were there; the lists given are t's links.
LEMMA LinksOfOthers ==
  ASSUME NEW T, NEW R \in SUBSET (T \X T), NEW t \in T,
         NEW P \in Lists, NEW C \in Lists,
         UNION P \subseteq T, UNION C \subseteq T
  PROVE  /\ Linked(R, t, P, C) \in SUBSET (T \X T)
         /\ \A a, d \in T : a # t /\ d # t /\ <<a, d>> \in Linked(R, t, P, C)
                              => <<a, d>> \in R
         /\ \A a \in T : a # t /\ P # NotGiven /\ <<a, t>> \in Linked(R, t, P, C)
                              => a \in UNION P
         /\ C # NotGiven /\ <<t, t>> \in Linked(R, t, P, C) => t \in UNION C
         /\ C = NotGiven /\ P # NotGiven /\ <<t, t>> \in Linked(R, t, P, C)
              => t \in UNION P
BY DEF Linked, UpdateParentTags, UpdateChildTags

\* Whatever validates has no parent of t among the descendants of t.
LEMMA ValidParents ==
  ASSUME NEW T, NEW R \in SUBSET (T \X T), NEW t \in T,
         NEW P \in Lists, NEW C \in Lists,
         UNION P \subseteq T, UNION C \subseteq T,
         P # NotGiven \/ C # NotGiven,
         ValidateHierarchy(T, Linked(R, t, P, C), t, P, C),
         NEW p \in T, <<p, t>> \in Linked(R, t, P, C)
  PROVE  p \notin Reached(T, Linked(R, t, P, C), t)
<1> DEFINE L == Linked(R, t, P, C)
<1>1. t \in Reached(T, L, t) /\ t \in Reached(T, {<<e[2], e[1]>> : e \in L}, t)
  BY ReachedSelf
<1>2. CASE P = NotGiven
  <2>1. p \in ParentsIn(L, t)
    BY DEF ParentsIn
  <2> QED BY <1>2, <2>1 DEF ValidateHierarchy, FindAllDescendants
<1>3. CASE P # NotGiven
  <2>1. p \in UNION P \/ p = t
    BY <1>3, LinksOfOthers
  <2>2. CASE p \in UNION P
    BY <1>3, <2>2 DEF ValidateHierarchy, FindAllDescendants
  <2>3. CASE p = t
    <3>1. CASE C = NotGiven
      <4>1. t \in UNION P
        BY <1>3, <2>3, <3>1, LinksOfOthers
      <4> QED BY <1>1, <1>3, <4>1 DEF ValidateHierarchy, FindAllDescendants
    <3>2. CASE C # NotGiven
      <4>1. t \in UNION C
        BY <2>3, <3>2, LinksOfOthers
      <4> QED BY <1>1, <3>2, <4>1 DEF ValidateHierarchy, FindAllAncestors
    <3> QED BY <3>1, <3>2
  <2> QED BY <2>1, <2>2, <2>3
<1> QED BY <1>2, <1>3

\* A set that has no cycle has none after t's links were written and validated:
\* what of a cycle t does not reach would have been one before.
LEMMA SavedHasNoCycle ==
  ASSUME NEW T0, NEW T, NEW R \in SUBSET (T \X T), NEW t \in T,
         T \subseteq T0 \cup {t}, R \subseteq T0 \X T0, NoCycle(T0, R),
         NEW P \in Lists, NEW C \in Lists,
         UNION P \subseteq T, UNION C \subseteq T,
         P # NotGiven \/ C # NotGiven =>
           ValidateHierarchy(T, Linked(R, t, P, C), t, P, C)
  PROVE  NoCycle(T, Linked(R, t, P, C))
<1> DEFINE L == Linked(R, t, P, C)
<1>0. L \in SUBSET (T \X T)
  BY LinksOfOthers
<1>1. ASSUME NEW S \in SUBSET T, S # {}, \A s \in S : ParentsIn(L, s) \cap S # {}
      PROVE  FALSE
  <2>1. \A s \in S : \E q \in S : <<q, s>> \in L
    <3>1. \A s \in S : \A q \in ParentsIn(L, s) : <<q, s>> \in L
      BY <1>0, ParentsAreLinked
    <3> QED BY <1>1, <3>1
  <2>2. ASSUME NEW G \in SUBSET S, t \notin G, G # {},
               \A s \in G : \E q \in G : <<q, s>> \in L
        PROVE  FALSE
    <3>1. \A s \in G : \E q \in G : <<q, s>> \in R
      <4>1. \A a, d \in T : a # t /\ d # t /\ <<a, d>> \in L => <<a, d>> \in R
        BY LinksOfOthers
      <4> QED BY <2>2, <4>1
    <3>2. G \in SUBSET T0
      BY <2>2
    <3>3. PICK s \in G : ParentsIn(R, s) \cap G = {}
      BY <2>2, <3>2 DEF NoCycle
    <3>4. PICK q \in G : <<q, s>> \in R
      BY <3>1
    <3>5. q \in ParentsIn(R, s)
      BY <3>4 DEF ParentsIn
    <3> QED BY <3>3, <3>5
  <2>3. CASE P = NotGiven /\ C = NotGiven
    <3>1. L = R
      BY <2>3 DEF Linked
    <3>2. CASE t \in S /\ t \notin T0
      <4>1. PICK q \in S : <<q, t>> \in R
        BY <2>1, <3>1, <3>2
      <4> QED BY <3>2, <4>1
    <3>3. CASE t \notin S \/ t \in T0
      <4>1. S \in SUBSET T0
        BY <3>3
      <4>2. PICK s \in S : ParentsIn(R, s) \cap S = {}
        BY <1>1, <4>1 DEF NoCycle
      <4> QED BY <1>1, <3>1, <4>2
    <3> QED BY <3>2, <3>3
  <2>4. CASE P # NotGiven \/ C # NotGiven
    <3> DEFINE G == S \ Reached(T, L, t)
    <3>1. \A s \in G : \E q \in G : <<q, s>> \in L
      <4>1. ASSUME NEW s \in G PROVE \E q \in G : <<q, s>> \in L
        <5>1. PICK q \in S : <<q, s>> \in L
          BY <2>1
        <5>2. q \notin Reached(T, L, t)
          BY <5>1, ReachedClosed
        <5> QED BY <5>1, <5>2
      <4> QED BY <4>1
    <3>2. t \notin G
      BY ReachedSelf
    <3>3. G = {}
      BY <2>2, <3>1, <3>2
    <3>4. t \in S
      BY <1>1, <2>1, <2>2
    <3>5. PICK p \in S : <<p, t>> \in L
      BY <2>1, <3>4
    <3>6. p \notin Reached(T, L, t)
      BY <2>4, <3>5, ValidParents
    <3> QED BY <3>3, <3>6
  <2> QED BY <2>3, <2>4
<1> QED BY <1>1 DEF NoCycle
-----------------------------------------------------------------------------
(* The mutations *)

HierarchyOK == TypeOK /\ Acyclic

\* Tags and links that go away close no cycle.
LEMMA DestroyKeepsHierarchy ==
  ASSUME HierarchyOK, NEW D, TagsDestroy(D)
  PROVE  HierarchyOK'
<1>1. TypeOK'
  BY DEF HierarchyOK, TypeOK, TagsDestroy
<1>2. ASSUME NEW S \in SUBSET tags', S # {}
      PROVE  \E s \in S : ParentsIn(relations', s) \cap S = {}
  <2>1. S \in SUBSET tags
    BY <1>2 DEF TagsDestroy
  <2>2. PICK s \in S : ParentsIn(relations, s) \cap S = {}
    BY <1>2, <2>1 DEF HierarchyOK, Acyclic
  <2>3. ParentsIn(relations', s) \subseteq ParentsIn(relations, s)
    BY DEF TagsDestroy, ParentsIn
  <2> QED BY <2>2, <2>3
<1> QED BY <1>1, <1>2 DEF HierarchyOK, Acyclic

\* Nor does what is saved.
LEMMA SaveKeepsHierarchy ==
  ASSUME HierarchyOK, NEW T \in SUBSET Tags, NEW R \in SUBSET (T \X T),
         NEW t \in T, T \subseteq tags \cup {t}, R \subseteq relations,
         NEW P \in Lists, NEW C \in Lists, Save(T, R, t, P, C)
  PROVE  HierarchyOK'
<1> DEFINE L == Linked(R, t, P, C)
<1>1. /\ UNION P \subseteq T /\ UNION C \subseteq T
      /\ P # NotGiven \/ C # NotGiven => ValidateHierarchy(T, L, t, P, C)
      /\ tags' = T /\ relations' = L
  BY DEF Save
<1>2. NoCycle(tags, relations)
  BY DEF HierarchyOK, Acyclic, NoCycle
<1>3. R \subseteq tags \X tags
  BY DEF HierarchyOK, TypeOK
<1>4. NoCycle(tags, R)
  <2>1. ASSUME NEW S \in SUBSET tags, S # {}
        PROVE  \E s \in S : ParentsIn(R, s) \cap S = {}
    <3>1. PICK s \in S : ParentsIn(relations, s) \cap S = {}
      BY <1>2, <2>1 DEF NoCycle
    <3>2. ParentsIn(R, s) \subseteq ParentsIn(relations, s)
      BY DEF ParentsIn
    <3> QED BY <3>1, <3>2
  <2> QED BY <2>1 DEF NoCycle
<1>5. NoCycle(T, L)
  BY <1>1, <1>3, <1>4, SavedHasNoCycle
<1>6. L \in SUBSET (T \X T)
  BY <1>1, LinksOfOthers
<1> QED BY <1>1, <1>5, <1>6 DEF HierarchyOK, TypeOK, Acyclic, NoCycle

\* What merging writes are lists of tags that stay.
LEMMA MergedLists ==
  ASSUME TypeOK, NEW t \in tags, NEW S \in SUBSET (tags \ {t})
  PROVE  /\ {MergeHierarchy(t, S).parents} \in Lists
         /\ {MergeHierarchy(t, S).children} \in Lists
         /\ MergeHierarchy(t, S).parents \subseteq tags \ (S \cup {t})
         /\ MergeHierarchy(t, S).children \subseteq tags \ (S \cup {t})
         /\ \A x, y \in tags : <<x, y>> \in relations =>
              /\ x \in S \cup {t} /\ y \notin S \cup {t}
                   => y \in MergeHierarchy(t, S).children
              /\ y \in S \cup {t} /\ x \notin S \cup {t}
                   => x \in MergeHierarchy(t, S).parents
<1> DEFINE M == S \cup {t}
<1>0. /\ MergeHierarchy(t, S).parents = (UNION {ParentsIn(relations, s) : s \in M}) \ M
      /\ MergeHierarchy(t, S).children = (UNION {ChildrenIn(relations, s) : s \in M}) \ M
  BY DEF MergeHierarchy
<1>1. \A x, y : /\ x \in ParentsIn(relations, y) => x \in tags
                /\ x \in ChildrenIn(relations, y) => x \in tags
                /\ <<x, y>> \in relations => x \in ParentsIn(relations, y)
                /\ <<x, y>> \in relations => y \in ChildrenIn(relations, x)
  BY DEF ParentsIn, ChildrenIn, TypeOK
<1>2. /\ MergeHierarchy(t, S).parents \subseteq tags \ (S \cup {t})
      /\ MergeHierarchy(t, S).children \subseteq tags \ (S \cup {t})
  <2>1. ASSUME NEW x \in MergeHierarchy(t, S).parents PROVE x \in tags \ M
    <3>1. x \notin M /\ \E s \in M : x \in ParentsIn(relations, s)
      BY <1>0
    <3> QED BY <1>1, <3>1
  <2>2. ASSUME NEW x \in MergeHierarchy(t, S).children PROVE x \in tags \ M
    <3>1. x \notin M /\ \E s \in M : x \in ChildrenIn(relations, s)
      BY <1>0
    <3> QED BY <1>1, <3>1
  <2> QED BY <2>1, <2>2
<1>3. tags \subseteq Tags
  BY DEF TypeOK
<1>4. /\ {MergeHierarchy(t, S).parents} \in Lists
      /\ {MergeHierarchy(t, S).children} \in Lists
  BY <1>2, <1>3 DEF Lists
<1>5. ASSUME NEW x \in tags, NEW y \in tags, <<x, y>> \in relations,
             x \in M, y \notin M
      PROVE  y \in MergeHierarchy(t, S).children
  BY <1>0, <1>1, <1>5
<1>6. ASSUME NEW x \in tags, NEW y \in tags, <<x, y>> \in relations,
             y \in M, x \notin M
      PROVE  x \in MergeHierarchy(t, S).parents
  BY <1>0, <1>1, <1>6
<1> QED BY <1>2, <1>4, <1>5, <1>6

\* Whatever is written is of the types.
LEMMA SaveKeepsTypes ==
  ASSUME NEW T \in SUBSET Tags, NEW R \in SUBSET (T \X T), NEW t \in T,
         NEW P \in Lists, NEW C \in Lists, Save(T, R, t, P, C)
  PROVE  TypeOK'
<1>1. /\ UNION P \subseteq T /\ UNION C \subseteq T
      /\ tags' = T /\ relations' = Linked(R, t, P, C)
  BY DEF Save
<1> QED BY <1>1, LinksOfOthers DEF TypeOK

LEMMA EditKeepsTypes ==
  ASSUME TypeOK, Edit
  PROVE  TypeOK'
<1> USE DEF TypeOK
<1>1. ASSUME NEW t \in Tags, NEW P \in Lists, NEW C \in Lists, TagCreate(t, P, C)
      PROVE  TypeOK'
  <2>1. Save(tags \cup {t}, relations, t, P, C)
    BY <1>1 DEF TagCreate
  <2>2. relations \in SUBSET ((tags \cup {t}) \X (tags \cup {t})) /\ tags \cup {t} \in SUBSET Tags
    OBVIOUS
  <2> QED BY <2>1, <2>2, SaveKeepsTypes
<1>2. ASSUME NEW t \in Tags, NEW P \in Lists, NEW C \in Lists, TagUpdate(t, P, C)
      PROVE  TypeOK'
  BY <1>2, SaveKeepsTypes DEF TagUpdate
<1>3. ASSUME NEW D \in SUBSET Tags, TagsDestroy(D)
      PROVE  TypeOK'
  BY <1>3 DEF TagsDestroy
<1>4. ASSUME NEW t \in Tags, NEW S \in SUBSET Tags, TagsMerge(t, S)
      PROVE  TypeOK'
  <2> DEFINE R == {e \in relations : e[1] \notin S /\ e[2] \notin S}
  <2>1. /\ t \in tags /\ S \in SUBSET (tags \ {t})
        /\ Save(tags \ S, R, t, {MergeHierarchy(t, S).parents},
                {MergeHierarchy(t, S).children})
    BY <1>4 DEF TagsMerge
  <2>2. R \in SUBSET ((tags \ S) \X (tags \ S))
    OBVIOUS
  <2>3. /\ {MergeHierarchy(t, S).parents} \in Lists
        /\ {MergeHierarchy(t, S).children} \in Lists
    BY <2>1, MergedLists
  <2>4. t \in tags \ S /\ tags \ S \in SUBSET Tags
    BY <2>1
  <2> HIDE DEF R
  <2> QED BY <2>1, <2>2, <2>3, <2>4, SaveKeepsTypes
<1> QED BY <1>1, <1>2, <1>3, <1>4 DEF Edit

LEMMA EditKeepsHierarchy ==
  ASSUME HierarchyOK, Edit
  PROVE  HierarchyOK'
<1> USE DEF HierarchyOK, TypeOK
<1>1. ASSUME NEW t \in Tags, NEW P \in Lists, NEW C \in Lists, TagCreate(t, P, C)
      PROVE  HierarchyOK'
  <2>1. Save(tags \cup {t}, relations, t, P, C)
    BY <1>1 DEF TagCreate
  <2>2. relations \in SUBSET ((tags \cup {t}) \X (tags \cup {t}))
    OBVIOUS
  <2> QED BY <2>1, <2>2, SaveKeepsHierarchy
<1>2. ASSUME NEW t \in Tags, NEW P \in Lists, NEW C \in Lists, TagUpdate(t, P, C)
      PROVE  HierarchyOK'
  BY <1>2, SaveKeepsHierarchy DEF TagUpdate
<1>3. ASSUME NEW D \in SUBSET Tags, TagsDestroy(D)
      PROVE  HierarchyOK'
  BY <1>3, DestroyKeepsHierarchy
<1>4. ASSUME NEW t \in Tags, NEW S \in SUBSET Tags, TagsMerge(t, S)
      PROVE  HierarchyOK'
  <2> DEFINE R == {e \in relations : e[1] \notin S /\ e[2] \notin S}
  <2>1. /\ t \in tags /\ S \in SUBSET (tags \ {t})
        /\ Save(tags \ S, R, t, {MergeHierarchy(t, S).parents},
                {MergeHierarchy(t, S).children})
    BY <1>4 DEF TagsMerge
  <2>2. R \in SUBSET ((tags \ S) \X (tags \ S)) /\ R \subseteq relations
    OBVIOUS
  <2>3. /\ {MergeHierarchy(t, S).parents} \in Lists
        /\ {MergeHierarchy(t, S).children} \in Lists
    BY <2>1, MergedLists
  <2>4. t \in tags \ S /\ tags \ S \in SUBSET Tags /\ tags \ S \subseteq tags \cup {t}
    BY <2>1
  <2> QED BY <2>1, <2>2, <2>3, <2>4, SaveKeepsHierarchy
<1> QED BY <1>1, <1>2, <1>3, <1>4 DEF Edit
-----------------------------------------------------------------------------
(* Merging and ancestry *)

\* A set that is closed under the new links is closed under the old ones, with
\* the merged tags if it has the one that they became.
LEMMA MergeKeepsDescendants ==
  ASSUME TypeOK, NEW t \in Tags, NEW S \in SUBSET Tags, TagsMerge(t, S),
         NEW a \in tags', NEW d \in tags',
         d \in FindAllDescendants(tags, relations, a)
  PROVE  d \in FindAllDescendants(tags', relations', a)
<1> DEFINE R == {e \in relations : e[1] \notin S /\ e[2] \notin S}
           MP == MergeHierarchy(t, S).parents
           MC == MergeHierarchy(t, S).children
<1>1. /\ t \in tags /\ S \in SUBSET (tags \ {t})
      /\ tags' = tags \ S /\ relations' = Linked(R, t, {MP}, {MC})
  BY DEF TagsMerge, Save
<1>2. relations' = {e \in {e \in R : e[2] # t} \cup (MP \X {t}) : e[1] # t}
                     \cup ({t} \X MC)
  BY <1>1 DEF Linked, UpdateParentTags, UpdateChildTags, NotGiven
<1>3. /\ MP \subseteq tags \ (S \cup {t}) /\ MC \subseteq tags \ (S \cup {t})
      /\ \A x, y \in tags : <<x, y>> \in relations =>
           /\ x \in S \cup {t} /\ y \notin S \cup {t} => y \in MC
           /\ y \in S \cup {t} /\ x \notin S \cup {t} => x \in MP
  BY <1>1, MergedLists
<1>4. \A x, y \in tags : <<x, y>> \in relations =>
        /\ x \in S \cup {t} /\ y \notin S \cup {t} => <<t, y>> \in relations'
        /\ y \in S \cup {t} /\ x \notin S \cup {t} => <<x, t>> \in relations'
        /\ x \notin S \cup {t} /\ y \notin S \cup {t} => <<x, y>> \in relations'
  BY <1>2, <1>3
<1>5. ASSUME NEW Z \in SUBSET tags', a \in Z,
             \A e \in relations' : e[1] \in Z => e[2] \in Z
      PROVE  d \in Z
  <2> DEFINE Y == {x \in tags : x \in Z \/ (t \in Z /\ x \in S)}
  <2>1. \A x, y : <<x, y>> \in relations' /\ x \in Z => y \in Z
    BY <1>5
  <2>2. ASSUME NEW e \in relations, e[1] \in Y PROVE e[2] \in Y
    <3>1. PICK x \in tags, y \in tags : e = <<x, y>>
      BY DEF TypeOK
    <3>2. x \in Y
      BY <2>2, <3>1
    <3>3. CASE x \in S \cup {t}
      BY <1>1, <1>4, <2>1, <3>1, <3>2, <3>3
    <3>4. CASE x \notin S \cup {t}
      BY <1>1, <1>4, <2>1, <3>1, <3>2, <3>4
    <3> QED BY <3>1, <3>3, <3>4
  <2>3. a \in Y /\ Y \in SUBSET tags
    BY <1>1, <1>5
  <2>4. d \in Y
    BY <2>2, <2>3, ReachedLeast DEF FindAllDescendants
  <2> QED BY <1>1, <2>4
<1> QED BY <1>5 DEF FindAllDescendants, Reached

-----------------------------------------------------------------------------
(* The import *)

\* What the files of tags say is linked.
LinksIn(p) == {e \in Tags \X Tags : e[1] \in Range(p.parents[e[2]])}

\* The files of tags and the choices, whoever wrote them.
PlanFits ==
  plan \in [order : Seq(Tags), parents : [Tags -> Seq(Tags)],
            invalid : SUBSET Tags, reset : BOOLEAN, editing : BOOLEAN,
            duplicate : {"FAIL", "IGNORE", "OVERWRITE"},
            missing : {"FAIL", "IGNORE", "CREATE"}]

\* Nobody validates what an import links.  No cycle comes of it if nothing is overwritten
\* and no tag is its own parent, if no parents are given at all, or if nobody else links
\* tags and the files have one hierarchy with the links H that there were.
Adds(p) == p.duplicate # "OVERWRITE" /\ \A e \in LinksIn(p) : e[1] # e[2]
Agrees(p, H) == ~p.editing /\ NoCycle(Tags, H \cup LinksIn(p))
Harmless(p, H) == NoCycle(Tags, H) /\ (Adds(p) \/ LinksIn(p) = {} \/ Agrees(p, H))

\* The tables, or those that a rollback brings back.
Typed(T, R) == T \subseteq Tags /\ R \subseteq T \X T
Tidy(p, T, R, H) ==
  /\ Harmless(p, H) => NoCycle(T, R)
  /\ Agrees(p, H) => R \subseteq H \cup LinksIn(p)

\* What the import goes by stays well formed.
ListsOK ==
  /\ PlanFits
  /\ next \in 1..(Len(plan.order) + 1)
  /\ pending \in [Tags -> Seq(Tags)]
  /\ orphans \in Seq(Tags)
  /\ stack \in Seq([tag : Tags, children : Seq(Tags)])

IInv(H) ==
  /\ Typed(tags, relations) /\ Tidy(plan, tags, relations, H)
  /\ Typed(saved[1], saved[2]) /\ Tidy(plan, saved[1], saved[2], H)
  /\ ListsOK

\* Fewer links among more tags make no cycle, nor do some of those among all tags.
LEMMA FewerLinks ==
  ASSUME NEW T, NEW R, R \subseteq T \X T, NoCycle(T, R),
         NEW T1, NEW R1 \in SUBSET R
  PROVE  NoCycle(T1, R1)
<1>1. ASSUME NEW S \in SUBSET T1, S # {}
      PROVE  \E s \in S : ParentsIn(R1, s) \cap S = {}
  <2>1. \A s : ParentsIn(R1, s) \subseteq ParentsIn(R, s) \cap T
    BY DEF ParentsIn
  <2>2. \A s : s \notin T => ParentsIn(R1, s) = {}
    BY DEF ParentsIn
  <2>3. CASE S \cap T = {}
    BY <1>1, <2>2, <2>3
  <2>4. CASE S \cap T # {}
    <3>1. PICK s \in S \cap T : ParentsIn(R, s) \cap (S \cap T) = {}
      BY <2>4 DEF NoCycle
    <3> QED BY <2>1, <3>1
  <2> QED BY <2>3, <2>4
<1> QED BY <1>1 DEF NoCycle

\* A tag that did not exist, with parents that do, closes no cycle: it has no
\* children, and what is created for it has neither parents nor other children.
LEMMA NewTagMakesNoCycle ==
  ASSUME NEW T, NEW R \in SUBSET (T \X T), NoCycle(T, R), NEW t, t \notin T,
         NEW F, t \notin F, NEW T1, T \cup {t} \subseteq T1, T1 \subseteq T \cup {t} \cup F,
         NEW R1, R1 = {e \in R : e[2] # t} \cup ((F \cap T1) \X {t})
  PROVE  NoCycle(T1, R1)
<1>4. \A q, s : <<q, s>> \in R1 =>
        /\ s # t => q \in T /\ s \in T /\ <<q, s>> \in R
        /\ s = t => q # t
  OBVIOUS
<1>5. ASSUME NEW S \in SUBSET T1, S # {}
      PROVE  \E s \in S : \A q \in S : <<q, s>> \notin R1
  <2>1. CASE \E s \in S : s \notin T /\ s # t
    BY <1>4, <2>1
  <2>2. CASE S \cap T # {}
    <3>1. PICK s \in S \cap T : ParentsIn(R, s) \cap (S \cap T) = {}
      BY <2>2 DEF NoCycle
    <3>2. \A q \in S : <<q, s>> \notin R1
      <4>1. ASSUME NEW q \in S, <<q, s>> \in R1 PROVE FALSE
        <5>1. q \in T /\ <<q, s>> \in R
          BY <1>4, <3>1, <4>1
        <5>2. q \in ParentsIn(R, s)
          BY <5>1 DEF ParentsIn
        <5> QED BY <3>1, <5>1, <5>2
      <4> QED BY <4>1
    <3> QED BY <3>1, <3>2
  <2>3. CASE S = {t}
    BY <1>4, <2>3
  <2> QED BY <1>5, <2>1, <2>2, <2>3
<1>6. ASSUME NEW S \in SUBSET T1, S # {}
      PROVE  \E s \in S : ParentsIn(R1, s) \cap S = {}
  <2>1. PICK s \in S : \A q \in S : <<q, s>> \notin R1
    BY <1>5, <1>6
  <2>2. R1 \in SUBSET (T1 \X T1)
    OBVIOUS
  <2>3. \A q : q \in ParentsIn(R1, s) => <<q, s>> \in R1
    BY <2>2, ParentsAreLinked
  <2> QED BY <2>1, <2>3
<1> QED BY <1>6 DEF NoCycle

\* What a file stores is of the types, and closes no cycle if it may not.
LEMMA StoreKeepsOrder ==
  ASSUME PlanFits, NEW H, Typed(tags, relations), Tidy(plan, tags, relations, H),
         NEW t \in Tags, ~Refused(t), ~Skipped(t), Store(t)
  PROVE  Typed(tags', relations') /\ Tidy(plan, tags', relations', H)
<1> DEFINE F == Range(plan.parents[t])
<1>1. F \subseteq Tags /\ \A f \in F : <<f, t>> \in LinksIn(plan)
  <2>1. plan.parents[t] \in Seq(Tags)
    BY DEF PlanFits
  <2> QED BY <2>1 DEF Range, LinksIn
<1>2. /\ tags \cup {t} \subseteq tags' /\ tags' \subseteq tags \cup {t} \cup F
      /\ relations' = {e \in relations : e[2] # t} \cup ((F \cap tags') \X {t})
  BY DEF Store, UpdateParentTags
<1> HIDE DEF F
<1>3. Typed(tags', relations')
  BY <1>1, <1>2 DEF Typed
<1>4. ASSUME Adds(plan), NoCycle(Tags, H) PROVE NoCycle(tags', relations')
  <2>1. t \notin F
    BY <1>1, <1>4 DEF Adds
  <2>2. t \notin tags
    BY <1>4 DEF Refused, Skipped, Adds, PlanFits
  <2>3. NoCycle(tags, relations) /\ relations \in SUBSET (tags \X tags)
    BY <1>4 DEF Tidy, Harmless, Typed
  <2> QED BY <1>2, <2>1, <2>2, <2>3, NewTagMakesNoCycle
<1>5. ASSUME LinksIn(plan) = {}, NoCycle(Tags, H) PROVE NoCycle(tags', relations')
  <2>1. F = {}
    BY <1>1, <1>5
  <2>2. relations' \in SUBSET relations
    BY <1>2, <2>1
  <2>3. NoCycle(tags, relations) /\ relations \subseteq tags \X tags
    BY <1>5 DEF Tidy, Harmless, Typed
  <2> QED BY <2>2, <2>3, FewerLinks
<1>6. ASSUME Agrees(plan, H) PROVE relations' \subseteq H \cup LinksIn(plan) /\ NoCycle(tags', relations')
  <2>1. relations' \subseteq H \cup LinksIn(plan)
    BY <1>1, <1>2, <1>6 DEF Tidy
  <2>2. relations' \subseteq Tags \X Tags
    BY <1>3 DEF Typed
  <2>3. NoCycle(Tags, relations')
    <3>1. ASSUME NEW S \in SUBSET Tags, S # {}
          PROVE  \E s \in S : ParentsIn(relations', s) \cap S = {}
      <4>1. PICK s \in S : ParentsIn(H \cup LinksIn(plan), s) \cap S = {}
        BY <1>6, <3>1 DEF Agrees, NoCycle
      <4>2. ParentsIn(relations', s) \subseteq ParentsIn(H \cup LinksIn(plan), s)
        BY <2>1 DEF ParentsIn
      <4> QED BY <4>1, <4>2
    <3> QED BY <3>1 DEF NoCycle
  <2>4. relations' \in SUBSET relations'
    OBVIOUS
  <2> QED BY <2>1, <2>2, <2>3, <2>4, FewerLinks
<1> QED BY <1>3, <1>4, <1>5, <1>6 DEF Tidy, Harmless

-----------------------------------------------------------------------------
(* The steps of the import *)

\* Waiting keeps the lists well formed.
LEMMA WaitKeepsLists ==
  ASSUME pending \in [Tags -> Seq(Tags)], NEW t \in Tags, NEW m
  PROVE  Wait(t, m) \in [Tags -> Seq(Tags)]
<1>1. CASE m \in Tags
  <2>1. Append(pending[m], t) \in Seq(Tags)
    BY <1>1
  <2> QED BY <2>1 DEF Wait
<1>2. CASE m \notin Tags
  <2>1. Wait(t, m) = pending
    BY <1>2 DEF Wait
  <2> QED BY <2>1
<1> QED BY <1>1, <1>2

\* An element of a sequence is one of what it is a sequence of.
LEMMA ElementOfSeq ==
  ASSUME NEW S, NEW s \in Seq(S), NEW i \in 1..Len(s)
  PROVE  s[i] \in S
OBVIOUS

\* The innermost call, and the calls when its children are replaced.
LEMMA InnermostCall ==
  ASSUME NEW S, NEW s \in Seq([tag : Tags, children : S]), s # <<>>, NEW c \in S
  PROVE  /\ s[1] \in [tag : Tags, children : S]
         /\ Tail(s) \in Seq([tag : Tags, children : S])
         /\ [s EXCEPT ![1].children = c] \in Seq([tag : Tags, children : S])
<1>1. 1 \in 1..Len(s) /\ s[1] \in [tag : Tags, children : S]
  <2>1. Len(s) \in Nat /\ Len(s) # 0
    OBVIOUS
  <2>2. 1 \in 1..Len(s)
    BY <2>1
  <2> QED BY <2>2, ElementOfSeq
<1>2. [s[1] EXCEPT !.children = c] \in [tag : Tags, children : S]
  BY <1>1
<1> QED BY <1>1, <1>2

\* The tables as the files allow them, and those that a rollback brings back.
TablesOK(H) == Typed(tags, relations) /\ Tidy(plan, tags, relations, H)
SavedOK(H) == Typed(saved[1], saved[2]) /\ Tidy(plan, saved[1], saved[2], H)

\* An import inside of the calls in outer.
LEMMA EnterKeepsAll ==
  ASSUME NEW H, IInv(H), NEW t \in Tags, plan' = plan,
         NEW outer \in Seq([tag : Tags, children : Seq(Tags)]),
         Enter(t, outer)
  PROVE  /\ TablesOK(H)'
         /\ pending' \in [Tags -> Seq(Tags)]
         /\ stack' \in Seq([tag : Tags, children : Seq(Tags)])
<1>1. PlanFits /\ pending \in [Tags -> Seq(Tags)]
  BY DEF IInv, ListsOK
<1>2. TablesOK(H)'
  <2>1. CASE Skipped(t)
    BY <2>1 DEF Enter, IInv, TablesOK, tagVars
  <2>2. CASE ~Skipped(t)
    <3>1. Store(t) /\ ~Refused(t)
      BY <2>2 DEF Enter
    <3>2. Typed(tags', relations') /\ Tidy(plan, tags', relations', H)
      BY <1>1, <2>2, <3>1, StoreKeepsOrder DEF IInv
    <3> QED BY <3>2 DEF TablesOK
  <2> QED BY <2>1, <2>2
<1>3. pending' \in [Tags -> Seq(Tags)]
  BY <1>1 DEF Enter
<1>4. stack' \in Seq([tag : Tags, children : Seq(Tags)])
  <2> DEFINE call == [tag |-> t, children |-> IF phase = "first" THEN pending[t]
                                             ELSE <<>>]
  <2>1. call \in [tag : Tags, children : Seq(Tags)]
    BY <1>1
  <2>2. stack' = <<call>> \o outer
    BY DEF Enter
  <2> QED BY <2>1, <2>2
<1> QED BY <1>2, <1>3, <1>4

\* A transaction begins with tables that are saved.
LEMMA BeginKeepsAll ==
  ASSUME NEW H, IInv(H), NEW t \in Tags, plan' = plan, Begin(t)
  PROVE  /\ TablesOK(H)' /\ SavedOK(H)'
         /\ pending' \in [Tags -> Seq(Tags)]
         /\ stack' \in Seq([tag : Tags, children : Seq(Tags)])
<1>1. pending \in [Tags -> Seq(Tags)]
  BY DEF IInv, ListsOK
<1>2. CASE Fails(t) \/ LacksParent(t)
  <2>1. UNCHANGED <<tagVars, stack, saved>>
    BY <1>2 DEF Begin
  <2>2. pending' \in [Tags -> Seq(Tags)]
    BY <1>1, <1>2, WaitKeepsLists DEF Begin
  <2> QED BY <2>1, <2>2 DEF IInv, ListsOK, TablesOK, SavedOK, tagVars
<1>3. CASE ~(Fails(t) \/ LacksParent(t))
  <2>1. saved' = <<tags, relations>> /\ Enter(t, <<>>)
    BY <1>3 DEF Begin, tagVars
  <2>2. SavedOK(H)'
    BY <2>1 DEF SavedOK, IInv
  <2>3. <<>> \in Seq([tag : Tags, children : Seq(Tags)])
    OBVIOUS
  <2> QED BY <2>1, <2>2, <2>3, EnterKeepsAll
<1> QED BY <1>2, <1>3

\* More tags with the same links are as good.
LEMMA MoreTagsKeepOrder ==
  ASSUME NEW H, TablesOK(H), plan' = plan, relations' = relations,
         tags \subseteq tags', tags' \subseteq Tags
  PROVE  TablesOK(H)'
<1>1. Typed(tags', relations')
  BY DEF TablesOK, Typed
<1>2. NoCycle(tags, relations) => NoCycle(tags', relations')
  <2>1. relations' \in SUBSET relations /\ relations \subseteq tags \X tags
    BY DEF TablesOK, Typed
  <2> QED BY <2>1, FewerLinks
<1> QED BY <1>1, <1>2 DEF TablesOK, Tidy

\* Nothing saved is as good as anything.
LEMMA NothingIsOrderly ==
  ASSUME NEW H, saved = NoTables
  PROVE  SavedOK(H)
BY DEF NoTables, SavedOK, Typed, Tidy, NoCycle

\* Rolling back restores tables that were as they may be.
LEMMA RollBackKeepsAll ==
  ASSUME NEW H, IInv(H), plan' = plan, RollBack
  PROVE  TablesOK(H)' /\ SavedOK(H)' /\ stack' = <<>>
<1>1. tags' = saved[1] /\ relations' = saved[2] /\ saved' = <<{}, {}>>
  BY DEF RollBack, NoTables
<1>2. TablesOK(H)'
  BY <1>1 DEF IInv, TablesOK
<1>3. SavedOK(H)'
  BY <1>1 DEF SavedOK, Typed, Tidy, NoCycle
<1> QED BY <1>2, <1>3 DEF RollBack

\* A user's edit keeps the types, and closes no cycle.
LEMMA EditKeepsOrder ==
  ASSUME NEW H, TablesOK(H), plan' = plan, plan.editing, Edit
  PROVE  TablesOK(H)'
<1>1. Typed(tags', relations')
  BY EditKeepsTypes DEF TablesOK, Typed, TypeOK
<1>2. ASSUME Harmless(plan, H) PROVE NoCycle(tags', relations')
  <2>1. HierarchyOK
    BY <1>2 DEF TablesOK, Typed, Tidy, HierarchyOK, TypeOK, Acyclic, NoCycle
  <2>2. HierarchyOK'
    BY <2>1, EditKeepsHierarchy
  <2> QED BY <2>2 DEF HierarchyOK, Acyclic, NoCycle
<1>3. ~Agrees(plan, H)
  BY DEF Agrees
<1> QED BY <1>1, <1>2, <1>3 DEF TablesOK, Tidy

LEMMA InitIInv == Init => IInv({})
<1> SUFFICES ASSUME Init PROVE IInv({})
  OBVIOUS
<1>1. PlanFits /\ Len(plan.order) \in Nat
  BY ImportAssumption DEF Init, ImportInit, PlanFits
<1>2. Typed(tags, relations) /\ Tidy(plan, tags, relations, {})
  BY DEF Init, TagInit, Typed, Tidy, NoCycle
<1>3. SavedOK({})
  BY NothingIsOrderly DEF Init, ImportInit
<1>4. ListsOK
  BY <1>1 DEF Init, ImportInit, ListsOK
<1> QED BY <1>2, <1>3, <1>4 DEF IInv, SavedOK

LEMMA PlanStays == [Next]_vars => plan' = plan
BY DEF Next, ImportStep, StartImport, ImportNext, FirstPhaseEnds, NextOrphans, ImportOrphan,
       ImportEnds, ImportChild, Return, Overflow, CancelImport, UserEdits, vars

LEMMA NextIInv ==
  ASSUME NEW H, IInv(H), [Next]_vars
  PROVE  IInv(H)'
<1> DEFINE Calls == Seq([tag : Tags, children : Seq(Tags)])
<1>0. /\ TablesOK(H) /\ SavedOK(H)
      /\ PlanFits /\ next \in 1..(Len(plan.order) + 1)
      /\ pending \in [Tags -> Seq(Tags)] /\ orphans \in Seq(Tags) /\ stack \in Calls
      /\ plan.order \in Seq(Tags) /\ Len(plan.order) \in Nat
      /\ plan' = plan /\ PlanFits'
  BY PlanStays DEF IInv, ListsOK, PlanFits, TablesOK, SavedOK
\* What leaves the tables alone keeps them.
<1>1. UNCHANGED tagVars => TablesOK(H)'
  BY <1>0 DEF TablesOK, tagVars
<1>2. UNCHANGED saved => SavedOK(H)'
  BY <1>0 DEF SavedOK
<1> SUFFICES ASSUME TRUE PROVE TablesOK(H)' /\ SavedOK(H)' /\ ListsOK'
  BY DEF IInv, TablesOK, SavedOK
<1>3. CASE UNCHANGED vars
  BY <1>0, <1>1, <1>2, <1>3 DEF vars, importVars, ListsOK
<1>4. CASE StartImport
  <2>1. TablesOK(H)'
    BY <1>0, <1>1, <1>4 DEF StartImport, TablesOK, Typed, Tidy, NoCycle
  <2> QED BY <1>0, <1>2, <1>4, <2>1 DEF StartImport, ListsOK
<1>5. CASE ImportNext
  <2>1. next \in 1..Len(plan.order) /\ plan.order[next] \in Tags
    BY <1>0, <1>5 DEF ImportNext
  <2>2. Begin(plan.order[next])
    BY <1>5 DEF ImportNext
  <2>3. next' \in 1..(Len(plan.order) + 1)
    BY <1>0, <1>5, <2>1 DEF ImportNext
  <2> QED BY <1>0, <1>5, <2>1, <2>2, <2>3, BeginKeepsAll
          DEF ImportNext, ListsOK
<1>6. CASE FirstPhaseEnds
  BY <1>0, <1>1, <1>2, <1>6 DEF FirstPhaseEnds, ListsOK
<1>7. CASE NextOrphans
  BY <1>0, <1>1, <1>2, <1>7 DEF NextOrphans, ListsOK
<1>8. CASE ImportOrphan
  <2>1. Head(orphans) \in Tags /\ Tail(orphans) \in Seq(Tags)
    BY <1>0, <1>8 DEF ImportOrphan
  <2>2. Begin(Head(orphans))
    BY <1>8 DEF ImportOrphan
  <2> QED BY <1>0, <1>8, <2>1, <2>2, BeginKeepsAll
          DEF ImportOrphan, ListsOK
<1>9. CASE ImportEnds
  BY <1>0, <1>1, <1>2, <1>9 DEF ImportEnds, ListsOK
<1>10. CASE ImportChild
  <2> DEFINE t == Head(stack[1].children)
             outer == [stack EXCEPT ![1].children = Tail(@)]
  <2>1. stack[1] \in [tag : Tags, children : Seq(Tags)]
    BY <1>0, <1>10, InnermostCall DEF ImportChild
  <2>2. t \in Tags /\ Tail(stack[1].children) \in Seq(Tags)
    BY <2>1, <1>10 DEF ImportChild
  <2>3. outer \in Calls
    BY <1>0, <1>10, <2>2, InnermostCall DEF ImportChild
  <2>4. outer[1].tag \in Tags
    BY <1>0, <1>10, <2>1 DEF ImportChild
  <2>5. CASE Enter(t, outer) /\ UNCHANGED saved
    BY <1>0, <1>2, <1>10, <2>2, <2>3, <2>5, EnterKeepsAll
       DEF ImportChild, ListsOK
  <2>6. CASE /\ LacksParent(t)
             /\ tags' = tags \cup {t} /\ UNCHANGED <<relations, saved>>
             /\ pending' = WaitAgain(outer, t) /\ stack' = outer
    <3>1. pending' \in [Tags -> Seq(Tags)]
      BY <1>0, <2>6, <2>4, WaitKeepsLists DEF WaitAgain
    <3>2. TablesOK(H)'
      <4>1. relations' = relations /\ tags \subseteq tags' /\ tags' \subseteq Tags
        BY <1>0, <2>2, <2>6 DEF TablesOK, Typed
      <4> QED BY <1>0, <4>1, MoreTagsKeepOrder
    <3> QED BY <1>0, <1>2, <1>10, <2>3, <2>6, <3>1, <3>2
            DEF ImportChild, ListsOK
  <2>7. CASE RollBack /\ UNCHANGED pending
    <3>1. TablesOK(H)' /\ SavedOK(H)' /\ stack' = <<>>
      BY <1>0, <2>7, RollBackKeepsAll
    <3> QED BY <1>0, <1>10, <2>7, <3>1 DEF ImportChild, ListsOK
  <2> QED BY <1>10, <2>5, <2>6, <2>7 DEF ImportChild
<1>11. CASE Return
  <2>1. SavedOK(H)'
    BY <1>0, <1>11 DEF Return, SavedOK, NoTables, Typed, Tidy, NoCycle
  <2>2. pending' \in [Tags -> Seq(Tags)] /\ stack' \in Calls
    <3>1. stack[1].tag \in Tags /\ stack' \in Calls
      BY <1>0, <1>11, InnermostCall DEF Return
    <3>2. pending' \in [Tags -> Seq(Tags)]
      BY <1>0, <1>11, <3>1 DEF Return
    <3> QED BY <3>1, <3>2
  <2> QED BY <1>0, <1>1, <1>11, <2>1, <2>2 DEF Return, ListsOK
<1>12. CASE Overflow
  <2>1. TablesOK(H)' /\ SavedOK(H)' /\ stack' = <<>>
    BY <1>0, <1>12, RollBackKeepsAll DEF Overflow
  <2> QED BY <1>0, <1>12, <2>1 DEF Overflow, ListsOK
<1>13. CASE CancelImport
  <2>1. TablesOK(H)' /\ SavedOK(H)' /\ stack' \in Calls
    <3>1. CASE stack = <<>>
      BY <1>0, <1>1, <1>2, <1>13, <3>1 DEF CancelImport
    <3>2. CASE stack # <<>>
      <4>1. TablesOK(H)' /\ SavedOK(H)' /\ stack' = <<>>
        BY <1>0, <1>13, <3>2, RollBackKeepsAll DEF CancelImport
      <4> QED BY <4>1
    <3> QED BY <3>1, <3>2
  <2> QED BY <1>0, <1>13, <2>1 DEF CancelImport, ListsOK
<1>14. CASE UserEdits
  <2>1. TablesOK(H)'
    BY <1>0, <1>14, EditKeepsOrder DEF UserEdits
  <2> QED BY <1>0, <1>2, <1>14, <2>1 DEF UserEdits, importVars, ListsOK
<1> QED BY <1>3, <1>4, <1>5, <1>6, <1>7, <1>8, <1>9, <1>10, <1>11, <1>12, <1>13,
           <1>14 DEF Next, ImportStep

-----------------------------------------------------------------------------
(* The theorems *)

\* Files that overwrite nothing, and in which no tag is its own parent.
PlainPlans == \A p \in Plans : Adds(p)

(***************************************************************************)
(* Whatever users do to tags, none becomes its own ancestor, so that the   *)
(* searches for ancestors and descendants come to an end (ValidateHierarchy*)
(* after the links are written, resolver_mutation_tag.go:113 and 237).     *)
(***************************************************************************)
THEOREM EditsMakeNoCycle == HierarchySpec => []Acyclic
<1>1. TagInit => HierarchyOK
  BY DEF TagInit, HierarchyOK, TypeOK, Acyclic
<1>2. HierarchyOK /\ [Edit]_tagVars => HierarchyOK'
  <2>1. CASE UNCHANGED tagVars
    BY <2>1 DEF tagVars, HierarchyOK, TypeOK, Acyclic
  <2>2. CASE Edit
    BY <2>2, EditKeepsHierarchy
  <2> QED BY <2>1, <2>2
<1>3. HierarchyOK => Acyclic
  BY DEF HierarchyOK
<1> QED BY <1>1, <1>2, <1>3, PTL DEF HierarchySpec

(***************************************************************************)
(* Nor does one when imports, which do not validate (pkg/tag/import.go:67),*)
(* run between and are rolled back at any point, if they overwrite nothing *)
(* and no file lists a tag as its own parent.                              *)
(***************************************************************************)
THEOREM HierarchyHasNoCycle ==
  ASSUME PlainPlans
  PROVE  Spec => []Acyclic
<1>1. Init => IInv({}) /\ plan \in Plans
  BY InitIInv DEF Init, ImportInit
<1>2. IInv({}) /\ plan \in Plans /\ [Next]_vars => (IInv({}) /\ plan \in Plans)'
  <2>1. ASSUME IInv({}), plan \in Plans, [Next]_vars PROVE IInv({})' /\ plan' \in Plans
    BY <2>1, PlanStays, NextIInv
  <2> QED BY <2>1
<1>3. IInv({}) /\ plan \in Plans => Acyclic
  <2>1. NoCycle(Tags, {})
    BY DEF NoCycle, ParentsIn
  <2> QED BY <2>1 DEF PlainPlans, IInv, Tidy, Harmless, NoCycle, Acyclic
<1> QED BY <1>1, <1>2, <1>3, PTL DEF Spec

\* A step that merges tags keeps ancestry, whatever else it is a step of.
MergeKept ==
  \A t \in tags' : TagsMerge(t, tags \ tags') =>
    \A a, d \in tags' :
      d \in FindAllDescendants(tags, relations, a)
        => d \in FindAllDescendants(tags', relations', a)

LEMMA StepsKeepAncestry ==
  ASSUME TypeOK
  PROVE  MergeKept
<1> SUFFICES ASSUME NEW t \in tags', TagsMerge(t, tags \ tags'),
                    NEW a \in tags', NEW d \in tags',
                    d \in FindAllDescendants(tags, relations, a)
             PROVE  d \in FindAllDescendants(tags', relations', a)
  BY DEF MergeKept
<1>1. tags \ tags' \in SUBSET Tags /\ t \in Tags
  BY DEF TypeOK, TagsMerge
<1> QED BY <1>1, MergeKeepsDescendants

(***************************************************************************)
(* Merging never takes a tag out of the subtree of another (MergeHierarchy,*)
(* pkg/tag/update.go:167-211), during imports of any files too.            *)
(***************************************************************************)
THEOREM MergesKeepAncestry == Spec => MergeKeepsAncestry
<1>1. IInv({}) /\ [Next]_vars => IInv({})'
  <2>1. ASSUME IInv({}), [Next]_vars PROVE IInv({})'
    BY <2>1, NextIInv
  <2> QED BY <2>1
<1>2. IInv({}) => [MergeKept]_tagVars
  BY StepsKeepAncestry DEF IInv, Typed, TypeOK
<1> QED BY <1>1, <1>2, InitIInv, PTL DEF Spec, MergeKeepsAncestry, MergeKept

-----------------------------------------------------------------------------
(* What every transfer goes by *)

\* The names of a set of tags, sorted, are a sequence of them.
LEMMA ByNameIsSequence ==
  ASSUME NEW S \in SUBSET Tags, NEW s \in ByName(S)
  PROVE  s \in Seq(Tags) /\ \A i \in DOMAIN s : s[i] \in S
<1>1. Cardinality(S) \in Nat
  BY TransferAssumption, FS_Subset, FS_CardinalityType
<1>2. s \in [1..Cardinality(S) -> S]
  BY DEF ByName
<1> QED BY <1>1, <1>2

\* An export writes files that fit.
LEMMA ExportedPlan ==
  ASSUME PlanFits, relations \in SUBSET (Tags \X Tags), ExportEnds
  PROVE  /\ PlanFits'
         /\ plan'.duplicate = plan.duplicate /\ plan'.editing = plan.editing
         /\ \A t \in Tags : Range(plan'.parents[t]) \subseteq ParentsIn(relations, t)
<1>1. PICK order \in ByName(files.listed \cap Tags),
           parents \in [Tags -> UNION {ByName(ParentsIn(relations, t)) : t \in Tags}] :
        /\ \A t \in Tags : parents[t] \in ByName(ParentsIn(relations, t))
        /\ plan' = [plan EXCEPT !.order = order, !.parents = parents]
  BY DEF ExportEnds
<1>2. order \in Seq(Tags)
  BY ByNameIsSequence
<1>3. ASSUME NEW t \in Tags
      PROVE  parents[t] \in Seq(Tags) /\ Range(parents[t]) \subseteq ParentsIn(relations, t)
  <2>1. ParentsIn(relations, t) \in SUBSET Tags
    BY DEF ParentsIn
  <2> QED BY <1>1, <2>1, ByNameIsSequence DEF Range
<1>4. parents \in [Tags -> Seq(Tags)]
  BY <1>3
<1> QED BY <1>1, <1>2, <1>3, <1>4 DEF PlanFits

\* The transfer stays what it was; the tags do until the export is over.
Underway ==
  /\ transfer \in Transfers /\ PlanFits
  /\ stage = "export" =>
       tags = transfer.library.tags /\ relations = transfer.library.relations

LEMMA ImportTagsKeepsPlan ==
  ASSUME ImportTagsStep(ImportStep) \/ ImportTagsStep(CancelImport \/ UserEdits)
  PROVE  plan' = plan /\ stage = "tags" /\ stage' \in {"tags", "down"}
         /\ UNCHANGED <<transfer, files>>
BY DEF ImportTagsStep, ImportStep, StartImport, ImportNext, FirstPhaseEnds, NextOrphans,
       ImportOrphan, ImportEnds, ImportChild, Return, Overflow, CancelImport, UserEdits

LEMMA InitUnderway == TransferInit => Underway
BY ImportAssumption, TransferAssumption DEF TransferInit, ImportInit, Underway, PlanFits

LEMMA NextUnderway == Underway /\ [TransferNext]_allVars => Underway'
<1> SUFFICES ASSUME Underway, [TransferNext]_allVars PROVE Underway'
  OBVIOUS
<1>1. transfer' = transfer
  BY ImportTagsKeepsPlan
     DEF TransferNext, TransferStep, ExportStep, Populate, NextKind, ExportEnds, Look,
         ResolvePanics, Resolve, Load, StoreList, SaveFile, UserDeletes, TagsAreImported,
         ImportOther, ImportStudio, NextWaiting, ImportWaiting, NextLoop, TaskEnds,
         CancelRest, allVars, transferVars
<1>2. CASE ExportEnds
  <2>1. relations \in SUBSET (Tags \X Tags) /\ stage' # "export"
    BY <1>2, TransferAssumption DEF Underway, Libraries, ExportEnds
  <2> QED BY <1>1, <1>2, <2>1, ExportedPlan DEF Underway
<1>3. CASE ImportTagsStep(ImportStep) \/ ImportTagsStep(CancelImport \/ UserEdits)
  BY <1>1, <1>3, ImportTagsKeepsPlan DEF Underway, PlanFits
<1>4. CASE /\ ~ExportEnds
           /\ ~(ImportTagsStep(ImportStep) \/ ImportTagsStep(CancelImport \/ UserEdits))
  <2>1. plan' = plan /\ (stage' = "export" => stage = "export" /\ UNCHANGED <<tags, relations>>)
    BY <1>4 DEF TransferNext, TransferStep, ExportStep, Populate, NextKind, Look,
         ResolvePanics, Resolve, Load, StoreList, SaveFile, UserDeletes, TagsAreImported,
         ImportOther, ImportStudio, NextWaiting, ImportWaiting, NextLoop, TaskEnds,
         CancelRest, allVars, transferVars, vars, tagVars
  <2> QED BY <1>1, <2>1 DEF Underway, PlanFits
<1> QED BY <1>2, <1>3, <1>4

-----------------------------------------------------------------------------
(* Imports that overwrite nothing *)

\* The row of an object, and what refers to whom, are as before.
Keeps(d) ==
  /\ rows \subseteq d.rows
  /\ \A x \in rows : /\ RefsIn(d.refs, x) = RefsIn(refs, x)
                     /\ {m \in d.markers : m[1] = x} = MarksOf(x)

\* The import of an object that is there changes nothing; what it lacks is new.
LEMMA ImportedKeeps ==
  ASSUME PlanFits, plan.duplicate # "OVERWRITE", NEW o, NEW behaviour,
         ~Rejected(Tables, o, behaviour)
  PROVE  /\ Keeps(Imported(Tables, o, behaviour))
         /\ Imported(Tables, o, behaviour).markers = markers
         /\ o \in Imported(Tables, o, behaviour).rows
         /\ o \in rows => plan.duplicate = "IGNORE"
<1> DEFINE ready == PreImported(Tables, o, behaviour)
<1>1. rows \subseteq ready.rows /\ ready.refs = refs /\ ready.markers = markers
  BY DEF PreImported, Tables
<1>2. CASE o \in ready.rows
  <2>1. plan.duplicate = "IGNORE"
    BY <1>2 DEF Rejected, PlanFits
  <2>2. Imported(Tables, o, behaviour) = ready
    BY <1>2, <2>1 DEF Imported
  <2> QED BY <1>1, <1>2, <2>1, <2>2 DEF Keeps, MarksOf
<1>3. CASE o \notin ready.rows
  <2>1. Imported(Tables, o, behaviour) = Stored(ready, o)
    BY <1>3 DEF Imported
  <2> DEFINE d == Stored(ready, o)
  <2>2. d.rows = ready.rows \cup {o} /\ d.markers = markers
    BY <1>1 DEF Stored, PreImported, Tables
  <2>3. \A e : e[1] # o => (e \in d.refs <=> e \in refs)
    BY <1>1 DEF Stored, PreImported, Tables
  <2>4. \A x \in rows : x # o
    BY <1>1, <1>3
  <2>5. \A x \in rows : RefsIn(d.refs, x) = RefsIn(refs, x)
    BY <2>3, <2>4 DEF RefsIn
  <2>6. Keeps(d)
    BY <1>1, <2>2, <2>5 DEF Keeps, MarksOf
  <2> QED BY <1>1, <1>3, <2>1, <2>2, <2>6
<1> QED BY <1>2, <1>3

\* The markers of a scene that is there are left alone.
LEMMA ImportMarkersKeeps ==
  ASSUME PlanFits, plan.duplicate # "OVERWRITE", NEW o,
         NEW d0 \in PerformImport(Tables, o, Behaviour(o)),
         NEW d \in ImportMarkers(Tables, d0, o)
  PROVE  Keeps(d)
<1>1. /\ d0 = Imported(Tables, o, Behaviour(o)) /\ Keeps(d0) /\ d0.markers = markers
      /\ o \in rows => plan.duplicate = "IGNORE"
  BY ImportedKeeps DEF PerformImport
<1>2. CASE d = d0
  BY <1>1, <1>2
<1>3. CASE d # d0
  <2>1. o \in SceneID(Tables, o)
    BY <1>3 DEF ImportMarkers
  <2>2. o \notin rows
    BY <1>1, <2>1 DEF SceneID, Tables
  <2> DEFINE marks == {m \in files.markers : m[1] = o}
             primaries == {m[3] : m \in marks}
             at == {m[2] : m \in marks}
             Put(f) == {m \in d0.markers : m[1] # o \/ m[2] \notin at}
                         \cup {<<o, x, f[x]>> : x \in at}
             chosen == {f \in [at -> primaries] : \A x \in at : <<o, x, f[x]>> \in marks}
  <2>3. d \in {[d0 EXCEPT !.markers = Put(f), !.tags = @ \cup primaries] : f \in chosen}
    BY <1>3, Zenon DEF ImportMarkers
  <2> HIDE DEF chosen, Put, primaries, at
  <2>4. PICK f \in chosen : d = [d0 EXCEPT !.markers = Put(f), !.tags = @ \cup primaries]
    BY <2>3
  <2>5. d0 \in [rows : {d0.rows}, refs : {d0.refs}, markers : {markers}, tags : {d0.tags}]
    BY <1>1 DEF Imported, Stored, PreImported, Tables
  <2>6. d.rows = d0.rows /\ d.refs = d0.refs /\ d.markers = Put(f)
    BY <2>4, <2>5
  <2> USE DEF Put
  <2>7. \A m : m[1] # o => (m \in d.markers <=> m \in markers)
    BY <1>1, <2>6
  <2> QED BY <1>1, <2>2, <2>6, <2>7 DEF Keeps, MarksOf
<1> QED BY <1>2, <1>3

\* A studio is imported, and those that waited for it, each into its own row.
LEMMA WithChildrenKeeps ==
  ASSUME PlanFits, plan.duplicate # "OVERWRITE", NEW o, NEW d \in WithChildren(o)
  PROVE  Keeps(d)
<1> DEFINE first == Imported(Tables, o, "FAIL")
           After(c) == Imported(first, c, plan.missing)
<1>1. /\ ~Rejected(Tables, o, "FAIL")
      /\ \A c \in waiting[o] : ~Rejected(first, c, plan.missing)
      /\ d = [first EXCEPT
               !.rows = @ \cup waiting[o],
               !.refs = {e \in @ : e[1] \notin waiting[o]}
                 \cup UNION {{e \in After(c).refs : e[1] = c} : c \in waiting[o]}]
  BY DEF WithChildren
<1>2. Keeps(first) /\ first.markers = markers
  BY <1>1, ImportedKeeps
<1>3. first \in [rows : {first.rows}, refs : {first.refs}, markers : {first.markers},
                 tags : {first.tags}]
  BY DEF Imported, Stored, PreImported, Tables
<1>4. /\ d.rows = first.rows \cup waiting[o] /\ d.markers = markers
      /\ d.refs = {e \in first.refs : e[1] \notin waiting[o]}
                    \cup UNION {{e \in After(c).refs : e[1] = c} : c \in waiting[o]}
  BY <1>1, <1>2, <1>3
<1>5. ASSUME NEW x \in rows PROVE RefsIn(d.refs, x) = RefsIn(first.refs, x)
  <2>1. CASE x \notin waiting[o]
    <3>1. \A e : e[1] = x => (e \in d.refs <=> e \in first.refs)
      BY <1>4, <2>1
    <3> QED BY <3>1 DEF RefsIn
  <2>2. CASE x \in waiting[o]
    <3>1. x \in first.rows
      BY <1>2 DEF Keeps
    <3>2. x \in PreImported(first, x, plan.missing).rows
          /\ PreImported(first, x, plan.missing).refs = first.refs
      BY <1>3, <3>1 DEF PreImported
    <3>3. plan.duplicate = "IGNORE"
      BY <1>1, <2>2, <3>2 DEF Rejected, PlanFits
    <3>4. After(x).refs = first.refs
      BY <3>2, <3>3 DEF Imported
    <3>5. \A e : e[1] = x => (e \in d.refs <=> e \in first.refs)
      BY <1>4, <2>2, <3>4
    <3> QED BY <3>5 DEF RefsIn
  <2> QED BY <2>1, <2>2
<1> QED BY <1>2, <1>4, <1>5 DEF Keeps, MarksOf

\* What is committed is one of the results, or nothing is.
LEMMA CommittedKeeps ==
  ASSUME NEW results, CommitOneOf(results), \A d \in results : Keeps(d)
  PROVE  /\ rows \subseteq rows'
         /\ \A x \in rows : /\ RefsIn(refs', x) = RefsIn(refs, x)
                            /\ MarksOf(x)' = MarksOf(x)
<1>1. CASE results = {}
  BY <1>1 DEF CommitOneOf, RolledBack, db, MarksOf
<1>2. CASE results # {}
  BY <1>2 DEF CommitOneOf, Commit, Keeps, MarksOf
<1> QED BY <1>1, <1>2

(***************************************************************************)
(* The import leaves every object alone that was there before a file of it *)
(* or of something else is imported, unless the user has chosen to         *)
(* overwrite: its row stays, and so do its links and its markers           *)
(* (performImport, manager/import.go:19-61; ImportScenes, ImportStudios).  *)
(***************************************************************************)
THEOREM NothingIsOverwrittenUnasked == TransferSpec => ImportsOnlyAdd
<1> DEFINE Added == stage = "rest" /\ plan.duplicate # "OVERWRITE"
              => /\ rows \subseteq rows'
                 /\ \A o \in rows : /\ RefsIn(refs', o) = RefsIn(refs, o)
                                    /\ MarksOf(o)' = MarksOf(o)
<1>1. Underway /\ [TransferNext]_allVars => [Added]_allVars
  <2> SUFFICES ASSUME Underway, [TransferNext]_allVars,
                      stage = "rest", plan.duplicate # "OVERWRITE"
               PROVE  /\ rows \subseteq rows'
                      /\ \A o \in rows : /\ RefsIn(refs', o) = RefsIn(refs, o)
                                         /\ MarksOf(o)' = MarksOf(o)
    OBVIOUS
  <2>0. PlanFits
    BY DEF Underway
  <2>1. CASE ImportOther
    <3>1. PICK o \in queue :
            CommitOneOf(
              IF ~Readable(o) THEN {}
              ELSE LET imported == PerformImport(Tables, o, Behaviour(o))
                   IN IF o \in Scenes
                      THEN UNION {ImportMarkers(Tables, d, o) : d \in imported}
                      ELSE imported)
      BY <2>1 DEF ImportOther
    <3>2. \A d \in PerformImport(Tables, o, Behaviour(o)) : Keeps(d)
      BY <2>0, ImportedKeeps DEF PerformImport
    <3>3. \A e \in PerformImport(Tables, o, Behaviour(o)) :
            \A d \in ImportMarkers(Tables, e, o) : Keeps(d)
      BY <2>0, ImportMarkersKeeps
    <3> QED BY <3>1, <3>2, <3>3, CommittedKeeps
  <2>2. CASE ImportStudio
    <3>1. PICK o \in queue : CommitOneOf(IF Readable(o) THEN WithChildren(o) ELSE {})
      BY <2>2 DEF ImportStudio
    <3> QED BY <2>0, <3>1, WithChildrenKeeps, CommittedKeeps
  <2>3. CASE ImportWaiting
    <3>1. PICK o \in queue :
            CommitOneOf(IF Readable(o) THEN PerformImport(Tables, o, plan.missing) ELSE {})
      BY <2>3 DEF ImportWaiting
    <3>2. \A d \in PerformImport(Tables, o, plan.missing) : Keeps(d)
      BY <2>0, ImportedKeeps DEF PerformImport
    <3> QED BY <3>1, <3>2, CommittedKeeps
  <2>4. CASE ~ImportOther /\ ~ImportStudio /\ ~ImportWaiting
    <3>1. UNCHANGED db
      BY <2>4, ImportTagsKeepsPlan
         DEF TransferNext, TransferStep, ExportStep, Populate, NextKind, ExportEnds, Look,
             ResolvePanics, Resolve, Load, StoreList, SaveFile, UserDeletes, TagsAreImported,
             NextWaiting, NextLoop, TaskEnds, CancelRest, allVars, transferVars
    <3> QED BY <3>1 DEF db, MarksOf
  <2> QED BY <2>1, <2>2, <2>3, <2>4
<1> QED BY <1>1, InitUnderway, NextUnderway, PTL DEF TransferSpec, ImportsOnlyAdd

-----------------------------------------------------------------------------
(* Exports with what is related *)

\* What the property speaks of: one goroutine, of a library that stays.
Alone ==
  /\ transfer.exports /\ transfer.dependencies
  /\ Cardinality(transfer.workers) = 1 /\ deletions = 0
  /\ transfer.asked \subseteq transfer.library.rows \cup transfer.library.tags

LibraryThere ==
  /\ rows = transfer.library.rows /\ refs = transfer.library.refs
  /\ markers = transfer.library.markers /\ tags = transfer.library.tags

\* Whatever gets a file, sooner or later.
Wanted == UNION {Fetched(k) : k \in Kinds}

\* The kinds whose turn is still to come.
Later == {ExportOrder[i] : i \in (turn + 1)..7}

\* The lists of ids name nothing that is not there.
AskedFit ==
  /\ asked \in [Kinds -> SUBSET Things]
  /\ \A k \in Kinds : asked[k] \subseteq Of(k) \cap Present

QueueFits ==
  \A x \in queue : /\ turn \in 1..7
                   /\ \E o \in Of(ExportOrder[turn]) \cap Present : x = WithStudio(o)

\* What a goroutine is still to append, and what the lists have.
ToAppend(appends) == UNION {appends[i].ids : i \in DOMAIN appends}
Told(x) == Wanted \cup ToAppend(x.appends)
PrimaryTags(marks) == {m[3] : m \in marks}

Goroutines ==
  [row : Things, studio : SUBSET Things, seen : SUBSET Things, marks : SUBSET Marks,
   appends : Seq([kind : Kinds, ids : SUBSET Things]),
   loaded : {None} \cup Seq(SUBSET Things), resolved : BOOLEAN]

\* A goroutine has read what the row is linked with, and all of that has been,
\* or is about to be, appended to lists of kinds whose turn is to come.
Busy(x) ==
  /\ x \in Goroutines
  /\ turn \in 1..7 /\ x.row \in Of(ExportOrder[turn]) \cap Present
  /\ x.studio = Named(x.row) \cap Studios
  /\ x.seen = (x.studio \cap rows) \cup Joined(x.row)
  /\ x.marks = MarksOf(x.row)
  /\ \A i \in DOMAIN x.appends :
       /\ x.appends[i].kind \in Later
       /\ x.appends[i].ids \subseteq Of(x.appends[i].kind) \cap Present
  /\ \/ x.loaded = None
     \/ x.appends # <<>> /\ x.loaded = <<asked[x.appends[1].kind]>>
  /\ IF x.resolved
     THEN /\ x.row \in Studios \/ x.seen \subseteq Told(x)
          /\ PrimaryTags(x.marks) \subseteq Told(x)
     ELSE x.appends = <<>>

WorkersFit ==
  /\ worker = [w \in Workers |-> worker[w]]
  /\ \A w \in Workers : worker[w] # Idle => w \in transfer.workers /\ Busy(worker[w])

\* Rows that are waiting for their file, or being given one.
Open == {x.row : x \in queue} \cup {worker[w].row : w \in Workers}

KindsAreDone ==
  \A i \in 1..turn :
    Fetched(ExportOrder[i]) \subseteq files.saved \cup (IF i = turn THEN Open ELSE {})

FilesAreCovered ==
  /\ files \in [listed : SUBSET Things, saved : SUBSET Things,
                refs : SUBSET (Things \X Things), markers : SUBSET Marks]
  /\ \A e \in files.refs : e[1] \in Studios \/ e[2] \in Wanted
  /\ \A m \in files.markers : m[3] \in Wanted

Exporting ==
  /\ LibraryThere /\ turn \in 0..7 /\ AskedFit /\ QueueFits /\ WorkersFit
  /\ KindsAreDone /\ FilesAreCovered

AllSaved ==
  /\ \A e \in files.refs : e[1] \in Studios \/ e[2] \in files.saved
  /\ \A m \in files.markers : m[3] \in files.saved

ExportInv ==
  /\ Underway /\ deletions \in Nat
  /\ Alone => /\ stage = "export" => Exporting
              /\ stage = "tags" => AllSaved

\* The kinds part the things between them.
LEMMA KindsAre ==
  /\ Of("scenes") = Scenes /\ Of("images") = Images /\ Of("galleries") = Galleries
  /\ Of("movies") = Movies /\ Of("performers") = Performers
  /\ Of("studios") = Studios /\ Of("tags") = Tags
BY DEF Of

LEMMA ThingsHaveKinds ==
  /\ \A k \in Kinds : Of(k) \subseteq Things
  /\ \A o \in Things : \E k \in Kinds : o \in Of(k)
  /\ \A k, l \in Kinds : \A o : o \in Of(k) /\ o \in Of(l) => k = l
<1>1. \A k \in Kinds : Of(k) \subseteq Things
  BY KindsAre DEF Kinds, Things, Rows
<1>2. ASSUME NEW o \in Things PROVE \E k \in Kinds : o \in Of(k)
  BY KindsAre DEF Kinds, Things, Rows
<1>3. \A k, l \in Kinds : \A o : o \in Of(k) /\ o \in Of(l) => k = l
  BY TransferAssumption
<1> QED BY <1>1, <1>2, <1>3

LEMMA EveryKindHasATurn ==
  /\ \A i \in 1..7 : ExportOrder[i] \in Kinds
  /\ \A k \in Kinds : \E i \in 1..7 : ExportOrder[i] = k
  /\ \A i, j \in 1..7 : ExportOrder[i] = ExportOrder[j] => i = j
BY DEF ExportOrder, Kinds

\* What is appended is of kinds that come later: the order of the kinds.
LEMMA NamedComeLater ==
  ASSUME NEW i \in 1..7, NEW o \in Of(ExportOrder[i]), o \notin Studios \cup Tags
  PROVE  /\ NamedBy(o) \in Seq(Kinds) /\ NamedBy(o) # <<>>
         /\ \A j \in DOMAIN NamedBy(o) :
              /\ NamedBy(o)[j] \in {ExportOrder[l] : l \in (i + 1)..7}
              /\ NamedBy(o)[j] \notin {"scenes", "images"}
         /\ i = 1 => "tags" \in Range(NamedBy(o))
<1> DEFINE After(n) == {ExportOrder[l] : l \in (n + 1)..7}
<1>1. o \in Of("scenes") \/ o \in Of("images") \/ o \in Of("galleries")
      \/ o \in Of("movies") \/ o \in Of("performers")
  BY KindsAre, EveryKindHasATurn DEF Kinds
<1>2. \A k \in Kinds : o \in Of(k) => ExportOrder[i] = k
  BY EveryKindHasATurn, ThingsHaveKinds
<1>3. CASE o \in Of("scenes")
  <2>1. i = 1 /\ o \in Scenes
    BY <1>2, <1>3, KindsAre DEF Kinds, ExportOrder
  <2>2. NamedBy(o) = SceneJSON
    BY <1>2, <1>3, <2>1, KindsAre DEF NamedBy, Kinds
  <2> QED BY <2>1, <2>2 DEF SceneJSON, ExportOrder, Kinds, Range
<1>4. CASE o \in Of("images")
  <2>1. i = 2 /\ o \in Images
    BY <1>2, <1>4, KindsAre DEF Kinds, ExportOrder
  <2>2. NamedBy(o) = ImageJSON
    BY <1>2, <1>4, <2>1, KindsAre DEF NamedBy, Kinds
  <2> QED BY <2>1, <2>2 DEF ImageJSON, ExportOrder, Kinds, Range
<1>5. CASE o \in Of("galleries")
  <2>1. i = 3 /\ o \in Galleries
    BY <1>2, <1>5, KindsAre DEF Kinds, ExportOrder
  <2>2. NamedBy(o) = GalleryJSON
    BY <1>2, <1>5, <2>1, KindsAre DEF NamedBy, Kinds
  <2> QED BY <2>1, <2>2 DEF GalleryJSON, ExportOrder, Kinds, Range
<1>6. CASE o \in Of("movies")
  <2>1. i = 4 /\ o \in Movies
    BY <1>2, <1>6, KindsAre DEF Kinds, ExportOrder
  <2>2. NamedBy(o) = MovieJSON
    BY <1>2, <1>6, <2>1, KindsAre DEF NamedBy, Kinds
  <2> QED BY <2>1, <2>2 DEF MovieJSON, ExportOrder, Kinds, Range
<1>7. CASE o \in Of("performers")
  <2>1. i = 5 /\ o \in Performers
    BY <1>2, <1>7, KindsAre DEF Kinds, ExportOrder
  <2>2. NamedBy(o) = PerformerJSON
    BY <1>2, <1>7, <2>1, KindsAre DEF NamedBy, Kinds
  <2> QED BY <2>1, <2>2 DEF PerformerJSON, ExportOrder, Kinds, Range
<1> QED BY <1>1, <1>3, <1>4, <1>5, <1>6, <1>7

\* Nothing that is asked for is missing, so that it is found.
LEMMA AskedIsFound ==
  ASSUME AskedFit, NEW k \in Kinds
  PROVE  /\ Fetched(k) = IF All(k) THEN Present \cap Of(k) ELSE asked[k]
         /\ Fetched(k) \subseteq Of(k) \cap Present
         /\ asked[k] \subseteq Fetched(k)
BY DEF AskedFit, Fetched, FoundOf

\* The lists only grow, and so does what they have fetched.
LEMMA WantedGrows ==
  ASSUME AskedFit, AskedFit', UNCHANGED <<transfer, rows, tags>>,
         \A k \in Kinds : asked[k] \subseteq asked'[k]
  PROVE  /\ Wanted \subseteq Wanted'
         /\ \A k \in Kinds : asked'[k] = asked[k] => Fetched(k)' = Fetched(k)
<1>1. \A k \in Kinds : All(k)' = All(k) /\ Present' = Present
  BY DEF All, Present
<1>2. ASSUME NEW k \in Kinds
      PROVE  Fetched(k)' = IF All(k) THEN Present \cap Of(k) ELSE asked'[k]
  BY <1>1, <1>2 DEF AskedFit, Fetched, FoundOf
<1>3. \A k \in Kinds : Fetched(k) \subseteq Fetched(k)'
  BY <1>2, AskedIsFound
<1>4. \A k \in Kinds : asked'[k] = asked[k] => Fetched(k)' = Fetched(k)
  BY <1>2, AskedIsFound
<1> QED BY <1>3, <1>4 DEF Wanted

\* A sequence is its head and its tail.
LEMMA HeadAndTail ==
  ASSUME NEW S, NEW s \in Seq(S), s # <<>>
  PROVE  /\ Tail(s) \in Seq(S) /\ 1 \in DOMAIN s /\ s[1] \in S
         /\ \A i \in DOMAIN Tail(s) : i + 1 \in DOMAIN s /\ Tail(s)[i] = s[i + 1]
         /\ \A i \in DOMAIN s : i # 1 => i - 1 \in DOMAIN Tail(s) /\ Tail(s)[i - 1] = s[i]
OBVIOUS

\* Foreign keys, in the library that is exported.
LEMMA KeysAreThere ==
  ASSUME Underway, Alone, LibraryThere
  PROVE  /\ rows \subseteq Rows /\ tags \subseteq Tags /\ Present \subseteq Things
         /\ refs \subseteq Refs /\ markers \subseteq Marks
         /\ \A o : RefsIn(refs, o) \subseteq Present
         /\ \A o : RefsIn(refs, o) # {} => o \in Rows
         /\ \A o : MarksOf(o) \subseteq Marks /\ {m[3] : m \in MarksOf(o)} \subseteq Tags \cap Present
         /\ \A o : MarksOf(o) # {} => o \in Scenes
<1>1. transfer \in Transfers /\ transfer.library \in Libraries /\ KeysHold(transfer.library)
  BY TransferAssumption DEF Underway, Alone
<1>2. /\ rows \subseteq Rows /\ tags \subseteq Tags /\ refs \subseteq Refs
      /\ markers \subseteq Marks
  BY <1>1 DEF LibraryThere, Libraries
<1>3. /\ \A e \in refs : e[1] \in rows /\ e[2] \in Present
      /\ \A m \in markers : m[1] \in Scenes /\ m[3] \in Tags /\ m[3] \in Present
  BY <1>1, <1>2 DEF LibraryThere, KeysHold, Present, Marks
<1> QED BY <1>2, <1>3 DEF RefsIn, MarksOf, Present, Things

\* What a row depends on is appended, but for the parents of studios.
LEMMA DependentsAreTold ==
  ASSUME Underway, Alone, LibraryThere, NEW w \in Workers, Busy(worker[w])
  PROVE  /\ DependentsOf(w) \in Seq([kind : Kinds, ids : SUBSET Things])
         /\ \A i \in DOMAIN DependentsOf(w) :
              /\ DependentsOf(w)[i].kind \in Later
              /\ DependentsOf(w)[i].ids \subseteq Of(DependentsOf(w)[i].kind) \cap Present
         /\ worker[w].row \in Studios \/ worker[w].seen \subseteq ToAppend(DependentsOf(w))
         /\ PrimaryTags(worker[w].marks) \subseteq ToAppend(DependentsOf(w))
<1> DEFINE o == worker[w].row
           named == NamedBy(o)
           all == worker[w].studio \cup (worker[w].seen \cap (Galleries \cup Performers))
                    \cup (Joined(o) \cap (Tags \cup Movies)) \cup {m[3] : m \in MarksOf(o)}
           kinds == IF named[1] = "studios" /\ worker[w].studio = {} THEN Tail(named)
                    ELSE named
<1>1. /\ worker[w].studio = Named(o) \cap Studios
      /\ worker[w].seen = (worker[w].studio \cap rows) \cup Joined(o)
      /\ worker[w].marks = MarksOf(o)
      /\ turn \in 1..7 /\ o \in Of(ExportOrder[turn]) /\ o \in Present
  BY DEF Busy
<1>2. CASE o \in Studios \cup Tags
  <2>1. DependentsOf(w) = <<>>
    BY <1>2 DEF DependentsOf
  <2>2. o \in Of("studios") \/ o \in Of("tags")
    BY <1>2, KindsAre
  <2>3. o \notin Scenes
    BY <2>2, KindsAre, ThingsHaveKinds DEF Kinds
  <2>4. worker[w].marks = {}
    BY <1>1, <2>3, KeysAreThere
  <2>4a. PrimaryTags(worker[w].marks) = {}
    BY <2>4 DEF PrimaryTags
  <2>5. CASE o \in Studios
    BY <2>1, <2>4a, <2>5
  <2>6. CASE o \in Tags
    <3>1. o \notin Rows
      BY <2>6, KindsAre, ThingsHaveKinds DEF Kinds, Rows
    <3>2. RefsIn(refs, o) = {}
      BY <3>1, KeysAreThere
    <3>3. worker[w].seen = {}
      BY <1>1, <3>2 DEF Named, Joined
    <3> QED BY <2>1, <2>4a, <3>3
  <2> QED BY <1>2, <2>5, <2>6
<1>3. CASE o \notin Studios \cup Tags
  <2>1. /\ named \in Seq(Kinds) /\ named # <<>>
        /\ \A j \in DOMAIN named : named[j] \in Later /\ named[j] \notin {"scenes", "images"}
        /\ turn = 1 => "tags" \in Range(named)
    BY <1>1, <1>3, NamedComeLater DEF Later
  <2>2. /\ kinds \in Seq(Kinds) /\ \A j \in DOMAIN kinds : kinds[j] \in Later
        /\ \A j \in DOMAIN named : 
             named[j] # "studios" \/ worker[w].studio # {} => named[j] \in Range(kinds)
    <3>1. CASE kinds = named
      BY <2>1, <3>1 DEF Range
    <3>2. CASE kinds # named
      <4>1. kinds = Tail(named) /\ named[1] = "studios" /\ worker[w].studio = {}
        BY <3>2
      <4> HIDE DEF kinds, named
      <4>2. /\ kinds \in Seq(Kinds)
            /\ \A j \in DOMAIN kinds : j + 1 \in DOMAIN named /\ kinds[j] = named[j + 1]
            /\ \A j \in DOMAIN named : j # 1 => kinds[j - 1] = named[j] /\ j - 1 \in DOMAIN kinds
        BY <2>1, <4>1, HeadAndTail
      <4>3. \A j \in DOMAIN named : j # 1 => named[j] \in Range(kinds)
        BY <4>2 DEF Range
      <4> QED BY <2>1, <4>1, <4>2, <4>3
    <3> QED BY <3>1, <3>2
  <2>3. DependentsOf(w) = [i \in DOMAIN kinds |-> [kind |-> kinds[i], ids |-> all \cap Of(kinds[i])]]
    BY <1>3 DEF DependentsOf, Alone
  <2>4. all \subseteq Present
    BY <1>1, KeysAreThere DEF Named, Joined
  <2> HIDE DEF all, kinds
  <2>5. /\ DependentsOf(w) \in Seq([kind : Kinds, ids : SUBSET Things])
        /\ DOMAIN DependentsOf(w) = DOMAIN kinds
        /\ \A i \in DOMAIN kinds : /\ DependentsOf(w)[i].kind = kinds[i]
                                   /\ DependentsOf(w)[i].ids = all \cap Of(kinds[i])
    <3>1. kinds \in [1..Len(kinds) -> Kinds] /\ Len(kinds) \in Nat
          /\ DOMAIN kinds = 1..Len(kinds)
      BY <2>2
    <3>2. all \subseteq Things
      BY <2>4, KeysAreThere
    <3>3. \A i \in 1..Len(kinds) :
            [kind |-> kinds[i], ids |-> all \cap Of(kinds[i])] \in [kind : Kinds, ids : SUBSET Things]
      BY <3>1, <3>2
    <3>4. DependentsOf(w) \in [1..Len(kinds) -> [kind : Kinds, ids : SUBSET Things]]
      BY <2>3, <3>1, <3>3, Zenon
    <3>5. DependentsOf(w) \in Seq([kind : Kinds, ids : SUBSET Things])
      <4> DEFINE D == [kind : Kinds, ids : SUBSET Things]
      <4> HIDE DEF D
      <4>1. DependentsOf(w) \in [1..Len(kinds) -> D]
        BY <3>4 DEF D
      <4>2. DependentsOf(w) \in Seq(D)
        BY <3>1, <4>1
      <4> QED BY <4>2 DEF D
    <3> QED BY <2>3, <3>1, <3>5
  <2> DEFINE told == ToAppend(DependentsOf(w))
  <2>6. ASSUME NEW t \in all, NEW j \in DOMAIN named, t \in Of(named[j]),
               named[j] # "studios" \/ worker[w].studio # {}
        PROVE  t \in told
    BY <2>2, <2>5, <2>6 DEF Range, ToAppend
  <2>7. ASSUME NEW t \in worker[w].seen PROVE t \in told
    <3>1. t \in Named(o)
      BY <1>1, <2>7 DEF Joined
    <3>2. PICK j \in DOMAIN named : t \in Of(named[j])
      BY <3>1 DEF Named, Range
    <3>3. named[j] = "studios" <=> t \in Studios
      BY <2>1, <3>2, KindsAre, ThingsHaveKinds DEF Kinds
    <3>4. t \in all
      <4>1. CASE t \in Studios
        BY <1>1, <2>7, <4>1 DEF Joined, all
      <4>2. CASE t \notin Studios
        <5>1. named[j] \in {"galleries", "movies", "performers", "tags"}
          BY <2>1, <3>3, <4>2 DEF Kinds
        <5>2. t \in Galleries \cup Movies \cup Performers \cup Tags
          BY <3>2, <5>1, KindsAre
        <5> QED BY <2>7, <3>1, <4>2, <5>2 DEF all, Joined
      <4> QED BY <4>1, <4>2
    <3>5. named[j] # "studios" \/ worker[w].studio # {}
      BY <1>1, <3>1, <3>3
    <3> QED BY <2>6, <3>2, <3>4, <3>5
  <2>8. ASSUME NEW m \in worker[w].marks PROVE m[3] \in told
    <3>1. m \in MarksOf(o) /\ o \in Scenes /\ m[3] \in Tags
      BY <1>1, <2>8, KeysAreThere
    <3>2. turn = 1
      BY <1>1, <3>1, KindsAre, ThingsHaveKinds, EveryKindHasATurn DEF Kinds, ExportOrder
    <3>3. PICK j \in DOMAIN named : named[j] = "tags"
      BY <2>1, <3>2 DEF Range
    <3> QED BY <2>6, <3>1, <3>3, KindsAre DEF all
  <2>9. PrimaryTags(worker[w].marks) \subseteq told
    BY <2>8 DEF PrimaryTags
  <2> QED BY <2>2, <2>4, <2>5, <2>7, <2>9
<1> QED BY <1>2, <1>3

\* There is one goroutine at most that is not idle.
LEMMA TheOther ==
  ASSUME Underway, Alone, WorkersFit, NEW w \in transfer.workers
  PROVE  /\ w \in Workers /\ \A v \in transfer.workers : v = w
         /\ \A v \in Workers : v # w => worker[v] = Idle
<1>1. transfer.workers \in SUBSET Workers /\ IsFiniteSet(transfer.workers)
  BY TransferAssumption, FS_Subset DEF Underway
<1>2. \E x : transfer.workers = {x}
  BY <1>1, FS_Singleton DEF Alone
<1> QED BY <1>1, <1>2 DEF WorkersFit

\* A goroutine's work is what it was as long as nothing it rests on changes.
LEMMA BusyStays ==
  ASSUME NEW x, Busy(x), UNCHANGED <<rows, refs, markers, tags, transfer, turn, asked>>
  PROVE  Busy(x)'
<1>1. /\ \A o : Named(o)' = Named(o) /\ Joined(o)' = Joined(o) /\ MarksOf(o)' = MarksOf(o)
      /\ Later' = Later /\ Present' = Present
  BY DEF Named, Joined, MarksOf, RefsIn, Later, Present
<1>2. \A k : Fetched(k)' = Fetched(k)
  BY DEF Fetched, FoundOf, All, Present
<1>3. Wanted' = Wanted
  BY <1>2 DEF Wanted
<1>4. Told(x)' = Told(x)
  BY <1>3 DEF Told
<1> QED BY <1>1, <1>4 DEF Busy

\* The library, the lists and the files stay; one goroutine goes on.
LEMMA OneGoesOn ==
  ASSUME Underway, Alone, Exporting, NEW w \in transfer.workers, NEW y,
         worker' = [worker EXCEPT ![w] = y], transfer' = transfer,
         y # Idle => Busy(y)'
  PROVE  WorkersFit'
<1>1. w \in Workers /\ \A v \in Workers : v # w => worker[v] = Idle
  BY TheOther DEF Exporting
<1>2. worker'[w] = y /\ \A v \in Workers : v # w => worker'[v] = Idle
  BY <1>1 DEF Exporting, WorkersFit
<1>3. worker' = [v \in Workers |-> worker'[v]]
  BY DEF Exporting, WorkersFit
<1>4. Idle' = Idle
  BY DEF Idle
<1>5. ASSUME NEW v \in Workers, worker'[v] # Idle
      PROVE  v \in transfer'.workers /\ Busy(worker[v])'
  <2>1. v = w /\ y # Idle
    BY <1>2, <1>5
  <2> QED BY <1>2, <2>1 DEF Busy, Told
<1> QED BY <1>3, <1>4, <1>5 DEF WorkersFit

\* So do the lists and the files, as long as no row is lost from sight.
LEMMA RestStays ==
  ASSUME Exporting, Open \subseteq Open' \cup {None}, queue' \subseteq queue,
         UNCHANGED <<rows, refs, markers, tags, transfer, turn, files, asked>>
  PROVE  /\ LibraryThere' /\ turn' \in 0..7 /\ AskedFit' /\ QueueFits'
         /\ KindsAreDone' /\ FilesAreCovered'
<1>1. /\ \A o : Named(o)' = Named(o) /\ WithStudio(o)' = WithStudio(o)
      /\ Present' = Present
  BY DEF Named, WithStudio, RefsIn, Present
<1>2. \A k : Fetched(k)' = Fetched(k)
  BY DEF Fetched, FoundOf, All, Present
<1>3. Wanted' = Wanted
  BY <1>2 DEF Wanted
<1>4. LibraryThere' /\ turn' \in 0..7 /\ AskedFit' /\ QueueFits'
  BY <1>1 DEF Exporting, LibraryThere, AskedFit, QueueFits
<1>5. KindsAreDone'
  <2>1. \A i \in 1..turn : None \notin Fetched(ExportOrder[i])
    BY AskedIsFound, EveryKindHasATurn, ThingsHaveKinds, TransferAssumption DEF Exporting
  <2> QED BY <1>2, <2>1 DEF Exporting, KindsAreDone
<1>6. FilesAreCovered'
  BY <1>3 DEF Exporting, FilesAreCovered
<1> QED BY <1>4, <1>5, <1>6

\* Rows that others work on are not lost when one goroutine's row changes.
LEMMA OpenStays ==
  ASSUME WorkersFit, NEW w \in Workers, NEW y, worker' = [worker EXCEPT ![w] = y],
         queue' = queue, y.row = worker[w].row
  PROVE  Open' = Open
<1>1. \A v \in Workers : worker'[v].row = worker[v].row
  BY DEF WorkersFit
<1> QED BY <1>1 DEF Open

LEMMA LoadKeepsExporting ==
  ASSUME Underway, Alone, Exporting, NEW w \in Workers, Load(w)
  PROVE  Exporting'
<1>1. /\ worker[w].appends # <<>> /\ worker[w].loaded = None
      /\ worker' = [worker EXCEPT ![w].loaded = <<asked[worker[w].appends[1].kind]>>]
      /\ UNCHANGED <<vars, transfer, stage, db, files, turn, queue, asked, deletions>>
  BY DEF Load
<1>2. w \in transfer.workers /\ Busy(worker[w])
  BY <1>1 DEF Exporting, WorkersFit, Idle
<1>3. PICK x : x = worker[w]
  OBVIOUS
<1>3a. PICK list : list = asked[x.appends[1].kind]
  OBVIOUS
<1> DEFINE y == [x EXCEPT !.loaded = <<list>>]
<1>4. worker' = [worker EXCEPT ![w] = y]
  BY <1>1, <1>3, <1>3a
<1>5. Busy(x)'
  BY <1>1, <1>2, <1>3, BusyStays DEF db, vars, tagVars
<1>6. Busy(y)'
  <2>1. x.appends[1] \in [kind : Kinds, ids : SUBSET Things]
    BY <1>1, <1>2, <1>3, HeadAndTail DEF Busy, Goroutines
  <2>2. asked[x.appends[1].kind] \in SUBSET Things
    BY <2>1 DEF Exporting, AskedFit
  <2>3. <<list>> \in Seq(SUBSET Things)
    BY <1>3a, <2>2
  <2>4. y \in Goroutines
    BY <1>2, <1>3, <2>3 DEF Busy, Goroutines
  <2>5. /\ y.row = x.row /\ y.studio = x.studio /\ y.seen = x.seen /\ y.marks = x.marks
        /\ y.appends = x.appends /\ y.resolved = x.resolved
        /\ y.loaded = <<asked'[x.appends[1].kind]>>
    BY <1>1, <1>2, <1>3, <1>3a DEF Busy, Goroutines
  <2>6. Told(y)' = Told(x)'
    BY <2>5 DEF Told
  <2> HIDE DEF y
  <2> QED BY <1>1, <1>3, <1>5, <2>4, <2>5, <2>6 DEF Busy
<1>7. WorkersFit'
  BY <1>1, <1>2, <1>4, <1>6, OneGoesOn
<1>8. Open' = Open
  BY <1>1, <1>2, <1>3, <1>4, OpenStays DEF Exporting, Busy, Goroutines
<1> QED BY <1>1, <1>7, <1>8, RestStays DEF Exporting, vars, tagVars, db

LEMMA ResolveKeepsExporting ==
  ASSUME Underway, Alone, Exporting, NEW w \in Workers, Resolve(w)
  PROVE  Exporting'
<1>1. /\ worker[w].row # None /\ ~worker[w].resolved
      /\ worker' = [worker EXCEPT ![w].resolved = TRUE, ![w].appends = DependentsOf(w)]
      /\ UNCHANGED <<vars, transfer, stage, db, files, turn, queue, asked, deletions>>
  BY DEF Resolve, Unresolved
<1>2. w \in transfer.workers /\ Busy(worker[w])
  BY <1>1 DEF Exporting, WorkersFit, Idle
<1>3. PICK x : x = worker[w]
  OBVIOUS
<1>4. PICK appends : appends = DependentsOf(w)
  OBVIOUS
<1> DEFINE y == [x EXCEPT !.resolved = TRUE, !.appends = appends]
<1>5. worker' = [worker EXCEPT ![w] = y]
  BY <1>1, <1>3, <1>4
<1>6. Busy(x)'
  BY <1>1, <1>2, <1>3, BusyStays DEF db, vars, tagVars
<1>7. /\ appends \in Seq([kind : Kinds, ids : SUBSET Things])
      /\ \A i \in DOMAIN appends : /\ appends[i].kind \in Later
                                   /\ appends[i].ids \subseteq Of(appends[i].kind) \cap Present
      /\ x.row \in Studios \/ x.seen \subseteq ToAppend(appends)
      /\ PrimaryTags(x.marks) \subseteq ToAppend(appends)
  BY <1>2, <1>3, <1>4, DependentsAreTold DEF Exporting
<1>8. Busy(y)'
  <2>1. y \in Goroutines
    BY <1>2, <1>3, <1>7 DEF Busy, Goroutines
  <2>2. /\ y.row = x.row /\ y.studio = x.studio /\ y.seen = x.seen /\ y.marks = x.marks
        /\ y.appends = appends /\ y.resolved /\ y.loaded = x.loaded
    BY <1>2, <1>3 DEF Busy, Goroutines
  <2>3. x.loaded = None
    BY <1>1, <1>2, <1>3 DEF Busy, Goroutines
  <2> HIDE DEF y
  <2>4. y.row \in Studios \/ y.seen \subseteq Told(y)'
    BY <1>7, <2>2 DEF Told
  <2>5. PrimaryTags(y.marks) \subseteq Told(y)'
    BY <1>7, <2>2 DEF Told
  <2>6. Later' = Later /\ Present' = Present
    BY <1>1 DEF Later, Present, vars, tagVars, db
  <2> QED BY <1>6, <1>7, <2>1, <2>2, <2>3, <2>4, <2>5, <2>6 DEF Busy
<1>9. WorkersFit'
  BY <1>1, <1>2, <1>5, <1>8, OneGoesOn
<1>10. Open' = Open
  BY <1>1, <1>2, <1>3, <1>5, OpenStays DEF Exporting, Busy, Goroutines
<1> QED BY <1>1, <1>9, <1>10, RestStays DEF Exporting, vars, tagVars, db

LEMMA LookKeepsExporting ==
  ASSUME Underway, Alone, Exporting, NEW w \in Workers, Look(w)
  PROVE  Exporting'
<1>1. PICK q \in queue :
        /\ worker[w] = Idle /\ w \in transfer.workers /\ queue' = queue \ {q}
        /\ worker' = [worker EXCEPT ![w] =
             [Idle EXCEPT !.row = q.row, !.studio = q.studio,
                !.seen = (q.studio \cap rows) \cup Joined(q.row),
                !.marks = MarksOf(q.row)]]
        /\ UNCHANGED <<vars, transfer, stage, db, files, turn, asked, deletions>>
  BY DEF Look
<1>2. PICK o \in Of(ExportOrder[turn]) \cap Present : q = WithStudio(o)
  BY DEF Exporting, QueueFits
<1>3. turn \in 1..7 /\ q.row = o /\ q.studio = Named(o) \cap Studios
  BY <1>2 DEF Exporting, QueueFits, WithStudio
<1>4. PICK y : y = [Idle EXCEPT !.row = o, !.studio = Named(o) \cap Studios,
                      !.seen = (Named(o) \cap Studios \cap rows) \cup Joined(o),
                      !.marks = MarksOf(o)]
  OBVIOUS
<1>5. worker' = [worker EXCEPT ![w] = y]
  BY <1>1, <1>3, <1>4
<1>6. /\ y \in Goroutines /\ y.row = o /\ y.studio = Named(o) \cap Studios
      /\ y.seen = (Named(o) \cap Studios \cap rows) \cup Joined(o)
      /\ y.marks = MarksOf(o) /\ y.appends = <<>> /\ y.loaded = None /\ ~y.resolved
  <2>1. Present \subseteq Things /\ Named(o) \subseteq Present /\ MarksOf(o) \subseteq Marks
    BY KeysAreThere DEF Exporting, Named
  <2>2. PICK studio, seen, marks : /\ studio = Named(o) \cap Studios /\ marks = MarksOf(o)
                                   /\ seen = (Named(o) \cap Studios \cap rows) \cup Joined(o)
    OBVIOUS
  <2>3. /\ o \in Things /\ studio \in SUBSET Things /\ seen \in SUBSET Things
        /\ marks \in SUBSET Marks
    BY <2>1, <2>2 DEF Joined
  <2>4. y = [Idle EXCEPT !.row = o, !.studio = studio, !.seen = seen, !.marks = marks]
    BY <1>4, <2>2
  <2>5. /\ y \in Goroutines /\ y.row = o /\ y.studio = studio /\ y.seen = seen
        /\ y.marks = marks /\ y.appends = <<>> /\ y.loaded = None /\ ~y.resolved
    <3>1. /\ <<>> \in Seq([kind : Kinds, ids : SUBSET Things])
          /\ Idle.appends = <<>> /\ Idle.loaded = None /\ ~Idle.resolved
      BY DEF Idle
    <3> QED BY <2>3, <2>4, <3>1 DEF Idle, Goroutines
  <2> QED BY <2>2, <2>5
<1>7. Busy(y)'
  <2>1. /\ \A x : Named(x)' = Named(x) /\ Joined(x)' = Joined(x) /\ MarksOf(x)' = MarksOf(x)
        /\ Present' = Present /\ turn' = turn /\ rows' = rows
    BY <1>1 DEF Named, Joined, MarksOf, RefsIn, Present, db, vars, tagVars
  <2>2. DOMAIN y.appends = {}
    BY <1>6
  <2>3. /\ (y.row \in Of(ExportOrder[turn]) \cap Present)'
        /\ (y.studio = Named(y.row) \cap Studios)'
        /\ (y.seen = (y.studio \cap rows) \cup Joined(y.row))'
        /\ (y.marks = MarksOf(y.row))'
    BY <1>6, <2>1
  <2> QED BY <1>3, <1>6, <2>1, <2>2, <2>3 DEF Busy
<1>8. WorkersFit'
  BY <1>1, <1>5, <1>7, OneGoesOn
<1>9. Open \subseteq Open' \cup {None}
  <2>1. y.row = o /\ Idle.row = None
    BY <1>6 DEF Idle
  <2>2. worker'[w].row = o /\ \A v \in Workers : v # w => worker'[v] = worker[v]
    BY <1>5, <2>1 DEF Exporting, WorkersFit
  <2>3. \A v \in Workers : worker[v].row \in Open' \cup {None}
    BY <1>1, <2>1, <2>2 DEF Open
  <2>4. \A x \in queue : x.row \in Open'
    BY <1>1, <1>3, <2>2 DEF Open
  <2> QED BY <2>3, <2>4 DEF Open
<1> QED BY <1>1, <1>8, <1>9, RestStays DEF Exporting, vars, tagVars, db

LEMMA StoreListKeepsExporting ==
  ASSUME Underway, Alone, Exporting, NEW w \in Workers, StoreList(w)
  PROVE  Exporting'
<1>1. PICK x : x = worker[w]
  OBVIOUS
<1>2. worker[w] # Idle
  BY DEF StoreList, Idle
<1>3. w \in transfer.workers /\ Busy(x) /\ x.loaded # None
  BY <1>1, <1>2 DEF Exporting, WorkersFit, StoreList
<1> DEFINE k == x.appends[1].kind
           ids == x.appends[1].ids
           y == [x EXCEPT !.loaded = None, !.appends = Tail(x.appends)]
<1>4. /\ x.appends # <<>> /\ x.loaded = <<asked[k]>>
      /\ x.appends \in Seq([kind : Kinds, ids : SUBSET Things])
  BY <1>3 DEF Busy, Goroutines
<1>5. /\ k \in Kinds /\ k \in Later /\ ids \subseteq Of(k) \cap Present
      /\ Tail(x.appends) \in Seq([kind : Kinds, ids : SUBSET Things])
      /\ \A i \in DOMAIN Tail(x.appends) :
           i + 1 \in DOMAIN x.appends /\ Tail(x.appends)[i] = x.appends[i + 1]
      /\ \A i \in DOMAIN x.appends : i # 1 => i - 1 \in DOMAIN Tail(x.appends)
                                              /\ Tail(x.appends)[i - 1] = x.appends[i]
  <2> DEFINE D == [kind : Kinds, ids : SUBSET Things]
  <2>1. PICK appends : appends = x.appends
    OBVIOUS
  <2>2. appends \in Seq(D) /\ appends # <<>>
    BY <1>4, <2>1
  <2> HIDE DEF D
  <2>3. /\ Tail(appends) \in Seq(D) /\ 1 \in DOMAIN appends /\ appends[1] \in D
        /\ \A i \in DOMAIN Tail(appends) :
             i + 1 \in DOMAIN appends /\ Tail(appends)[i] = appends[i + 1]
        /\ \A i \in DOMAIN appends : i # 1 => i - 1 \in DOMAIN Tail(appends)
                                             /\ Tail(appends)[i - 1] = appends[i]
    BY <2>2, HeadAndTail
  <2>4. k \in Later /\ ids \subseteq Of(k) \cap Present
    BY <1>3, <2>1, <2>3 DEF Busy
  <2>5. k \in Kinds
    BY <2>1, <2>3 DEF D
  <2> QED BY <2>1, <2>3, <2>4, <2>5 DEF D
<1>6. /\ asked' = [asked EXCEPT ![k] = asked[k] \cup ids]
      /\ worker' = [worker EXCEPT ![w] = y]
      /\ UNCHANGED <<vars, transfer, stage, db, files, turn, queue, deletions>>
  <2>1. \A v \in Workers \ {w} : worker[v].loaded = None
    BY <1>3, TheOther DEF Exporting, Idle
  <2>2. \E torn \in SUBSET {} : asked' = [asked EXCEPT ![k] = x.loaded[1] \cup ids \cup torn]
    BY <1>1, <2>1 DEF StoreList
  <2>3. asked' = [asked EXCEPT ![k] = asked[k] \cup ids]
    <3>1. x.loaded[1] = asked[k]
      BY <1>4
    <3>2. PICK torn \in SUBSET {} : asked' = [asked EXCEPT ![k] = x.loaded[1] \cup ids \cup torn]
      BY <2>2
    <3>3. x.loaded[1] \cup ids \cup torn = asked[k] \cup ids
      BY <3>1
    <3> QED BY <3>2, <3>3
  <2>4. worker' = [worker EXCEPT ![w] = y]
    BY <1>1 DEF StoreList
  <2> QED BY <2>3, <2>4 DEF StoreList
<1>7. /\ \A o : Named(o)' = Named(o) /\ Joined(o)' = Joined(o) /\ MarksOf(o)' = MarksOf(o)
                /\ WithStudio(o)' = WithStudio(o)
      /\ Present' = Present /\ Later' = Later
  BY <1>6 DEF Named, Joined, WithStudio, MarksOf, RefsIn, Present, Later, db, vars, tagVars
<1>8. AskedFit' /\ (\A l \in Kinds : asked[l] \subseteq asked'[l]) /\ ids \subseteq asked'[k]
      /\ \A l \in Kinds : l # k => asked'[l] = asked[l]
  BY <1>5, <1>6, <1>7, ThingsHaveKinds DEF Exporting, AskedFit
<1>9. /\ Wanted \subseteq Wanted'
      /\ \A l \in Kinds : l # k => Fetched(l)' = Fetched(l)
  BY <1>6, <1>8, WantedGrows DEF Exporting, db, vars, tagVars
<1>10. ids \subseteq Wanted'
  <2>1. Fetched(k)' = IF All(k)' THEN Present' \cap Of(k) ELSE asked'[k]
    BY <1>5, <1>8 DEF AskedFit, Fetched, FoundOf
  <2>2. ids \subseteq Fetched(k)'
    BY <1>5, <1>7, <1>8, <2>1
  <2> QED BY <1>5, <2>2 DEF Wanted
<1>11. /\ y \in Goroutines /\ y.row = x.row /\ y.studio = x.studio /\ y.seen = x.seen
       /\ y.marks = x.marks /\ y.resolved = x.resolved /\ y.loaded = None
       /\ y.appends = Tail(x.appends)
  BY <1>3, <1>5 DEF Busy, Goroutines
<1> HIDE DEF y
<1>12. Told(x) \subseteq Told(y)'
  <2>1. ASSUME NEW i \in DOMAIN x.appends
        PROVE  x.appends[i].ids \subseteq ids \cup ToAppend(y.appends)
    <3>1. CASE i = 1
      BY <3>1
    <3>2. CASE i # 1
      <4>1. i - 1 \in DOMAIN y.appends /\ y.appends[i - 1] = x.appends[i]
        BY <1>5, <1>11, <3>2
      <4> QED BY <4>1 DEF ToAppend
    <3> QED BY <3>1, <3>2
  <2>2. ToAppend(x.appends) \subseteq ids \cup ToAppend(y.appends)
    BY <2>1 DEF ToAppend
  <2> QED BY <1>9, <1>10, <2>2 DEF Told
<1>13. Busy(y)'
  <2>1. x.resolved
    BY <1>3, <1>4 DEF Busy
  <2>2. /\ y.row \in Studios \/ y.seen \subseteq Told(y)'
        /\ PrimaryTags(y.marks) \subseteq Told(y)'
    BY <1>3, <1>11, <1>12, <2>1 DEF Busy
  <2>3. \A i \in DOMAIN y.appends :
           /\ y.appends[i].kind \in Later
           /\ y.appends[i].ids \subseteq Of(y.appends[i].kind) \cap Present
    BY <1>3, <1>5, <1>11 DEF Busy
  <2> QED BY <1>3, <1>6, <1>7, <1>11, <2>1, <2>2, <2>3 DEF Busy, db
<1>14. WorkersFit'
  BY <1>3, <1>6, <1>13, OneGoesOn
<1>15. Open' = Open
  BY <1>1, <1>6, <1>11, OpenStays DEF Exporting
<1>16. KindsAreDone'
  <2>1. \A i \in 1..turn : ExportOrder[i] \in Kinds /\ ExportOrder[i] # k
    <3>1. PICK l \in (turn + 1)..7 : ExportOrder[l] = k
      BY <1>5 DEF Later
    <3>2. \A i \in 1..turn : i \in 1..7 /\ l \in 1..7 /\ i # l
      BY <3>1 DEF Exporting
    <3> QED BY <3>1, <3>2, EveryKindHasATurn
  <2> QED BY <1>6, <1>9, <1>15, <2>1 DEF Exporting, KindsAreDone
<1>17. FilesAreCovered'
  BY <1>6, <1>9 DEF Exporting, FilesAreCovered
<1>18. QueueFits' /\ LibraryThere' /\ turn' \in 0..7
  BY <1>6, <1>7 DEF Exporting, QueueFits, LibraryThere, db, vars, tagVars
<1> QED BY <1>8, <1>14, <1>16, <1>17, <1>18 DEF Exporting

LEMMA SaveFileKeepsExporting ==
  ASSUME Underway, Alone, Exporting, NEW w \in Workers, SaveFile(w)
  PROVE  Exporting'
<1>1. PICK x : x = worker[w]
  OBVIOUS
<1>2. PICK idle : idle = Idle
  OBVIOUS
<1>3. /\ x.resolved /\ x.appends = <<>> /\ worker' = [worker EXCEPT ![w] = idle]
      /\ files' = [files EXCEPT !.saved = @ \cup {x.row},
                                !.refs = @ \cup ({x.row} \X x.seen),
                                !.markers = @ \cup x.marks]
      /\ UNCHANGED <<vars, transfer, stage, db, turn, queue, asked, deletions>>
  BY <1>1, <1>2 DEF SaveFile
<1>4. w \in transfer.workers /\ Busy(x)
  BY <1>1, <1>3 DEF Exporting, WorkersFit, Idle
<1>5. /\ x.row \in Present /\ x.seen \subseteq Things /\ x.marks \subseteq Marks
      /\ x.row \in Studios \/ x.seen \subseteq Wanted
      /\ PrimaryTags(x.marks) \subseteq Wanted
  <2>1. Told(x) = Wanted
    BY <1>3 DEF Told, ToAppend
  <2> QED BY <1>3, <1>4, <2>1 DEF Busy, Goroutines
<1>6. Present \subseteq Things
  BY KeysAreThere DEF Exporting
<1>7. /\ files'.saved = files.saved \cup {x.row} /\ files'.refs = files.refs \cup ({x.row} \X x.seen)
      /\ files'.markers = files.markers \cup x.marks
      /\ files' \in [listed : SUBSET Things, saved : SUBSET Things,
                     refs : SUBSET (Things \X Things), markers : SUBSET Marks]
  BY <1>3, <1>5, <1>6 DEF Exporting, FilesAreCovered
<1>8. WorkersFit'
  BY <1>2, <1>3, <1>4, OneGoesOn DEF Idle
<1>9. Open \subseteq Open' \cup {x.row}
  <2>1. \A v \in Workers : v # w => worker'[v] = worker[v]
    BY <1>3 DEF Exporting, WorkersFit
  <2> QED BY <1>1, <1>3, <2>1 DEF Open
<1>10. /\ \A o : Named(o)' = Named(o) /\ WithStudio(o)' = WithStudio(o)
       /\ Present' = Present
  BY <1>3 DEF Named, WithStudio, RefsIn, Present, db, vars, tagVars
<1>11. \A k : Fetched(k)' = Fetched(k)
  BY <1>3 DEF Fetched, FoundOf, All, Present, db, vars, tagVars
<1>12. Wanted' = Wanted
  BY <1>11 DEF Wanted
<1>13. KindsAreDone'
  BY <1>3, <1>7, <1>9, <1>11 DEF Exporting, KindsAreDone
<1>14. FilesAreCovered'
  <2>1. \A e \in {x.row} \X x.seen : e[1] \in Studios \/ e[2] \in Wanted
    BY <1>5
  <2>2. \A m \in x.marks : m[3] \in Wanted
    BY <1>5 DEF PrimaryTags
  <2> QED BY <1>7, <1>12, <2>1, <2>2 DEF Exporting, FilesAreCovered
<1>15. LibraryThere' /\ turn' \in 0..7 /\ AskedFit' /\ QueueFits'
  BY <1>3, <1>10 DEF Exporting, LibraryThere, AskedFit, QueueFits, db, vars, tagVars
<1> QED BY <1>8, <1>13, <1>14, <1>15 DEF Exporting

\* With no row left, all of the kinds so far have their files.
LEMMA NoneIsOpen ==
  ASSUME Exporting, queue = {}, AllIdle
  PROVE  \A i \in 1..turn : Fetched(ExportOrder[i]) \subseteq files.saved
<1>1. \A w \in Workers : worker[w].row = None
  BY DEF AllIdle, Idle
<1>2. Open \subseteq {None}
  BY <1>1 DEF Open
<1>3. \A i \in 1..turn : None \notin Fetched(ExportOrder[i])
  BY AskedIsFound, EveryKindHasATurn, ThingsHaveKinds, TransferAssumption DEF Exporting
<1> QED BY <1>2, <1>3 DEF Exporting, KindsAreDone

\* The next kind: its rows are fetched by the lists as they are then.
LEMMA KindBeginsKeepsExporting ==
  ASSUME Underway, Alone, Exporting, queue = {}, AllIdle, turn \in 0..6, turn' = turn + 1,
         UNCHANGED <<rows, refs, markers, tags, transfer, worker>>,
         AskedFit', \A k \in Kinds : asked[k] \subseteq asked'[k],
         \A i \in 1..turn : asked'[ExportOrder[i]] = asked[ExportOrder[i]],
         NEW kind, kind = ExportOrder[turn + 1], NEW found, found = Fetched(kind)',
         queue' = {WithStudio(o) : o \in found},
         NEW listed \in SUBSET (files.listed \cup found),
         files' = [files EXCEPT !.listed = listed]
  PROVE  Exporting'
<1>1. /\ \A o : WithStudio(o)' = WithStudio(o) /\ WithStudio(o).row = o
      /\ Present' = Present /\ Idle' = Idle
  BY DEF Named, WithStudio, RefsIn, Present, Idle
<1>2. Wanted \subseteq Wanted'
  BY WantedGrows DEF Exporting
<1>3. found \subseteq Of(ExportOrder[turn']) \cap Present'
  <2>1. kind \in Kinds /\ kind = ExportOrder[turn']
    BY EveryKindHasATurn
  <2>2. \A k \in Kinds : Fetched(k)' \subseteq Of(k) \cap Present'
    BY DEF AskedFit, Fetched, FoundOf
  <2> QED BY <2>1, <2>2
<1>4. QueueFits'
  BY <1>1, <1>3 DEF QueueFits
<1>5. WorkersFit'
  BY <1>1 DEF AllIdle, Exporting, WorkersFit
<1>6. files'.saved = files.saved /\ files'.refs = files.refs /\ files'.markers = files.markers
      /\ files' \in [listed : SUBSET Things, saved : SUBSET Things,
                     refs : SUBSET (Things \X Things), markers : SUBSET Marks]
  <2>1. found \subseteq Things
    BY <1>1, <1>3, KeysAreThere DEF Exporting
  <2> QED BY <2>1 DEF Exporting, FilesAreCovered
<1>7. KindsAreDone'
  <2>1. \A i \in 1..turn : Fetched(ExportOrder[i])' \subseteq files'.saved
    <3>1. \A i \in 1..turn : ExportOrder[i] \in Kinds
      BY EveryKindHasATurn
    <3>2. \A i \in 1..turn : Fetched(ExportOrder[i])' = Fetched(ExportOrder[i])
      BY <3>1, WantedGrows DEF Exporting
    <3> QED BY <1>6, <3>2, NoneIsOpen
  <2>2. found \subseteq Open'
    BY <1>1 DEF Open
  <2>3. ASSUME NEW i \in 1..turn'
        PROVE  Fetched(ExportOrder[i])' \subseteq files'.saved \cup (IF i = turn' THEN Open' ELSE {})
    <3>1. CASE i = turn'
      BY <2>2, <3>1
    <3>2. CASE i # turn'
      BY <2>1, <3>2
    <3> QED BY <3>1, <3>2
  <2> QED BY <2>3 DEF KindsAreDone
<1>8. FilesAreCovered'
  BY <1>2, <1>6 DEF Exporting, FilesAreCovered
<1> QED BY <1>4, <1>5, <1>7, <1>8 DEF Exporting, LibraryThere

LEMMA PopulateKeepsExporting ==
  ASSUME Underway, Alone, Exporting, Populate
  PROVE  Exporting'
<1>1. queue = {} /\ AllIdle /\ turn = 0 /\ turn' = 1
  BY DEF Populate, Exporting, QueueFits, WorkersFit, Busy, AllIdle
<1>2. UNCHANGED <<rows, refs, markers, tags, transfer, worker>>
  BY DEF Populate, db, vars, tagVars
<1>3. PICK scenes, images :
        /\ scenes \subseteq rows \cap Of("scenes") /\ images \subseteq rows \cap Of("images")
        /\ asked' = [asked EXCEPT !["scenes"] = @ \cup scenes, !["images"] = @ \cup images]
  BY DEF Populate
<1>4. /\ AskedFit' /\ \A k \in Kinds : asked[k] \subseteq asked'[k]
  BY <1>2, <1>3, ThingsHaveKinds DEF Exporting, AskedFit, Present, Kinds
<1>5. PICK kind, found : kind = ExportOrder[turn + 1] /\ found = FoundOf(kind, asked')
  OBVIOUS
<1>6. found = Fetched(kind)'
  BY <1>2, <1>5 DEF Fetched, FoundOf, All, Present
<1>7. queue' = {WithStudio(o) : o \in found} /\ files' = [files EXCEPT !.listed = found]
  BY <1>1, <1>5 DEF Populate
<1> QED BY <1>1, <1>2, <1>4, <1>5, <1>6, <1>7, KindBeginsKeepsExporting

LEMMA NextKindKeepsExporting ==
  ASSUME Underway, Alone, Exporting, NextKind
  PROVE  Exporting'
<1>1. queue = {} /\ AllIdle /\ turn \in 0..6 /\ turn' = turn + 1
  BY DEF NextKind
<1>2. UNCHANGED <<rows, refs, markers, tags, transfer, worker, asked>>
  BY DEF NextKind, db, vars, tagVars, exportVars
<1>3. AskedFit'
  BY <1>2 DEF Exporting, AskedFit, Present
<1>4. PICK kind, found : kind = ExportOrder[turn + 1] /\ found = Fetched(kind)
  OBVIOUS
<1>5. found = Fetched(kind)'
  BY <1>2, <1>4 DEF Fetched, FoundOf, All, Present
<1>6. PICK listed : listed = files.listed \cup found
  OBVIOUS
<1>7. queue' = {WithStudio(o) : o \in found} /\ files' = [files EXCEPT !.listed = listed]
  BY <1>4, <1>6 DEF NextKind
<1> QED BY <1>1, <1>2, <1>3, <1>4, <1>5, <1>6, <1>7, KindBeginsKeepsExporting

LEMMA ExportEndsSavesAll ==
  ASSUME Exporting, ExportEnds
  PROVE  AllSaved'
<1>1. turn = 7 /\ queue = {} /\ AllIdle /\ files' = files
  BY DEF ExportEnds
<1>2. Wanted \subseteq files.saved
  BY <1>1, NoneIsOpen, EveryKindHasATurn DEF Wanted
<1> QED BY <1>1, <1>2 DEF Exporting, FilesAreCovered, AllSaved

LEMMA InitExportInv == TransferInit => ExportInv
<1> SUFFICES ASSUME TransferInit PROVE ExportInv
  OBVIOUS
<1>1. Underway /\ deletions \in Nat
  BY InitUnderway DEF TransferInit
<1>2. ASSUME Alone PROVE stage = "export" /\ Exporting
  <2>1. stage = "export" /\ LibraryThere /\ turn = 0 /\ queue = {} /\ files = NoFiles
    BY <1>2 DEF Alone, TransferInit, LibraryThere
  <2>2. AskedFit
    <3>1. asked = [k \in Kinds |-> transfer.asked \cap Of(k)]
      BY DEF TransferInit
    <3>2. transfer.asked \subseteq Present
      BY <1>2, <2>1 DEF Alone, LibraryThere, Present
    <3> QED BY <3>1, <3>2, ThingsHaveKinds DEF AskedFit
  <2>3. WorkersFit
    BY DEF TransferInit, WorkersFit
  <2>4. FilesAreCovered
    BY <2>1 DEF FilesAreCovered, NoFiles
  <2> QED BY <2>1, <2>2, <2>3, <2>4 DEF Exporting, QueueFits, KindsAreDone
<1> QED BY <1>1, <1>2 DEF ExportInv

LEMMA NextExportInv == ExportInv /\ [TransferNext]_allVars => ExportInv'
<1> SUFFICES ASSUME ExportInv, [TransferNext]_allVars PROVE ExportInv'
  OBVIOUS
<1>1. Underway' /\ transfer \in Transfers
  BY NextUnderway DEF ExportInv, Underway
<1>2. /\ transfer' = transfer /\ deletions' \in Nat
      /\ deletions' = 0 => deletions = 0 /\ ~UserDeletes
  <2>1. transfer' = transfer
    BY ImportTagsKeepsPlan
       DEF TransferNext, TransferStep, ExportStep, Populate, NextKind, ExportEnds, Look,
           ResolvePanics, Resolve, Load, StoreList, SaveFile, UserDeletes, TagsAreImported,
           ImportOther, ImportStudio, NextWaiting, ImportWaiting, NextLoop, TaskEnds,
           CancelRest, allVars, transferVars
  <2>2. CASE UserDeletes
    <3>1. deletions' = deletions + 1
      BY <2>2 DEF UserDeletes
    <3> QED BY <2>1, <3>1 DEF ExportInv
  <2>3. CASE ~UserDeletes
    <3>1. deletions' = deletions
      BY <2>3
         DEF TransferNext, TransferStep, ExportStep, Populate, NextKind, ExportEnds, Look,
             ResolvePanics, Resolve, Load, StoreList, SaveFile, ImportTagsStep,
             TagsAreImported, ImportOther, ImportStudio, NextWaiting, ImportWaiting,
             NextLoop, TaskEnds, CancelRest, allVars, transferVars, exportVars
    <3> QED BY <2>1, <2>3, <3>1 DEF ExportInv
  <2> QED BY <2>2, <2>3
<1>3. Alone' => Alone
  BY <1>2 DEF Alone
<1>4. CASE UNCHANGED allVars
  <2>1. UNCHANGED <<rows, refs, markers, tags, transfer, turn, files, asked, queue, worker, stage>>
    BY <1>4 DEF allVars, transferVars, exportVars, db, vars, tagVars
  <2>2. Exporting => Exporting'
    <3> SUFFICES ASSUME Exporting PROVE Exporting'
      OBVIOUS
    <3>1. Open' = Open /\ Idle' = Idle
      BY <2>1 DEF Open, Idle
    <3>2. WorkersFit'
      BY <2>1, <3>1, BusyStays DEF Exporting, WorkersFit
    <3> QED BY <2>1, <3>1, <3>2, RestStays DEF Exporting
  <2> QED BY <1>1, <1>2, <1>3, <2>1, <2>2 DEF ExportInv, AllSaved
<1>5. CASE TransferNext
  <2> SUFFICES ASSUME Alone, ~UserDeletes
               PROVE  /\ stage' = "export" => Exporting'
                      /\ stage' = "tags" => AllSaved'
    BY <1>1, <1>2, <1>3 DEF ExportInv, Alone
  <2>1. Underway /\ (stage = "export" => Exporting) /\ (stage = "tags" => AllSaved)
    BY DEF ExportInv
  <2>2. CASE ExportStep
    <3>1. stage = "export"
      BY <2>2 DEF ExportStep, Populate, NextKind, ExportEnds, Look, ResolvePanics, Resolve,
                  Load, StoreList, SaveFile
    <3>2. CASE Populate
      BY <2>1, <3>1, <3>2, PopulateKeepsExporting DEF Populate
    <3>3. CASE NextKind
      BY <2>1, <3>1, <3>3, NextKindKeepsExporting DEF NextKind
    <3>4. CASE ExportEnds
      BY <2>1, <3>1, <3>4, ExportEndsSavesAll DEF ExportEnds
    <3>5. ASSUME NEW w \in Workers, Look(w) PROVE stage' = stage /\ Exporting'
      BY <2>1, <3>1, <3>5, LookKeepsExporting DEF Look
    <3>6. ASSUME NEW w \in Workers, ResolvePanics(w) PROVE stage' = "down"
      BY <3>6 DEF ResolvePanics
    <3>7. ASSUME NEW w \in Workers, Resolve(w) PROVE stage' = stage /\ Exporting'
      BY <2>1, <3>1, <3>7, ResolveKeepsExporting DEF Resolve
    <3>8. ASSUME NEW w \in Workers, Load(w) PROVE stage' = stage /\ Exporting'
      BY <2>1, <3>1, <3>8, LoadKeepsExporting DEF Load
    <3>9. ASSUME NEW w \in Workers, StoreList(w) PROVE stage' = stage /\ Exporting'
      BY <2>1, <3>1, <3>9, StoreListKeepsExporting DEF StoreList
    <3>10. ASSUME NEW w \in Workers, SaveFile(w) PROVE stage' = stage /\ Exporting'
      BY <2>1, <3>1, <3>10, SaveFileKeepsExporting DEF SaveFile
    <3> QED BY <2>2, <3>1, <3>2, <3>3, <3>4, <3>5, <3>6, <3>7, <3>8, <3>9, <3>10 DEF ExportStep
  <2>3. CASE ImportTagsStep(ImportStep) \/ ImportTagsStep(CancelImport \/ UserEdits)
    BY <2>1, <2>3, ImportTagsKeepsPlan DEF AllSaved
  <2>4. CASE /\ ~ExportStep
             /\ ~(ImportTagsStep(ImportStep) \/ ImportTagsStep(CancelImport \/ UserEdits))
    <3>1. stage' \notin {"export", "tags"}
      BY <1>5, <2>4 DEF TransferNext, TransferStep, TagsAreImported, ImportOther, ImportStudio,
         NextWaiting, ImportWaiting, NextLoop, TaskEnds, CancelRest, transferVars
    <3> QED BY <3>1
  <2> QED BY <2>2, <2>3, <2>4
<1> QED BY <1>4, <1>5

(***************************************************************************)
(* What a file refers to has its file too, the parents of studios and tags *)
(* excepted, if one goroutine exports what is there: what a row names is   *)
(* of kinds whose turn comes later, and its names are on their lists       *)
(* before its own file is written (ExportTask.Start, exportScene).         *)
(***************************************************************************)
THEOREM WhatIsNamedComesAlong == TransferSpec => []RelatedAreExported
<1>1. ExportInv => RelatedAreExported
  BY DEF ExportInv, Alone, AllSaved, RelatedAreExported
<1> QED BY <1>1, InitExportInv, NextExportInv, PTL DEF TransferSpec
-----------------------------------------------------------------------------
(* Tags during whole transfers *)

\* The links of the files that are imported, also of those that an export is to write.
LinksOf(x) == IF x.exports THEN x.library.relations ELSE LinksIn(x.plan)

\* Where there are no cycles, and where the files do no harm.
TransfersFit ==
  \A x \in Transfers :
    /\ NoCycle(x.target.tags, x.target.relations)
    /\ x.exports => NoCycle(x.library.tags, x.library.relations)
    /\ \/ x.plan.duplicate # "OVERWRITE" /\ \A e \in LinksOf(x) : e[1] # e[2]
       \/ LinksOf(x) = {}
       \/ ~x.plan.editing /\ NoCycle(Tags, x.target.relations \cup LinksOf(x))

\* Markers are of the tags there can be, in tables, goroutines and files.
IsGoroutine(x) == \E any :
  x \in [row : any, studio : any, seen : any, marks : SUBSET Marks, appends : any,
         loaded : any, resolved : any]

AreFiles(x) == \E any :
  x \in [listed : any, saved : any, refs : any, markers : SUBSET Marks]

MarksFit ==
  /\ AreFiles(files)
  /\ stage = "export" =>
       /\ markers \subseteq Marks
       /\ worker = [w \in Workers |-> worker[w]]
       /\ \A w \in Workers : IsGoroutine(worker[w])

\* Before the import there are the tags of the library, from then on what it makes of
\* those of the target.
BeforeImport ==
  /\ stage \in {"export", "down"} /\ transfer.exports
  /\ tags = transfer.library.tags /\ relations = transfer.library.relations
  /\ next = 1 /\ pending \in [Tags -> Seq(Tags)] /\ orphans = <<>>
  /\ stack = <<>> /\ saved = NoTables

SinceImport ==
  /\ stage # "export"
  /\ LinksIn(plan) \subseteq LinksOf(transfer)
  /\ IInv(transfer.target.relations)

TagsInv ==
  /\ Underway /\ MarksFit
  /\ plan.duplicate = transfer.plan.duplicate /\ plan.editing = transfer.plan.editing
  /\ BeforeImport \/ SinceImport

\* A goroutine that begins, or goes on with what it has read, is one.
LEMMA GoroutineGoesOn ==
  ASSUME NEW x, IsGoroutine(x), NEW appends, NEW loaded
  PROVE  /\ IsGoroutine([x EXCEPT !.resolved = TRUE, !.appends = appends])
         /\ IsGoroutine([x EXCEPT !.loaded = loaded])
         /\ IsGoroutine([x EXCEPT !.loaded = None, !.appends = appends])
<1>1. PICK any : x \in [row : any, studio : any, seen : any, marks : SUBSET Marks,
                        appends : any, loaded : any, resolved : any]
  BY DEF IsGoroutine
<1>2. PICK more : more = any \cup {TRUE, appends, loaded, None}
  OBVIOUS
<1> DEFINE Records == [row : more, studio : more, seen : more, marks : SUBSET Marks,
                       appends : more, loaded : more, resolved : more]
<1>3. x \in Records
  BY <1>1, <1>2
<1>4. [x EXCEPT !.resolved = TRUE, !.appends = appends] \in Records
  BY <1>2, <1>3
<1>5. [x EXCEPT !.loaded = loaded] \in Records
  BY <1>2, <1>3
<1>6. [x EXCEPT !.loaded = None, !.appends = appends] \in Records
  BY <1>2, <1>3
<1> QED BY <1>4, <1>5, <1>6 DEF IsGoroutine

LEMMA GoroutineBegins ==
  ASSUME NEW row, NEW studio, NEW seen, NEW marks \in SUBSET Marks
  PROVE  IsGoroutine([Idle EXCEPT !.row = row, !.studio = studio, !.seen = seen,
                                  !.marks = marks])
<1>1. PICK any : any = {row, studio, seen, None, {}, <<>>, FALSE}
  OBVIOUS
<1> DEFINE Records == [row : any, studio : any, seen : any, marks : SUBSET Marks,
                       appends : any, loaded : any, resolved : any]
<1>2. Idle \in Records
  BY <1>1 DEF Idle
<1>3. [Idle EXCEPT !.row = row, !.studio = studio, !.seen = seen, !.marks = marks] \in Records
  BY <1>1, <1>2
<1> QED BY <1>3 DEF IsGoroutine

\* One that is none is as idle as any.
LEMMA IdleIsGoroutine == IsGoroutine(Idle)
<1>1. PICK any : any = {None, {}, <<>>, FALSE}
  OBVIOUS
<1>2. Idle \in [row : any, studio : any, seen : any, marks : SUBSET Marks, appends : any,
                loaded : any, resolved : any]
  BY <1>1 DEF Idle
<1> QED BY <1>2 DEF IsGoroutine

\* One goroutine is replaced by another.
LEMMA GoroutineReplaced ==
  ASSUME MarksFit, stage = "export", NEW w \in Workers, NEW y, IsGoroutine(y),
         worker' = [worker EXCEPT ![w] = y], UNCHANGED <<files, stage, markers>>
  PROVE  MarksFit'
<1>1. /\ worker' = [v \in Workers |-> worker'[v]]
      /\ \A v \in Workers : IsGoroutine(worker'[v])
  BY DEF MarksFit
<1> QED BY <1>1 DEF MarksFit

\* Goroutines and users keep the markers fit.
LEMMA NextMarksFit ==
  ASSUME Underway, MarksFit, [TransferNext]_allVars
  PROVE  MarksFit'
<1>1. CASE UNCHANGED allVars
  BY <1>1 DEF MarksFit, allVars, transferVars, exportVars, db
<1>2. CASE stage # "export"
  <2>1. files' = files /\ stage' # "export"
    BY <1>2, ImportTagsKeepsPlan
       DEF TransferNext, TransferStep, ExportStep, Populate, NextKind, ExportEnds, Look,
           ResolvePanics, Resolve, Load, StoreList, SaveFile, UserDeletes, TagsAreImported,
           ImportOther, ImportStudio, NextWaiting, ImportWaiting, NextLoop, TaskEnds,
           CancelRest, allVars, transferVars
  <2> QED BY <2>1 DEF MarksFit
<1> SUFFICES ASSUME stage = "export", TransferNext PROVE MarksFit'
  BY <1>1, <1>2
<1>3. CASE Populate \/ NextKind
  <2>1. PICK listed : files' = [files EXCEPT !.listed = listed]
    BY <1>3 DEF Populate, NextKind
  <2>2. PICK any : files \in [listed : any, saved : any, refs : any, markers : SUBSET Marks]
    BY DEF MarksFit, AreFiles
  <2>3. PICK more : more = any \cup {listed}
    OBVIOUS
  <2>4. files' \in [listed : more, saved : more, refs : more, markers : SUBSET Marks]
    BY <2>1, <2>2, <2>3
  <2>5. AreFiles(files')
    BY <2>4 DEF AreFiles
  <2> QED BY <1>3, <2>5 DEF MarksFit, Populate, NextKind, db, exportVars
<1>4. CASE ExportEnds
  BY <1>4 DEF ExportEnds, MarksFit
<1>5. ASSUME NEW w \in Workers, Look(w) PROVE MarksFit'
  <2>1. PICK x \in queue :
          worker' = [worker EXCEPT ![w] =
            [Idle EXCEPT !.row = x.row, !.studio = x.studio,
               !.seen = (x.studio \cap rows) \cup Joined(x.row), !.marks = MarksOf(x.row)]]
    BY <1>5 DEF Look
  <2>2. MarksOf(x.row) \in SUBSET Marks
    BY DEF MarksOf, MarksFit
  <2>3. PICK y : /\ y = [Idle EXCEPT !.row = x.row, !.studio = x.studio,
                           !.seen = (x.studio \cap rows) \cup Joined(x.row),
                           !.marks = MarksOf(x.row)]
                 /\ IsGoroutine(y)
    BY <2>2, GoroutineBegins
  <2>4. worker' = [worker EXCEPT ![w] = y] /\ UNCHANGED <<files, markers, stage>>
    BY <1>5, <2>1, <2>3 DEF Look, db
  <2> QED BY <2>3, <2>4, GoroutineReplaced
<1>6. ASSUME NEW w \in Workers, ResolvePanics(w) PROVE MarksFit'
  BY <1>6 DEF ResolvePanics, MarksFit
<1>7. ASSUME NEW w \in Workers, Resolve(w) \/ Load(w) \/ StoreList(w) PROVE MarksFit'
  <2>1. PICK x : x = worker[w] /\ IsGoroutine(x)
    BY DEF MarksFit
  <2>2. PICK y : worker' = [worker EXCEPT ![w] = y] /\ IsGoroutine(y)
    <3>1. CASE Resolve(w)
      <4>1. PICK appends : worker' = [worker EXCEPT ![w] =
                                        [x EXCEPT !.resolved = TRUE, !.appends = appends]]
        BY <2>1, <3>1 DEF Resolve
      <4>2. PICK y : /\ y = [x EXCEPT !.resolved = TRUE, !.appends = appends]
                     /\ IsGoroutine(y)
        BY <2>1, GoroutineGoesOn
      <4> QED BY <4>1, <4>2
    <3>2. CASE Load(w)
      <4>1. PICK loaded : worker' = [worker EXCEPT ![w] = [x EXCEPT !.loaded = loaded]]
        BY <2>1, <3>2 DEF Load
      <4>2. PICK y : y = [x EXCEPT !.loaded = loaded] /\ IsGoroutine(y)
        BY <2>1, GoroutineGoesOn
      <4> QED BY <4>1, <4>2
    <3>3. CASE StoreList(w)
      <4>1. PICK appends : worker' = [worker EXCEPT ![w] =
                                        [x EXCEPT !.loaded = None, !.appends = appends]]
        BY <2>1, <3>3 DEF StoreList
      <4>2. PICK y : /\ y = [x EXCEPT !.loaded = None, !.appends = appends]
                     /\ IsGoroutine(y)
        BY <2>1, GoroutineGoesOn
      <4> QED BY <4>1, <4>2
    <3> QED BY <1>7, <3>1, <3>2, <3>3
  <2>3. UNCHANGED <<files, stage, markers>>
    BY <1>7 DEF Resolve, Load, StoreList, db
  <2> QED BY <2>2, <2>3, GoroutineReplaced
<1>8. ASSUME NEW w \in Workers, SaveFile(w) PROVE MarksFit'
  <2>1. PICK saves, names, marks :
          /\ files' = [files EXCEPT !.saved = saves, !.refs = names, !.markers = marks]
          /\ marks = files.markers \cup worker[w].marks
    BY <1>8 DEF SaveFile
  <2>2. PICK any : files \in [listed : any, saved : any, refs : any, markers : SUBSET Marks]
    BY DEF MarksFit, AreFiles
  <2>3. marks \in SUBSET Marks
    BY <2>1, <2>2 DEF MarksFit, IsGoroutine
  <2>4. PICK more : more = any \cup {saves, names}
    OBVIOUS
  <2>5. files' \in [listed : more, saved : more, refs : more, markers : SUBSET Marks]
    BY <2>1, <2>2, <2>3, <2>4
  <2>6. AreFiles(files')
    BY <2>5 DEF AreFiles
  <2>7. worker' = [worker EXCEPT ![w] = Idle] /\ UNCHANGED <<stage, markers>>
    BY <1>8 DEF SaveFile, db
  <2>8. /\ worker' = [v \in Workers |-> worker'[v]]
        /\ \A v \in Workers : IsGoroutine(worker'[v])
    BY <2>7, IdleIsGoroutine DEF MarksFit
  <2> QED BY <2>6, <2>7, <2>8 DEF MarksFit
<1>9. CASE UserDeletes
  BY <1>9 DEF UserDeletes, MarksFit
<1> QED BY <1>3, <1>4, <1>5, <1>6, <1>7, <1>8, <1>9, ImportTagsKeepsPlan
        DEF TransferNext, TransferStep, ExportStep, TagsAreImported, ImportOther, ImportStudio,
            NextWaiting, ImportWaiting, NextLoop, TaskEnds, CancelRest
\* An importer adds tags to those that there are, and takes none away.
TagsGrow(d) == tags \subseteq d.tags /\ d.tags \subseteq tags \cup Tags

LEMMA ImportedTags ==
  ASSUME NEW o, NEW behaviour
  PROVE  TagsGrow(Imported(Tables, o, behaviour))
<1> DEFINE ready == PreImported(Tables, o, behaviour)
<1>1. TagsGrow(ready) /\ Stored(ready, o).tags = ready.tags
  BY DEF PreImported, Stored, Tables, TagsGrow
<1>2. Imported(Tables, o, behaviour) \in {ready, Stored(ready, o)}
  BY DEF Imported
<1> QED BY <1>1, <1>2 DEF TagsGrow

LEMMA ImportMarkersTags ==
  ASSUME MarksFit, NEW o, NEW d0 \in PerformImport(Tables, o, Behaviour(o)),
         NEW d \in ImportMarkers(Tables, d0, o)
  PROVE  TagsGrow(d)
<1>1. d0 = Imported(Tables, o, Behaviour(o)) /\ TagsGrow(d0)
  BY ImportedTags DEF PerformImport
<1>2. CASE d = d0
  BY <1>1, <1>2
<1>3. CASE d # d0
  <2> DEFINE marks == {m \in files.markers : m[1] = o}
             primaries == {m[3] : m \in marks}
             at == {m[2] : m \in marks}
             Put(f) == {m \in d0.markers : m[1] # o \/ m[2] \notin at}
                         \cup {<<o, x, f[x]>> : x \in at}
             chosen == {f \in [at -> primaries] : \A x \in at : <<o, x, f[x]>> \in marks}
  <2>1. primaries \subseteq Tags
    <3>1. files.markers \subseteq Scenes \X Seconds \X Tags
      BY DEF MarksFit, AreFiles, Marks
    <3> QED BY <3>1
  <2>2. d \in {[d0 EXCEPT !.markers = Put(f), !.tags = @ \cup primaries] : f \in chosen}
    BY <1>3, Zenon DEF ImportMarkers
  <2> HIDE DEF chosen, Put, primaries, at
  <2>3. PICK f \in chosen : d = [d0 EXCEPT !.markers = Put(f), !.tags = @ \cup primaries]
    BY <2>2
  <2>4. d0 \in [rows : {d0.rows}, refs : {d0.refs}, markers : {d0.markers}, tags : {d0.tags}]
    BY <1>1 DEF Imported, Stored, PreImported, Tables
  <2>5. d.tags = d0.tags \cup primaries
    BY <2>3, <2>4
  <2> QED BY <1>1, <2>1, <2>5 DEF TagsGrow
<1> QED BY <1>2, <1>3

LEMMA WithChildrenTags ==
  ASSUME NEW o, NEW d \in WithChildren(o)
  PROVE  TagsGrow(d)
<1> DEFINE own == Imported(Tables, o, "FAIL")
<1>1. PICK rows1, refs1 : d = [own EXCEPT !.rows = rows1, !.refs = refs1]
  BY DEF WithChildren
<1>2. own \in [rows : {own.rows}, refs : {own.refs}, markers : {own.markers}, tags : {own.tags}]
  BY DEF Imported, Stored, PreImported, Tables
<1>3. d.tags = own.tags
  BY <1>1, <1>2
<1> QED BY <1>3, ImportedTags DEF TagsGrow

LEMMA CommittedTags ==
  ASSUME NEW results, CommitOneOf(results), \A d \in results : TagsGrow(d)
  PROVE  tags \subseteq tags' /\ tags' \subseteq tags \cup Tags
BY DEF CommitOneOf, Commit, TagsGrow, RolledBack

\* What is imported after the tags keeps them, and what waits for others.
LEMMA RestKeepsTags ==
  ASSUME MarksFit, ImportOther \/ ImportStudio \/ ImportWaiting
  PROVE  /\ tags \subseteq tags' /\ tags' \subseteq tags \cup Tags
         /\ UNCHANGED <<relations, next, pending, orphans, stack, saved, plan, transfer, stage>>
<1>1. CASE ImportOther
  <2>1. PICK o \in queue :
          CommitOneOf(
            IF ~Readable(o) THEN {}
            ELSE LET imported == PerformImport(Tables, o, Behaviour(o))
                 IN IF o \in Scenes
                    THEN UNION {ImportMarkers(Tables, d, o) : d \in imported}
                    ELSE imported)
    BY <1>1 DEF ImportOther
  <2>2. \A d \in PerformImport(Tables, o, Behaviour(o)) : TagsGrow(d)
    BY ImportedTags DEF PerformImport
  <2>3. \A e \in PerformImport(Tables, o, Behaviour(o)) :
          \A d \in ImportMarkers(Tables, e, o) : TagsGrow(d)
    BY ImportMarkersTags
  <2>4. tags \subseteq tags' /\ tags' \subseteq tags \cup Tags
    BY <2>1, <2>2, <2>3, CommittedTags
  <2> QED BY <1>1, <2>4 DEF ImportOther, importVars
<1>2. CASE ImportStudio
  <2>1. PICK o \in queue : CommitOneOf(IF Readable(o) THEN WithChildren(o) ELSE {})
    BY <1>2 DEF ImportStudio
  <2>2. tags \subseteq tags' /\ tags' \subseteq tags \cup Tags
    BY <2>1, WithChildrenTags, CommittedTags
  <2> QED BY <1>2, <2>2 DEF ImportStudio, importVars
<1>3. CASE ImportWaiting
  <2>1. PICK o \in queue :
          CommitOneOf(IF Readable(o) THEN PerformImport(Tables, o, plan.missing) ELSE {})
    BY <1>3 DEF ImportWaiting
  <2>2. \A d \in PerformImport(Tables, o, plan.missing) : TagsGrow(d)
    BY ImportedTags DEF PerformImport
  <2>3. tags \subseteq tags' /\ tags' \subseteq tags \cup Tags
    BY <2>1, <2>2, CommittedTags
  <2> QED BY <1>3, <2>3 DEF ImportWaiting, importVars
<1> QED BY <1>1, <1>2, <1>3

\* The target of a transfer is as orderly as its files let it be.
LEMMA TargetIsOrderly ==
  ASSUME NEW x \in Transfers, NEW p
  PROVE  /\ Typed(x.target.tags, x.target.relations)
         /\ Tidy(p, x.target.tags, x.target.relations, x.target.relations)
<1> DEFINE T == x.target.tags
           H == x.target.relations
<1>1. Typed(T, H)
  BY TransferAssumption DEF Typed, KeysHold, Libraries
<1>2. NoCycle(Tags, H) => NoCycle(T, H)
  <2>1. H \subseteq Tags \X Tags /\ H \in SUBSET H
    BY <1>1 DEF Typed
  <2> QED BY <2>1, FewerLinks
<1> QED BY <1>1, <1>2 DEF Tidy, Harmless

\* Files with fewer links do no more harm.
LEMMA FilesDoNoHarm ==
  ASSUME TransfersFit, transfer \in Transfers, LinksIn(plan) \subseteq LinksOf(transfer),
         plan.duplicate = transfer.plan.duplicate, plan.editing = transfer.plan.editing
  PROVE  Harmless(plan, transfer.target.relations)
<1> DEFINE H == transfer.target.relations
<1>1. NoCycle(Tags, H)
  <2>1. Typed(transfer.target.tags, H) /\ NoCycle(transfer.target.tags, H)
    BY TargetIsOrderly DEF TransfersFit
  <2> QED BY <2>1, FewerLinks DEF Typed
<1>2. CASE plan.duplicate # "OVERWRITE" /\ \A e \in LinksOf(transfer) : e[1] # e[2]
  BY <1>1, <1>2 DEF Harmless, Adds
<1>3. CASE LinksOf(transfer) = {}
  BY <1>1, <1>3 DEF Harmless
<1>4. CASE ~plan.editing /\ NoCycle(Tags, H \cup LinksOf(transfer))
  <2>1. ASSUME NEW S \in SUBSET Tags, S # {}
        PROVE  \E s \in S : ParentsIn(H \cup LinksIn(plan), s) \cap S = {}
    <3>1. PICK s \in S : ParentsIn(H \cup LinksOf(transfer), s) \cap S = {}
      BY <1>4, <2>1 DEF NoCycle
    <3>2. ParentsIn(H \cup LinksIn(plan), s) \subseteq ParentsIn(H \cup LinksOf(transfer), s)
      BY DEF ParentsIn
    <3> QED BY <3>1, <3>2
  <2>2. NoCycle(Tags, H \cup LinksIn(plan))
    BY <2>1 DEF NoCycle
  <2> QED BY <1>1, <1>4, <2>2 DEF Harmless, Agrees
<1> QED BY <1>2, <1>3, <1>4 DEF TransfersFit

\* The import begins with the tags of the target, and with files that link no more than
\* those of the transfer do.
ImportIsReady ==
  /\ transfer \in Transfers /\ PlanFits /\ stage # "export"
  /\ LinksIn(plan) \subseteq LinksOf(transfer)
  /\ tags = transfer.target.tags /\ relations = transfer.target.relations
  /\ next = 1 /\ pending \in [Tags -> Seq(Tags)] /\ orphans = <<>>
  /\ stack = <<>> /\ saved = NoTables

LEMMA ImportBegins == ImportIsReady => SinceImport
<1> SUFFICES ASSUME ImportIsReady PROVE SinceImport
  OBVIOUS
<1> USE DEF ImportIsReady
<1>1. ListsOK
  <2>1. Len(plan.order) \in Nat
    BY DEF PlanFits
  <2> QED BY <2>1 DEF ListsOK
<1>2. SavedOK(transfer.target.relations)
  BY NothingIsOrderly
<1>3. /\ Typed(tags, relations)
      /\ Tidy(plan, tags, relations, transfer.target.relations)
  BY TargetIsOrderly
<1> QED BY <1>1, <1>2, <1>3 DEF SinceImport, IInv, SavedOK

LEMMA InitTagsInv == TransferInit => TagsInv
<1> SUFFICES ASSUME TransferInit PROVE TagsInv
  OBVIOUS
<1>1. Underway
  BY InitUnderway
<1>2. MarksFit
  <2>1. AreFiles(files)
    <3>1. transfer.library.markers \subseteq Marks
      BY TransferAssumption DEF TransferInit, Libraries
    <3>2. PICK any : any = {{}, transfer.library.rows, transfer.library.refs}
      OBVIOUS
    <3>3. files \in [listed : any, saved : any, refs : any, markers : SUBSET Marks]
      BY <3>1, <3>2 DEF TransferInit, NoFiles, FilesOf
    <3> QED BY <3>3 DEF AreFiles
  <2>2. stage = "export" => markers \subseteq Marks
    BY TransferAssumption DEF TransferInit, Libraries
  <2>3. /\ worker = [w \in Workers |-> worker[w]]
        /\ \A w \in Workers : IsGoroutine(worker[w])
    BY IdleIsGoroutine DEF TransferInit
  <2> QED BY <2>1, <2>2, <2>3 DEF MarksFit
<1>3. /\ next = 1 /\ pending \in [Tags -> Seq(Tags)] /\ orphans = <<>> /\ stack = <<>>
      /\ saved = NoTables /\ plan = transfer.plan
  BY DEF TransferInit, ImportInit
<1>4. CASE transfer.exports
  <2>1. BeforeImport
    BY <1>3, <1>4 DEF BeforeImport, TransferInit
  <2> QED BY <1>1, <1>2, <1>3, <2>1 DEF TagsInv
<1>5. CASE ~transfer.exports
  <2>1. tags = transfer.target.tags /\ relations = transfer.target.relations /\ stage = "tags"
    BY <1>5 DEF TransferInit
  <2>2. LinksIn(plan) \subseteq LinksOf(transfer)
    BY <1>3, <1>5 DEF LinksOf
  <2>3. SinceImport
    BY <1>1, <1>3, <2>1, <2>2, ImportBegins DEF Underway, ImportIsReady
  <2> QED BY <1>1, <1>2, <1>3, <2>3 DEF TagsInv
<1> QED BY <1>4, <1>5


\* What an export writes links no more tags than the library does.
LEMMA ExportEndsBegins ==
  ASSUME Underway, BeforeImport, ExportEnds
  PROVE  SinceImport'
<1>1. /\ relations \in SUBSET (Tags \X Tags) /\ stage = "export"
      /\ relations = transfer.library.relations
  BY TransferAssumption DEF Underway, BeforeImport, ExportEnds, Libraries
<1>2. /\ PlanFits'
      /\ \A t \in Tags : Range(plan'.parents[t]) \subseteq ParentsIn(relations, t)
  BY <1>1, ExportedPlan DEF Underway
<1>3. LinksIn(plan') \subseteq relations
  <2>1. ASSUME NEW e \in LinksIn(plan') PROVE e \in relations
    <3>1. PICK a \in Tags, d \in Tags : e = <<a, d>> /\ a \in Range(plan'.parents[d])
      BY <2>1 DEF LinksIn
    <3>2. a \in ParentsIn(relations, d)
      BY <1>2, <3>1
    <3> QED BY <1>1, <3>1, <3>2, ParentsAreLinked
  <2> QED BY <2>1
<1>4. transfer' = transfer /\ transfer \in Transfers /\ transfer.exports
  BY DEF ExportEnds, Underway, BeforeImport
<1>5. LinksIn(plan') \subseteq LinksOf(transfer')
  BY <1>1, <1>3, <1>4 DEF LinksOf
<1>6. /\ tags' = transfer'.target.tags /\ relations' = transfer'.target.relations
      /\ next' = 1 /\ pending' \in [Tags -> Seq(Tags)] /\ orphans' = <<>> /\ stack' = <<>>
      /\ saved' = NoTables /\ stage' = "tags"
  BY <1>4 DEF ExportEnds, importVars, BeforeImport
<1>7. ImportIsReady'
  BY <1>2, <1>4, <1>5, <1>6 DEF ImportIsReady
<1> QED BY <1>7, ImportBegins, PTL

\* What does not touch the tags, the files or the lists.
LEMMA RestOfSince ==
  ASSUME SinceImport, stage' # "export", transfer' = transfer, plan' = plan,
         UNCHANGED <<next, pending, orphans, stack, saved>>,
         TablesOK(transfer.target.relations)'
  PROVE  SinceImport'
BY DEF SinceImport, IInv, ListsOK, PlanFits, TablesOK

LEMMA NextTagsInv == TagsInv /\ [TransferNext]_allVars => TagsInv'
<1> SUFFICES ASSUME TagsInv, [TransferNext]_allVars PROVE TagsInv'
  OBVIOUS
<1> DEFINE H == transfer.target.relations
<1> DEFINE ImportsTags == \/ ImportTagsStep(ImportStep)
                          \/ ImportTagsStep(CancelImport \/ UserEdits)
<1>1. Underway /\ Underway' /\ MarksFit /\ MarksFit'
  BY NextUnderway, NextMarksFit DEF TagsInv
\* Only an export changes the files of tags.
<1>2. ~ExportEnds => plan' = plan
  <2> SUFFICES ASSUME ~ExportEnds PROVE plan' = plan
    OBVIOUS
  <2>1. CASE ImportsTags
    BY <2>1, ImportTagsKeepsPlan
  <2>2. CASE ~ImportsTags
    BY <2>2 DEF TransferNext, TransferStep, ExportStep, Populate, NextKind, Look,
       ResolvePanics, Resolve, Load, StoreList, SaveFile, UserDeletes, TagsAreImported,
       ImportOther, ImportStudio, NextWaiting, ImportWaiting, NextLoop, TaskEnds,
       CancelRest, allVars, vars
  <2> QED BY <2>1, <2>2
<1>3. transfer' = transfer
  BY ImportTagsKeepsPlan
     DEF TransferNext, TransferStep, ExportStep, Populate, NextKind, ExportEnds, Look,
         ResolvePanics, Resolve, Load, StoreList, SaveFile, UserDeletes, TagsAreImported,
         ImportOther, ImportStudio, NextWaiting, ImportWaiting, NextLoop, TaskEnds,
         CancelRest, allVars, transferVars
<1>4. plan'.duplicate = transfer'.plan.duplicate /\ plan'.editing = transfer'.plan.editing
  <2>1. CASE ExportEnds
    <3>1. PICK order, parents : plan' = [plan EXCEPT !.order = order, !.parents = parents]
      BY <2>1 DEF ExportEnds
    <3>2. plan'.duplicate = plan.duplicate /\ plan'.editing = plan.editing
      BY <1>1, <3>1 DEF Underway, PlanFits
    <3> QED BY <1>3, <3>2 DEF TagsInv
  <2>2. CASE ~ExportEnds
    BY <1>2, <1>3, <2>2 DEF TagsInv
  <2> QED BY <2>1, <2>2
<1> SUFFICES BeforeImport' \/ SinceImport'
  BY <1>1, <1>4 DEF TagsInv
<1>5. CASE ExportEnds
  <2>1. BeforeImport
    BY <1>5 DEF TagsInv, SinceImport, ExportEnds
  <2> QED BY <1>1, <1>5, <2>1, ExportEndsBegins
\* Exports, users that delete rows, and loops that go on.
<1>6. CASE UNCHANGED <<tagVars, importVars>> /\ ~ExportEnds
  <2>1. plan' = plan /\ UNCHANGED <<tags, relations, next, pending, orphans, stack, saved>>
    BY <1>2, <1>6 DEF tagVars, importVars
  <2>2. stage' # stage => stage' # "export" /\ (stage = "export" => stage' = "down")
    BY <1>6, ImportTagsKeepsPlan
       DEF TransferNext, TransferStep, ExportStep, Populate, NextKind, Look,
         ResolvePanics, Resolve, Load, StoreList, SaveFile, UserDeletes, TagsAreImported,
         ImportOther, ImportStudio, NextWaiting, ImportWaiting, NextLoop, TaskEnds,
         CancelRest, allVars, transferVars
  <2>3. CASE SinceImport
    <3>1. TablesOK(H)'
      BY <1>3, <2>1, <2>3 DEF TablesOK, SinceImport, IInv
    <3>2. stage' # "export"
      BY <2>2, <2>3 DEF SinceImport
    <3> QED BY <1>3, <2>1, <2>3, <3>1, <3>2, RestOfSince
  <2>4. CASE BeforeImport
    <3>1. stage' \in {"export", "down"}
      <4>1. CASE stage = "export"
        BY <2>2, <4>1
      <4>2. CASE stage = "down"
        BY <4>2, ImportTagsKeepsPlan
           DEF TransferNext, TransferStep, ExportStep, Populate, NextKind, Look,
               ResolvePanics, Resolve, Load, StoreList, SaveFile, UserDeletes,
               TagsAreImported, ImportOther, ImportStudio, NextWaiting, ImportWaiting,
               NextLoop, TaskEnds, CancelRest, ExportEnds, allVars, transferVars
      <4> QED BY <2>4, <4>1, <4>2 DEF BeforeImport
    <3> QED BY <1>3, <2>1, <2>4, <3>1 DEF BeforeImport
  <2> QED BY <2>3, <2>4 DEF TagsInv
<1>7. CASE ImportsTags
  <2>1. plan' = plan /\ stage = "tags" /\ stage' # "export"
    BY <1>7, ImportTagsKeepsPlan
  <2>2. SinceImport
    BY <2>1 DEF TagsInv, BeforeImport
  <2>3. [Next]_vars
    BY <1>7 DEF ImportTagsStep, Next
  <2>4. PICK links : links = H
    OBVIOUS
  <2>5. IInv(links)
    BY <2>2, <2>4 DEF SinceImport
  <2>6. IInv(links)'
    BY <2>3, <2>5, NextIInv
  <2> QED BY <1>3, <2>1, <2>2, <2>4, <2>6 DEF SinceImport, LinksIn, IInv, TablesOK
<1>8. CASE ImportOther \/ ImportStudio \/ ImportWaiting
  <2>1. /\ tags \subseteq tags' /\ tags' \subseteq tags \cup Tags
        /\ UNCHANGED <<relations, next, pending, orphans, stack, saved, plan, transfer, stage>>
    BY <1>1, <1>8, RestKeepsTags
  <2>2. stage = "rest"
    BY <1>8 DEF ImportOther, ImportStudio, ImportWaiting
  <2>3. SinceImport
    BY <2>2 DEF TagsInv, BeforeImport
  <2>4. PICK links : links = H
    OBVIOUS
  <2>5. TablesOK(links)
    BY <2>3, <2>4 DEF SinceImport, IInv, TablesOK
  <2>6. tags' \subseteq Tags
    BY <2>1, <2>5 DEF TablesOK, Typed
  <2>7. TablesOK(links)'
    BY <2>1, <2>5, <2>6, MoreTagsKeepOrder
  <2>8. TablesOK(H)'
    BY <1>3, <2>4, <2>7 DEF TablesOK
  <2> QED BY <2>1, <2>2, <2>3, <2>8, RestOfSince
<1>9. CASE ~(\/ UNCHANGED <<tagVars, importVars>> /\ ~ExportEnds
             \/ ExportEnds \/ ImportsTags
             \/ ImportOther \/ ImportStudio \/ ImportWaiting)
  BY <1>9 DEF TransferNext, TransferStep, ExportStep, Populate, NextKind, Look,
       ResolvePanics, Resolve, Load, StoreList, SaveFile, UserDeletes, TagsAreImported,
       NextWaiting, NextLoop, TaskEnds, CancelRest, allVars, vars
<1> QED BY <1>5, <1>6, <1>7, <1>8, <1>9

(***************************************************************************)
(* Nor does a tag become its own ancestor when the files of a transfer are *)
(* imported into a library that has tags of its own (pkg/tag/import.go:67  *)
(* links without validation; scenes, images and markers create the tags    *)
(* they lack), exports included, if neither library has a cycle and the    *)
(* files do no harm: they overwrite nothing, give no parents, or have one  *)
(* hierarchy with the target.                                              *)
(***************************************************************************)
THEOREM TransfersMakeNoCycle ==
  ASSUME TransfersFit
  PROVE  TransferSpec => []Acyclic
<1>1. TagsInv => Acyclic
  <2> SUFFICES ASSUME TagsInv PROVE NoCycle(tags, relations)
    BY DEF NoCycle, Acyclic
  <2>1. CASE BeforeImport
    BY <2>1 DEF TagsInv, Underway, BeforeImport, TransfersFit
  <2>2. CASE SinceImport
    <3>1. Harmless(plan, transfer.target.relations)
      BY <2>2, FilesDoNoHarm DEF TagsInv, Underway, SinceImport
    <3> QED BY <2>2, <3>1 DEF SinceImport, IInv, Tidy
  <2> QED BY <2>1, <2>2 DEF TagsInv
<1> QED BY <1>1, InitTagsInv, NextTagsInv, PTL DEF TransferSpec

(***************************************************************************)
(* And whatever is transferred, merging never takes a tag out of the       *)
(* subtree of another (MergeHierarchy, pkg/tag/update.go:167-211).         *)
(***************************************************************************)
THEOREM TransfersKeepAncestry == TransferSpec => MergeKeepsAncestry
<1>1. TagsInv => TypeOK
  <2>1. TagsInv /\ BeforeImport => TypeOK
    BY TransferAssumption DEF TagsInv, Underway, BeforeImport, Libraries, KeysHold, TypeOK
  <2>2. SinceImport => TypeOK
    BY DEF SinceImport, IInv, Typed, TypeOK
  <2> QED BY <2>1, <2>2 DEF TagsInv
<1>2. TagsInv => [MergeKept]_tagVars
  BY <1>1, StepsKeepAncestry
<1> QED BY <1>2, InitTagsInv, NextTagsInv, PTL DEF TransferSpec, MergeKeepsAncestry, MergeKept
=============================================================================
