---------------------------- MODULE TagHierarchy ----------------------------
(***************************************************************************)
(* Tags and the relation between parents and children (tags_relations), as *)
(* the mutations of internal/api/resolver_mutation_tag.go change them.     *)
(* Each is one transaction, and write transactions do not overlap; one     *)
(* that returns an error is rolled back and is no step here.  The links    *)
(* are written first and validated afterwards (the FIXMEs at lines 113 and *)
(* 237), by searches of the relation as it is then.                        *)
(*                                                                         *)
(* A tag is known by its name, which no two tags share.                    *)
(***************************************************************************)

CONSTANT Tags     \* the tags there can be

VARIABLES
  tags,         \* the rows of the table
  relations     \* pairs <<parent, child>>

tagVars == <<tags, relations>>

\* A list of parents or children in an input: {S} if it is S, {} if not given.
NotGiven == {}
Lists == {NotGiven} \cup {{S} : S \in SUBSET Tags}

ParentsIn(R, t) == {e[1] : e \in {x \in R : x[2] = t}}
ChildrenIn(R, t) == {e[2] : e \in {x \in R : x[1] = t}}

TypeOK ==
  /\ tags \subseteq Tags
  /\ relations \subseteq tags \X tags     \* foreign keys with delete cascade

TagInit == tags = {} /\ relations = {}

-----------------------------------------------------------------------------
(* Reading and writing the relation *)

\* The rows that a recursive query finds among T from t along the pairs of R.
Reached(T, R, t) ==
  LET closed == {S \in SUBSET T :
                   t \in S /\ \A e \in R : e[1] \in S => e[2] \in S}
  IN {d \in T : \A S \in closed : d \in S}

FindAllDescendants(T, R, t) == Reached(T, R, t)
FindAllAncestors(T, R, t) == Reached(T, {<<e[2], e[1]>> : e \in R}, t)

UpdateParentTags(R, t, P) ==
  {e \in R : e[2] # t} \cup (P \X {t})

UpdateChildTags(R, t, C) ==
  {e \in R : e[1] # t} \cup ({t} \X C)

\* The lists that are given replace the links of t.
Linked(R, t, P, C) ==
  LET R1 == IF P = NotGiven THEN R ELSE UpdateParentTags(R, t, UNION P)
  IN IF C = NotGiven THEN R1 ELSE UpdateChildTags(R1, t, UNION C)

\* The lists given, or else those in the relation, against what R leads to.
ValidateHierarchy(T, R, t, P, C) ==
  /\ (IF P = NotGiven THEN ParentsIn(R, t) ELSE UNION P)
       \cap FindAllDescendants(T, R, t) = {}
  /\ (IF C = NotGiven THEN ChildrenIn(R, t) ELSE UNION C)
       \cap FindAllAncestors(T, R, t) = {}

\* Mutant: the hierarchy is validated before the links are written.
SaveValidated(T, R, t, P, C) ==
  /\ UNION P \subseteq T /\ UNION C \subseteq T
  /\ P # NotGiven \/ C # NotGiven => ValidateHierarchy(T, R, t, P, C)
  /\ tags' = T
  /\ relations' = Linked(R, t, P, C)

\* The rows T and links R, to which t's are written and validated.
Save(T, R, t, P, C) ==
  LET linked == Linked(R, t, P, C)
  IN /\ UNION P \subseteq T /\ UNION C \subseteq T
     /\ P # NotGiven \/ C # NotGiven => ValidateHierarchy(T, linked, t, P, C)
     /\ tags' = T
     /\ relations' = linked

-----------------------------------------------------------------------------
(* The mutations *)

\* An empty list is as good as none.
TagCreate(t, P, C) ==
  /\ t \notin tags
  /\ P # {{}} /\ C # {{}}
  /\ Save(tags \cup {t}, relations, t, P, C)

TagUpdate(t, P, C) ==
  /\ t \in tags
  /\ Save(tags, relations, t, P, C)

\* Tag.Destroy of each; the links go with them.
TagsDestroy(D) ==
  /\ D # {} /\ D \subseteq tags
  /\ tags' = tags \ D
  /\ relations' = {e \in relations : e[1] \notin D /\ e[2] \notin D}

\* Mutant: the links of the destination alone.
MergeHierarchyOwn(t, S) ==
  [parents |-> ParentsIn(relations, t) \ (S \cup {t}),
   children |-> ChildrenIn(relations, t) \ (S \cup {t})]

\* All their parents and all their children, without themselves.
MergeHierarchy(t, S) ==
  LET M == S \cup {t}
  IN [parents |-> (UNION {ParentsIn(relations, s) : s \in M}) \ M,
      children |-> (UNION {ChildrenIn(relations, s) : s \in M}) \ M]

\* The tags S are merged into t and deleted.
TagsMerge(t, S) ==
  /\ t \in tags /\ S # {} /\ S \subseteq tags \ {t}
  /\ Save(tags \ S, {e \in relations : e[1] \notin S /\ e[2] \notin S}, t,
          {MergeHierarchy(t, S).parents}, {MergeHierarchy(t, S).children})

Edit ==
  \/ \E t \in Tags, P, C \in Lists :
       TagCreate(t, P, C) \/ TagUpdate(t, P, C)
  \/ \E D \in SUBSET Tags : TagsDestroy(D)
  \/ \E t \in Tags, S \in SUBSET Tags : TagsMerge(t, S)

HierarchySpec == TagInit /\ [][Edit]_tagVars
-----------------------------------------------------------------------------
(***************************************************************************)
(* No tag is its own ancestor: among any tags there is one that has no     *)
(* parent among them.  It is what ValidateHierarchy is for, and without it *)
(* FindAllAncestors and FindAllDescendants, whose rows carry the path,     *)
(* never end for the tags below or above a circle.                         *)
(***************************************************************************)
Acyclic == \A S \in SUBSET tags :
  S # {} => \E s \in S : ParentsIn(relations, s) \cap S = {}

(***************************************************************************)
(* Merging takes no tag out of the subtree of another: whatever was a      *)
(* descendant stays one, although the links led through the tags that are  *)
(* deleted (MergeHierarchy, pkg/tag/update.go:167-211).                    *)
(***************************************************************************)
MergeKeepsAncestry ==
  [][\A t \in tags' : TagsMerge(t, tags \ tags') =>
       \A a, d \in tags' :
         d \in FindAllDescendants(tags, relations, a)
           => d \in FindAllDescendants(tags', relations', a)]_tagVars
=============================================================================
