------------------------- MODULE LibraryJobsProofs -------------------------
(***************************************************************************)
(* What auto-tag and identify jobs do to a library that users change       *)
(* meanwhile, for any library, inputs, size of the pages and number of     *)
(* edits.  Jobs only add, which rests on what a job remembers: its caches  *)
(* and the subjects that wait to be processed.  And a job that is let do   *)
(* its work reaches everything: as long as no row is taken away the query  *)
(* of a kind stays what it is, so the pages follow one another without a   *)
(* gap.                                                                    *)
(***************************************************************************)
EXTENDS LibraryJobs, FiniteSetTheorems, SequenceTheorems, WellFoundedInduction, TLAPS

-----------------------------------------------------------------------------
(* Operators of the model and of the community modules.                    *)

LEMMA LeastNatural ==
  ASSUME NEW S \in SUBSET Nat, S # {}
  PROVE  Min(S) \in S
<1> DEFINE R == OpToRel(<, Nat)
<1>1. IsWellFoundedOn(R, Nat)
  BY NatLessThanWellFounded
<1>2. \A x, y \in Nat : ~(<<y, x>> \in R) => x <= y
  BY DEF OpToRel
<1> HIDE DEF R
<1>3. \E x \in S : \A y \in S : ~(<<y, x>> \in R)
  BY <1>1, WFMin
<1>4. \E x \in S : \A y \in S : x <= y
  BY <1>2, <1>3
<1> QED
  BY <1>4 DEF Min

LEMMA LesserOfTwo ==
  ASSUME NEW j \in Int, NEW k \in Int
  PROVE  Min({j, k}) = IF j <= k THEN j ELSE k
<1>1. \E x \in {j, k} : \A y \in {j, k} : x <= y
  OBVIOUS
<1> QED
  BY <1>1 DEF Min

LEMMA SequenceOfSet ==
  ASSUME NEW S, IsFiniteSet(S)
  PROVE  /\ SetToSeq(S) \in Seq(S)
         /\ \A x \in S : \E j \in DOMAIN SetToSeq(S) : SetToSeq(S)[j] = x
<1> DEFINE N == Cardinality(S)
<1>1. N \in Nat /\ ExistsBijection(1..N, S)
  BY FS_CardinalityType
<1>2. PICK f \in [1..N -> S] : f \in Bijection(1..N, S)
  BY <1>1 DEF ExistsBijection, Bijection, Injection
<1>3. IsInjective(f)
  BY <1>2 DEF Bijection, Injection, IsInjective
<1>4. SetToSeq(S) \in [1..N -> S] /\ IsInjective(SetToSeq(S))
  BY <1>3 DEF SetToSeq
<1>5. SetToSeq(S) \in Injection(1..N, S)
  BY <1>4 DEF Injection, IsInjective
<1>6. IsFiniteSet(1..N) /\ Cardinality(1..N) = N
  BY <1>1, FS_Interval
<1>7. SetToSeq(S) \in Surjection(1..N, S)
  BY <1>5, <1>6, FS_Injection
<1>8. SetToSeq(S) \in Seq(S)
  BY <1>1, <1>4
<1>9. DOMAIN SetToSeq(S) = 1..N
  BY <1>4
<1> QED
  BY <1>7, <1>8, <1>9 DEF Surjection

LEMMA RestOfBatch ==
  ASSUME NEW S, NEW s \in Seq(S), s # <<>>
  PROVE  /\ Head(s) \in S /\ Tail(s) \in Seq(S)
         /\ \A j \in DOMAIN s : s[j] = Head(s) \/ \E k \in DOMAIN Tail(s) : Tail(s)[k] = s[j]
         /\ \A k \in DOMAIN Tail(s) : \E j \in DOMAIN s : Tail(s)[k] = s[j]
         /\ 1 \in DOMAIN s /\ s[1] = Head(s)
<1>1. Head(s) \in S /\ Tail(s) \in Seq(S) /\ Len(Tail(s)) = Len(s) - 1
      /\ \A k \in 1..Len(Tail(s)) : Tail(s)[k] = s[k + 1]
  BY HeadTailProperties
<1>2. DOMAIN s = 1..Len(s) /\ DOMAIN Tail(s) = 1..Len(Tail(s)) /\ Len(s) \in Nat /\ Len(s) # 0
      /\ Head(s) = s[1]
  BY <1>1
<1>3. ASSUME NEW j \in DOMAIN s, s[j] # Head(s)
      PROVE  \E k \in DOMAIN Tail(s) : Tail(s)[k] = s[j]
  <2>1. j - 1 \in 1..Len(Tail(s)) /\ (j - 1) + 1 = j
    BY <1>1, <1>2, <1>3
  <2> QED
    BY <2>1, <1>1, <1>2
<1>4. ASSUME NEW k \in DOMAIN Tail(s)
      PROVE  \E j \in DOMAIN s : Tail(s)[k] = s[j]
  BY <1>1, <1>2
<1> QED
  BY <1>1, <1>2, <1>3, <1>4

-----------------------------------------------------------------------------
(* Jobs only add.                                                          *)

Caches == {"performers", "studios", "tags"}
Entries == [of : Caches, id : Subjects \cup {Everything}]
AskedIds == {e.id : e \in Range(input.ids)}

\* What is found once for the whole job has a name that begins with one letter.
CacheFits ==
  /\ DOMAIN cache = Caches
  /\ \A k \in Caches : cache[k] # None => cache[k] \subseteq SingleLetter

LibraryFits ==
  /\ input \in Inputs /\ edits \in Nat
  /\ DOMAIN links = Objects /\ DOMAIN studio = Objects

\* Who waits to be processed was asked for, and by id if auto-tag is to ignore it.
EntriesFit ==
  input.kind = "specific" =>
    /\ kinds = <<>> /\ pc \in {"query", "each"} \cup Ended
    /\ input.ids \in Seq(Entries) /\ todo \in Seq(Entries)
    /\ \A j \in DOMAIN todo : todo[j] \in Range(input.ids)
    /\ batch \in Seq(Subjects)
    /\ \A j \in DOMAIN batch : batch[j] \in Ignored => batch[j] \in AskedIds

AddInv == LibraryFits /\ CacheFits /\ EntriesFit

LEMMA AddInitial == Init => AddInv
<1> SUFFICES ASSUME Init PROVE AddInv
  OBVIOUS
<1> USE DEF Init, LibraryInit, JobInit
<1>1. LibraryFits
  <2>1. PICK b \in Beginnings : studio = b.studio
    OBVIOUS
  <2>2. DOMAIN studio = Objects
    BY <2>1, LibraryAssumption
  <2> QED
    BY <2>2 DEF LibraryFits
<1>2. CacheFits
  BY DEF CacheFits, Caches
<1>3. EntriesFit
  <2> SUFFICES ASSUME input.kind = "specific" PROVE EntriesFit
    BY DEF EntriesFit
  <2>1. input.ids \in Seq(Entries)
    BY AutoTagAssumption DEF Entries, Caches, Everything
  <2>2. \A j \in DOMAIN todo : todo[j] \in Range(input.ids)
    BY DEF Range
  <2>3. kinds = <<>>
    OBVIOUS
  <2> QED
    BY <2>1, <2>2, <2>3 DEF EntriesFit, Ended
<1> QED
  BY <1>1, <1>2, <1>3 DEF AddInv

\* Users write rows and leave the job's memory alone.
LEMMA UsersKeepAddInv ==
  ASSUME AddInv, UserStep
  PROVE  AddInv' /\ edits' # edits
<1>1. /\ edits' = edits + 1 /\ UNCHANGED jobVars
      /\ DOMAIN links' = Objects /\ DOMAIN studio' = Objects
  BY DEF UserStep, UserEdits, UpdateOrganized, UpdateStudio, BulkUpdate, ObjectDestroy,
         SubjectDestroy, SubjectCreate, TagsMerge, Edited, AddInv, LibraryFits
<1>2. LibraryFits' /\ edits' # edits
  BY <1>1 DEF AddInv, LibraryFits, jobVars
<1>3. CacheFits' /\ EntriesFit'
  BY <1>1 DEF AddInv, CacheFits, EntriesFit, AskedIds, jobVars
<1> QED
  BY <1>2, <1>3 DEF AddInv

\* The files' task reads names of one letter once, for all kinds that it needs.
LEMMA CacheIsFilled ==
  ASSUME CacheFits, NEW row, FillCache(row)
  PROVE  CacheFits'
<1>1. DOMAIN cache' = Caches /\ \A k \in Caches : cache'[k] = CachedOf(k) \/ cache'[k] = cache[k]
  BY DEF CacheFits, FillCache
<1>2. ASSUME NEW k \in Caches, cache'[k] # None
      PROVE  cache'[k] \subseteq SingleLetter
  BY <1>1, <1>2 DEF CacheFits, CachedOf
<1> QED
  BY <1>1, <1>2 DEF CacheFits

\* The next entry of the input gives who comes next.
LEMMA AskingKeepsEntries ==
  ASSUME AddInv, AskFor
  PROVE  EntriesFit'
<1> USE DEF AskFor
<1>1. /\ kinds = <<>> /\ input.ids \in Seq(Entries) /\ todo \in Seq(Entries)
      /\ \A j \in DOMAIN todo : todo[j] \in Range(input.ids)
      /\ batch \in Seq(Subjects)
      /\ \A j \in DOMAIN batch : batch[j] \in Ignored => batch[j] \in AskedIds
      /\ input' = input /\ kinds' = kinds
  BY DEF AddInv, EntriesFit
<1>2. CASE todo = <<>>
  BY <1>1, <1>2 DEF EntriesFit, Ended, AskedIds
<1>3. CASE todo # <<>>
  <2>1. /\ Asked \in Entries /\ Asked \in Range(input.ids) /\ Tail(todo) \in Seq(Entries)
        /\ \A k \in DOMAIN Tail(todo) : Tail(todo)[k] \in Range(input.ids)
    BY <1>1, <1>3, RestOfBatch DEF Asked
  <2>2. todo' = Tail(todo)
    BY <1>3
  <2>3. pc' \in {"query", "each"} \cup Ended
    BY <1>3 DEF Ended
  <2>4. CASE Asked.id = Everything
    <3> DEFINE S == (RowsOf[Asked.of] \cap there) \ Ignored
    <3>1. S \subseteq Subjects
      BY <2>1 DEF RowsOf, Entries, Caches, Subjects
    <3>2. SetToSeq(S) \in Seq(S)
      BY <3>1, LibraryAssumption, FS_Subset, SequenceOfSet
    <3> HIDE DEF S
    <3>3. batch' = SetToSeq(S)
      BY <1>3, <2>4 DEF S
    <3>4. \A j \in DOMAIN batch' : batch'[j] \in S
      BY <3>2, <3>3
    <3>5. batch' \in Seq(Subjects)
      BY <3>1, <3>2, <3>3
    <3>6. \A j \in DOMAIN batch' : batch'[j] \notin Ignored
      BY <3>4 DEF S
    <3> QED
      BY <1>1, <2>1, <2>2, <2>3, <3>5, <3>6 DEF EntriesFit
  <2>5. CASE Asked.id # Everything /\ Asked.id \in there
    <3>1. batch' = <<Asked.id>> /\ Asked.id \in Subjects /\ Asked.id \in AskedIds
      BY <1>3, <2>1, <2>5 DEF Entries, AskedIds
    <3> QED
      BY <1>1, <2>1, <2>2, <2>3, <3>1 DEF EntriesFit, AskedIds
  <2>6. CASE Asked.id # Everything /\ Asked.id \notin there
    BY <1>1, <1>3, <2>1, <2>2, <2>3, <2>6 DEF EntriesFit, AskedIds
  <2> QED
    BY <2>4, <2>5, <2>6
<1> QED
  BY <1>2, <1>3

LEMMA JobKeepsAddInv ==
  ASSUME AddInv, JobStep
  PROVE  AddInv'
<1>1. LibraryFits'
  <2>1. /\ input' = input /\ edits' = edits
        /\ DOMAIN links' = Objects /\ DOMAIN studio' = Objects
    BY DEF JobStep, Batch, Query, Resolve, NextPage, CancelJob, AutoTagStep, TagFilePanics,
           TagFile, AskFor, TagSubject, NextEntry, IdentifyStep, FindScene, Scrape, ModifyScene,
           NextScene, histVars, libVars, AddInv, LibraryFits
  <2> QED
    BY <2>1 DEF AddInv, LibraryFits
<1>2. CacheFits'
  <2>1. CASE TagFile
    BY <2>1, CacheIsFilled DEF TagFile, AddInv
  <2>2. CASE ~TagFile
    <3>1. cache' = cache
      BY <2>2 DEF JobStep, Batch, Query, Resolve, NextPage, CancelJob, AutoTagStep, TagFilePanics,
           AskFor, TagSubject, NextEntry, IdentifyStep, FindScene, Scrape, ModifyScene, NextScene
    <3> QED
      BY <3>1 DEF AddInv, CacheFits
  <2> QED
    BY <2>1, <2>2
<1>3. EntriesFit'
  <2>1. input' = input
    BY DEF JobStep, Batch, Query, Resolve, NextPage, CancelJob, AutoTagStep, TagFilePanics,
           TagFile, AskFor, TagSubject, NextEntry, IdentifyStep, FindScene, Scrape, ModifyScene, NextScene
  <2>2. CASE input.kind # "specific"
    BY <2>1, <2>2 DEF EntriesFit
  <2>3. CASE input.kind = "specific"
    <3>1. CancelJob \/ AskFor \/ TagSubject \/ NextEntry
      BY <2>3 DEF JobStep, Batch, Query, Resolve, NextPage, AutoTagStep, TagFilePanics, HasFile,
           TagFile, IdentifyStep, FindScene, Scrape, ModifyScene, NextScene, Identifies,
           AddInv, EntriesFit, Ended
    <3>2. CASE AskFor
      BY <3>2, AskingKeepsEntries
    <3>3. CASE CancelJob \/ NextEntry
      <4>1. UNCHANGED <<kinds, batch, todo>> /\ pc' \in {"query", "each"} \cup Ended
        BY <3>3 DEF CancelJob, NextEntry, Ended
      <4> QED
        BY <2>1, <2>3, <4>1 DEF AddInv, EntriesFit, AskedIds
    <3>4. CASE TagSubject
      <4>1. UNCHANGED <<kinds, pc, todo>> /\ batch' \in {<<>>, Tail(batch)} /\ batch # <<>>
        BY <3>4 DEF TagSubject
      <4>2. batch \in Seq(Subjects) /\ \A j \in DOMAIN batch : batch[j] \in Ignored => batch[j] \in AskedIds
        BY <2>3 DEF AddInv, EntriesFit
      <4>3. /\ Tail(batch) \in Seq(Subjects)
            /\ \A k \in DOMAIN Tail(batch) : \E j \in DOMAIN batch : Tail(batch)[k] = batch[j]
        BY <4>1, <4>2, RestOfBatch
      <4>4. batch' \in Seq(Subjects) /\ \A j \in DOMAIN batch' : batch'[j] \in Ignored => batch'[j] \in AskedIds
        <5>1. CASE batch' = <<>>
          BY <5>1
        <5>2. CASE batch' = Tail(batch)
          BY <4>2, <4>3, <5>2
        <5> QED
          BY <4>1, <5>1, <5>2
      <4> QED
        BY <2>1, <2>3, <4>1, <4>4 DEF AddInv, EntriesFit, AskedIds
    <3> QED
      BY <3>1, <3>2, <3>3, <3>4
  <2> QED
    BY <2>2, <2>3
<1> QED
  BY <1>1, <1>2, <1>3 DEF AddInv

LEMMA AddInvHolds == Spec => []AddInv
<1>1. AddInv /\ [Next]_vars => AddInv'
  <2>1. ASSUME AddInv, UNCHANGED vars PROVE AddInv'
    BY <2>1 DEF AddInv, LibraryFits, CacheFits, EntriesFit, AskedIds, vars, libVars, histVars, jobVars
  <2> QED
    BY <2>1, UsersKeepAddInv, JobKeepsAddInv DEF Next
<1> QED
  BY <1>1, AddInitial, PTL DEF Spec

\* Whom the files' task links with an object: its path calls for them.
LEMMA WantedAreCalledFor ==
  ASSUME CacheFits, NEW o \in Objects, NEW k \in Caches, NEW x \in Wanted(o, k)
  PROVE  x \in Matching[o] /\ (x \in Ignored => x \in SingleLetter)
<1>1. x \in Matching[o] /\ x \in Candidates(k)
  BY DEF Wanted, Matches
<1>2. CachedOf(k) \subseteq SingleLetter
  BY DEF CachedOf, CacheFits
<1> QED
  BY <1>1, <1>2 DEF Candidates

\* The studio that is furthest to the right is one that the path calls for.
LEMMA StudioIsCalledFor ==
  ASSUME NEW o \in Objects, PathToStudio(o) # None
  PROVE  /\ PathToStudio(o) \in Matching[o] \cap Studios
         /\ PathToStudio(o) \in Candidates("studios")
<1> DEFINE from == {j \in DOMAIN StudiosFrom[o] : StudiosFrom[o][j] \in Candidates("studios")}
<1>1. from # {} /\ PathToStudio(o) = StudiosFrom[o][Min(from)]
  BY DEF PathToStudio
<1>2. StudiosFrom[o] \in Seq(Studios) /\ Range(StudiosFrom[o]) = Matching[o] \cap Studios
  BY AutoTagAssumption
<1>3. from \in SUBSET Nat
  BY <1>2
<1>4. Min(from) \in from
  BY <1>1, <1>3, LeastNatural
<1> QED
  BY <1>1, <1>2, <1>4 DEF Range

LEMMA FilesOnlyAdd ==
  ASSUME AddInv, TagFile, NEW o \in Objects
  PROVE  /\ Linked(o) \subseteq Linked(o)'
         /\ Linked(o)' \ Linked(o) \subseteq Matching[o] \ (Ignored \ SingleLetter)
         /\ studio[o] # None => studio'[o] = studio[o]
         /\ studio'[o] # studio[o] => studio'[o] \in Matching[o]
<1> DEFINE row == Head(batch)
           new == UNION {Wanted(row.id, k) : k \in {l \in LinkKinds : input[l]}}
<1>1. CASE UNCHANGED <<links, studio>>
  BY <1>1 DEF Linked
<1>2. CASE ~(UNCHANGED <<links, studio>>)
  <2>1. /\ links' = [links EXCEPT ![row.id] = AppendUnique(@, new)]
        /\ studio' = IF SetsStudio(row) THEN [studio EXCEPT ![row.id] = PathToStudio(row.id)] ELSE studio
    BY <1>2 DEF TagFile
  <2>2. DOMAIN links = Objects /\ DOMAIN studio = Objects /\ CacheFits
    BY DEF AddInv, LibraryFits
  <2>3. CASE row.id # o
    BY <2>1, <2>2, <2>3 DEF Linked
  <2>4. CASE row.id = o
    <3>1. links'[o] = AppendUnique(links[o], new)
      BY <2>1, <2>2, <2>4
    <3>2. ASSUME NEW x \in new
          PROVE  x \in Matching[o] /\ (x \in Ignored => x \in SingleLetter)
      <4>1. PICK k \in LinkKinds : x \in Wanted(o, k)
        BY <2>4
      <4> QED
        BY <2>2, <4>1, WantedAreCalledFor DEF LinkKinds, Caches
    <3> HIDE DEF new
    <3>3. Linked(o) \subseteq Linked(o)' /\ Linked(o)' \ Linked(o) \subseteq new
      BY <3>1 DEF Linked, AppendUnique
    <3>4. /\ studio[o] # None => studio'[o] = studio[o]
          /\ studio'[o] # studio[o] => PathToStudio(o) # None /\ studio'[o] = PathToStudio(o)
      BY <2>1, <2>2, <2>4 DEF SetsStudio, AsksForStudio
    <3> QED
      BY <3>2, <3>3, <3>4, StudioIsCalledFor
  <2> QED
    BY <2>3, <2>4
<1> QED
  BY <1>1, <1>2

LEMMA SubjectsOnlyAdd ==
  ASSUME AddInv, TagSubject, NEW o \in Objects
  PROVE  /\ Linked(o) \subseteq Linked(o)'
         /\ Linked(o)' \ Linked(o) \subseteq Matching[o] \ (Ignored \ AskedIds)
         /\ studio[o] # None => studio'[o] = studio[o]
         /\ studio'[o] # studio[o] => studio'[o] \in Matching[o]
<1> DEFINE x == Head(batch)
<1>1. CASE UNCHANGED <<links, studio>>
  BY <1>1 DEF Linked
<1>2. CASE ~(UNCHANGED <<links, studio>>)
  <2>1. /\ links'[o] = IF o \in Receivers(x) /\ x \in Attachable THEN AppendUnique(links[o], {x}) ELSE links[o]
        /\ studio'[o] = IF o \in Receivers(x) /\ x \in Studios THEN x ELSE studio[o]
    BY <1>2 DEF TagSubject
  <2>2. x \in Ignored => x \in AskedIds
    <3>1. batch \in Seq(Subjects) /\ batch # <<>> /\ \A j \in DOMAIN batch : batch[j] \in Ignored => batch[j] \in AskedIds
      BY DEF AddInv, EntriesFit, TagSubject
    <3>2. 1 \in DOMAIN batch /\ batch[1] = x
      BY <3>1, RestOfBatch
    <3> QED
      BY <3>1, <3>2
  <2>3. o \in Receivers(x) => x \in Matching[o] /\ (x \in Studios => studio[o] = None)
    BY DEF Receivers, Takes, ObjectsFor
  <2>4. Linked(o) \subseteq Linked(o)' /\ \A y \in Linked(o)' \ Linked(o) : y = x /\ o \in Receivers(x)
    BY <2>1 DEF Linked, AppendUnique
  <2> HIDE DEF x
  <2> QED
    BY <2>1, <2>2, <2>3, <2>4
<1> QED
  BY <1>1, <1>2

\* The names that a source gives are added to a list, unless they are to replace it.
LEMMA IdentifyOnlyAdds ==
  ASSUME AddInv, ModifyScene, NEW o \in Objects
  PROVE  /\ input.performers.strategy # "OVERWRITE" => Keeps(Performers, o)
         /\ input.tags.strategy # "OVERWRITE" => Keeps(Tags, o)
<1> DEFINE row == Head(batch)
           list == [x \in Attachable |->
                     IF x \in Performers THEN NewList(row.id, Performers, input.performers)[x]
                     ELSE NewList(row.id, Tags, input.tags)[x]]
<1>1. CASE links' = links
  BY <1>1 DEF Keeps, Linked
<1>2. CASE links' # links
  <2>1. links' = [links EXCEPT ![row.id] = list]
    BY <1>2 DEF ModifyScene
  <2>2. DOMAIN links = Objects
    BY DEF AddInv, LibraryFits
  <2>3. CASE row.id # o
    BY <2>1, <2>2, <2>3 DEF Keeps, Linked
  <2>4. CASE row.id = o
    <3>1. links'[o] = list
      BY <2>1, <2>2, <2>4
    <3>2. input.performers.strategy \in Strategies /\ input.tags.strategy \in Strategies
      BY IdentifyAssumption DEF AddInv, LibraryFits, ModifyScene, Identifies
    <3>3. ASSUME NEW kind, NEW opt, opt.strategy \in Strategies, opt.strategy # "OVERWRITE",
                 NEW x \in Attachable, links[o][x] > 0
          PROVE  NewList(o, kind, opt)[x] > 0
      BY <3>3 DEF NewList, AppendUnique, Strategies, ShouldSet
    <3>4. Performers \cap Tags = {} /\ Attachable = Performers \cup Tags
      BY LibraryAssumption DEF Attachable
    <3>5. \A x \in Performers : links'[o][x] = NewList(o, Performers, input.performers)[x]
      BY <2>4, <3>1, <3>4
    <3>6. \A x \in Tags : links'[o][x] = NewList(o, Tags, input.tags)[x]
      BY <2>4, <3>1, <3>4
    <3> QED
      BY <3>2, <3>3, <3>4, <3>5, <3>6 DEF Keeps, Linked
  <2> QED
    BY <2>3, <2>4
<1> QED
  BY <1>1, <1>2

(***************************************************************************)
(* A job takes nothing away, whatever users do between its reads and its   *)
(* transactions, for any library, input and answers of the sources.        *)
(***************************************************************************)
THEOREM JobsTakeNothingAway == Spec => JobsOnlyAdd
<1> DEFINE Added(o) ==
         /\ ~Identifies =>
              /\ Linked(o) \subseteq Linked(o)'
              /\ Linked(o)' \ Linked(o) \subseteq
                   Matching[o] \ (Ignored \ (SingleLetter \cup {e.id : e \in Range(input.ids)}))
              /\ studio[o] # None => studio'[o] = studio[o]
              /\ studio'[o] # studio[o] => studio'[o] \in Matching[o]
         /\ Identifies =>
              /\ input.performers.strategy # "OVERWRITE" => Keeps(Performers, o)
              /\ input.tags.strategy # "OVERWRITE" => Keeps(Tags, o)
<1>1. ASSUME AddInv, [Next]_vars, edits' = edits, NEW o \in Objects
      PROVE  Added(o)
  <2>1. ~UserStep
    BY <1>1, UsersKeepAddInv
  <2>2. CASE UNCHANGED <<links, studio>>
    BY <2>2 DEF Linked, Keeps
  <2>3. CASE ~(UNCHANGED <<links, studio>>)
    <3>1. TagFile \/ TagSubject \/ ModifyScene
      BY <1>1, <2>1, <2>3 DEF Next, JobStep, Batch, AutoTagStep, TagFilePanics, AskFor, NextEntry,
           IdentifyStep, FindScene, Scrape, NextScene, vars, libVars
    <3>2. CASE TagFile
      <4>1. ~Identifies
        BY <3>2 DEF TagFile, HasFile, Identifies
      <4> QED
        BY <1>1, <3>2, <4>1, FilesOnlyAdd
    <3>3. CASE TagSubject
      <4>1. ~Identifies
        BY <3>3 DEF TagSubject, Identifies
      <4> QED
        BY <1>1, <3>3, <4>1, SubjectsOnlyAdd DEF AskedIds
    <3>4. CASE ModifyScene
      <4>1. Identifies
        BY <3>4 DEF ModifyScene
      <4> QED
        BY <1>1, <3>4, <4>1, IdentifyOnlyAdds
    <3> QED
      BY <3>1, <3>2, <3>3, <3>4
  <2> QED
    BY <2>2, <2>3
<1>2. AddInv /\ [Next]_vars => [edits' = edits => \A o \in Objects : Added(o)]_vars
  BY <1>1
<1> QED
  BY <1>2, AddInvHolds, PTL DEF Spec, JobsOnlyAdd

-----------------------------------------------------------------------------
(* What a query gives.                                                     *)

LEMMA ListedIsFinite ==
  ASSUME NEW kind
  PROVE  IsFiniteSet(Listed(kind)) /\ Listed(kind) \subseteq Nat /\ Listed(kind) \subseteq DOMAIN IdOrder
<1>1. IdOrder \in Seq(Objects)
  BY BatchAssumption
<1>2. Listed(kind) \in SUBSET (1..Len(IdOrder)) /\ Len(IdOrder) \in Nat
  BY <1>1 DEF Listed
<1>3. IsFiniteSet(1..Len(IdOrder))
  BY <1>2, FS_Interval
<1>4. IsFiniteSet(Listed(kind))
  BY <1>2, <1>3, FS_Subset
<1> QED
  BY <1>1, <1>2, <1>4

\* Every row has a number of its own.
LEMMA RowsAreNumbered ==
  ASSUME NEW kind
  PROVE  LET r == [j \in Listed(kind) |-> Cardinality(UpTo(kind, j))]
             N == Cardinality(Listed(kind))
         IN  N \in Nat /\ r \in Injection(Listed(kind), 1..N) /\ r \in Surjection(Listed(kind), 1..N)
<1> DEFINE L == Listed(kind)
           N == Cardinality(L)
           r == [j \in L |-> Cardinality(UpTo(kind, j))]
<1>1. IsFiniteSet(L) /\ L \subseteq Nat /\ N \in Nat
  BY ListedIsFinite, FS_CardinalityType
<1>2. ASSUME NEW j \in L
      PROVE  /\ UpTo(kind, j) \in SUBSET L /\ j \in UpTo(kind, j)
             /\ IsFiniteSet(UpTo(kind, j)) /\ Cardinality(UpTo(kind, j)) \in 1..N
  <2>1. UpTo(kind, j) \in SUBSET L /\ j \in UpTo(kind, j)
    BY <1>1 DEF UpTo
  <2>2. IsFiniteSet(UpTo(kind, j)) /\ Cardinality(UpTo(kind, j)) <= N
    BY <1>1, <2>1, FS_Subset
  <2>3. Cardinality(UpTo(kind, j)) \in Nat /\ Cardinality(UpTo(kind, j)) # 0
    BY <2>1, <2>2, FS_CardinalityType, FS_EmptySet
  <2> QED
    BY <1>1, <2>1, <2>2, <2>3
<1>3. ASSUME NEW j \in L, NEW l \in L, j < l
      PROVE  r[j] # r[l]
  <2>1. UpTo(kind, j) \in SUBSET UpTo(kind, l) /\ l \notin UpTo(kind, j)
    BY <1>1, <1>3 DEF UpTo
  <2>2. Cardinality(UpTo(kind, l)) # Cardinality(UpTo(kind, j))
    BY <1>2, <2>1, FS_Subset
  <2> QED
    BY <2>2
<1>4. ASSUME NEW j \in L, NEW l \in L, r[j] = r[l]
      PROVE  j = l
  <2>1. j \in Nat /\ l \in Nat
    BY <1>1
  <2>2. ~(j < l) /\ ~(l < j)
    BY <1>3, <1>4
  <2> QED
    BY <2>1, <2>2
<1>5. r \in [L -> 1..N]
  BY <1>2
<1>6. r \in Injection(L, 1..N)
  BY <1>4, <1>5 DEF Injection, IsInjective
<1>7. IsFiniteSet(1..N) /\ Cardinality(1..N) = N
  BY <1>1, FS_Interval
<1>8. r \in Surjection(L, 1..N)
  BY <1>6, <1>7, FS_Injection
<1> QED
  BY <1>1, <1>6, <1>8

LEMMA QueryGivesAll ==
  ASSUME NEW kind
  PROVE  /\ InQuery(kind) \in Seq(Objects \cap kind \cap there)
         /\ \A o \in Objects \cap kind \cap there :
              ~organized[o] => \E q \in DOMAIN InQuery(kind) : InQuery(kind)[q] = o
<1> DEFINE L == Listed(kind)
           N == Cardinality(L)
           r == [j \in L |-> Cardinality(UpTo(kind, j))]
           At(q) == CHOOSE j \in L : Cardinality(UpTo(kind, j)) = q
<1>1. N \in Nat /\ r \in Injection(L, 1..N) /\ r \in Surjection(L, 1..N)
  BY RowsAreNumbered
<1>2. IdOrder \in Seq(Objects) /\ Objects = {IdOrder[j] : j \in DOMAIN IdOrder}
  BY BatchAssumption
<1>3. InQuery(kind) = [q \in 1..N |-> IdOrder[At(q)]]
  BY DEF InQuery
<1>4. ASSUME NEW q \in 1..N
      PROVE  At(q) \in L /\ Cardinality(UpTo(kind, At(q))) = q
  <2>1. \E j \in L : r[j] = q
    BY <1>1 DEF Surjection
  <2>2. \E j \in L : Cardinality(UpTo(kind, j)) = q
    BY <2>1
  <2> QED
    BY <2>2
<1>5. ASSUME NEW q \in 1..N
      PROVE  IdOrder[At(q)] \in Objects \cap kind \cap there
  <2>1. At(q) \in L
    BY <1>4
  <2> HIDE DEF At
  <2> QED
    BY <1>2, <2>1 DEF Listed
<1>6. ASSUME NEW o \in Objects \cap kind \cap there, ~organized[o]
      PROVE  \E q \in 1..N : IdOrder[At(q)] = o
  <2>1. PICK j \in DOMAIN IdOrder : IdOrder[j] = o
    BY <1>2
  <2>2. j \in L
    BY <1>6, <2>1 DEF Listed
  <2>3. r[j] \in 1..N /\ r[j] = Cardinality(UpTo(kind, j))
    BY <1>1, <2>2 DEF Injection
  <2>4. At(r[j]) \in L /\ r[At(r[j])] = r[j]
    BY <1>4, <2>3
  <2>5. At(r[j]) = j
    BY <1>1, <2>2, <2>4 DEF Injection, IsInjective
  <2> QED
    BY <2>1, <2>3, <2>5
<1>7. DOMAIN InQuery(kind) = 1..N /\ \A q \in 1..N : InQuery(kind)[q] = IdOrder[At(q)]
  BY <1>3
<1> HIDE DEF N, At
<1>8. InQuery(kind) \in Seq(Objects \cap kind \cap there)
  BY <1>1, <1>3, <1>5
<1>9. ASSUME NEW o \in Objects \cap kind \cap there, ~organized[o]
      PROVE  \E q \in DOMAIN InQuery(kind) : InQuery(kind)[q] = o
  BY <1>6, <1>7, <1>9
<1> QED
  BY <1>8, <1>9

\* The rows of a page are those that follow the rows of the pages before.
LEMMA PageFollows ==
  ASSUME NEW S, NEW list \in Seq(S), NEW n \in Nat \ {0}
  PROVE  /\ PageOf(list, n) \in Seq(S)
         /\ \A q \in DOMAIN PageOf(list, n) : \E l \in DOMAIN list : PageOf(list, n)[q] = list[l]
         /\ \A l \in DOMAIN list :
              \/ l <= (n - 1) * BatchSize
              \/ \E q \in DOMAIN PageOf(list, n) : PageOf(list, n)[q] = list[l]
              \/ l > n * BatchSize
         /\ n * BatchSize < Len(list) => Len(PageOf(list, n)) = BatchSize
<1> DEFINE B == BatchSize
           len == Len(list)
           first == (n - 1) * B
           after == n * B
           last == Min({after, len})
           P == PageOf(list, n)
<1>1. B \in Nat /\ B # 0 /\ len \in Nat /\ DOMAIN list = 1..len
  BY BatchAssumption
<1>2. first \in Nat /\ after \in Nat /\ after = first + B
  BY <1>1
<1>3. P = SubSeq(list, first + 1, last)
  BY DEF PageOf
<1>4. \A j \in 1..len : list[j] \in S
  OBVIOUS
<1> HIDE DEF B, len, first, after
<1>5. last = IF after <= len THEN after ELSE len
  BY <1>1, <1>2, LesserOfTwo
<1> HIDE DEF last, P
<1>6. /\ last \in Nat /\ last <= len /\ last <= first + B
      /\ last = len \/ last = first + B
      /\ after < len => last = first + B
  BY <1>1, <1>2, <1>5
<1>7. /\ P \in Seq(S)
      /\ Len(P) = IF first + 1 <= last THEN last - (first + 1) + 1 ELSE 0
      /\ \A j \in 1..(last - (first + 1) + 1) : P[j] = list[(first + 1) + j - 1]
  <2>1. \A j \in (first + 1)..last : list[j] \in S
    BY <1>1, <1>2, <1>4, <1>6
  <2> QED
    BY <1>2, <1>3, <1>6, <2>1, SubSeqProperties
<1>8. ASSUME NEW q \in DOMAIN P
      PROVE  \E l \in DOMAIN list : P[q] = list[l]
  <2>1. q \in 1..(last - first) /\ P[q] = list[first + q]
    BY <1>2, <1>6, <1>7, <1>8
  <2>2. first + q \in DOMAIN list
    BY <1>1, <1>2, <1>6, <2>1
  <2> QED
    BY <2>1, <2>2
<1>9. ASSUME NEW l \in DOMAIN list, ~(l <= first), ~(l > after)
      PROVE  \E q \in DOMAIN P : P[q] = list[l]
  <2>1. l \in Nat /\ l <= len /\ l > first /\ l <= first + B
    BY <1>1, <1>2, <1>9
  <2>2. l - first \in 1..(last - first)
    BY <1>1, <1>2, <1>6, <2>1
  <2>3. l - first \in DOMAIN P /\ P[l - first] = list[l]
    BY <1>2, <1>6, <1>7, <2>1, <2>2
  <2> QED
    BY <2>3
<1>10. after < len => Len(P) = B
  BY <1>1, <1>2, <1>6, <1>7
<1>11. \A l \in DOMAIN list : l <= first \/ (\E q \in DOMAIN P : P[q] = list[l]) \/ l > after
  BY <1>9
<1> QED
  BY <1>7, <1>8, <1>10, <1>11 DEF P, first, after, len, B

-----------------------------------------------------------------------------
(* While no row is taken away.                                             *)

\* An identify job that marks scenes as organized takes them from its own query.
Marks == Identifies /\ input.setOrganized
Steady == ~left /\ ~Marks

LibraryStays ==
  Steady =>
    /\ Subjects \ Newcomers \subseteq there
    /\ \A o \in Objects : organized[o] = FALSE
    /\ \A k \in Caches : cache[k] # None => cache[k] \subseteq there
    /\ studio \in [Objects -> Studios \cup {None}]
    /\ ~Identifies => links \in [Objects -> [Attachable -> Nat]]

LEMMA StaysInitially == Init => LibraryStays
<1> SUFFICES ASSUME Init PROVE LibraryStays
  OBVIOUS
<1> USE DEF Init, LibraryInit, JobInit
<1>1. PICK b \in Beginnings : there = b.there /\ studio = b.studio
         /\ links = [o \in Objects |-> [x \in Attachable |-> IF x \in b.links[o] THEN 1 ELSE 0]]
  OBVIOUS
<1>2. Subjects \ Newcomers \subseteq there /\ studio \in [Objects -> Studios \cup {None}]
  BY <1>1, NewcomersAssumption, LibraryAssumption
<1>3. links \in [Objects -> [Attachable -> Nat]]
  BY <1>1
<1>4. \A k \in Caches : cache[k] = None
  BY DEF Caches
<1>5. \A o \in Objects : organized[o] = FALSE
  OBVIOUS
<1> QED
  BY <1>2, <1>3, <1>4, <1>5 DEF LibraryStays

LEMMA SteadyBefore ==
  ASSUME UserStep, Steady'
  PROVE  Steady /\ ~left' /\ UNCHANGED jobVars
<1>1. UNCHANGED jobVars /\ ~left'
  BY DEF UserStep, Steady
<1>2. ~left
  BY <1>1 DEF UserStep, UserEdits, UpdateOrganized, UpdateStudio, BulkUpdate, ObjectDestroy,
         SubjectDestroy, SubjectCreate, TagsMerge, Edited
<1>3. Marks' = Marks
  BY <1>1 DEF Marks, Identifies, jobVars
<1> QED
  BY <1>1, <1>2, <1>3 DEF Steady

\* What users did if no row was taken away.
LEMMA UsersLeaveTheRest ==
  ASSUME LibraryStays, UserStep, Steady'
  PROVE  /\ there \subseteq there' /\ there' \cap Objects = there \cap Objects
         /\ organized' = organized /\ touched \subseteq touched'
         /\ \A o \in Objects \ touched' : links'[o] = links[o] /\ studio'[o] = studio[o]
         /\ studio' \in [Objects -> Studios \cup {None}]
         /\ ~Identifies => links' \in [Objects -> [Attachable -> Nat]]
<1>1. Steady /\ ~left'
  BY SteadyBefore
<1>2. /\ \A o \in Objects : organized[o] = FALSE
      /\ studio \in [Objects -> Studios \cup {None}]
      /\ ~Identifies => links \in [Objects -> [Attachable -> Nat]]
  BY <1>1 DEF LibraryStays
<1>3. ASSUME NEW o \in Objects, UpdateOrganized(o)
      PROVE  FALSE
  BY <1>1, <1>2, <1>3 DEF UpdateOrganized, Edited
<1>4. ASSUME NEW o \in Objects, ObjectDestroy(o)
      PROVE  FALSE
  BY <1>1, <1>4 DEF ObjectDestroy, Edited
<1>5. ASSUME NEW x \in Subjects, SubjectDestroy(x)
      PROVE  FALSE
  BY <1>1, <1>5 DEF SubjectDestroy, Edited
<1>6. ASSUME NEW S, NEW d, TagsMerge(S, d)
      PROVE  FALSE
  BY <1>1, <1>6 DEF TagsMerge, Edited
<1>7. ASSUME NEW o \in Objects, NEW s \in Studios \cup {None}, UpdateStudio(o, s)
      PROVE  /\ UNCHANGED <<there, links, organized>> /\ touched \subseteq touched'
             /\ \A p \in Objects \ touched' : links'[p] = links[p] /\ studio'[p] = studio[p]
             /\ studio' \in [Objects -> Studios \cup {None}]
  BY <1>2, <1>7 DEF UpdateStudio, Edited
<1>8. ASSUME NEW O, NEW mode \in Modes, NEW list, NEW S, BulkUpdate(O, mode, list, S)
      PROVE  /\ UNCHANGED <<there, studio, organized>> /\ touched \subseteq touched'
             /\ \A p \in Objects \ touched' : links'[p] = links[p] /\ studio'[p] = studio[p]
             /\ ~Identifies => links' \in [Objects -> [Attachable -> Nat]]
  <2>1. /\ UNCHANGED <<there, studio, organized>> /\ touched' = touched \cup O
        /\ links' = [o \in Objects |-> IF o \in O THEN AdjustIDs(links[o], mode, list, S) ELSE links[o]]
    BY <1>8 DEF BulkUpdate, Edited
  <2>2. ASSUME NEW row \in [Attachable -> Nat]
        PROVE  AdjustIDs(row, mode, list, S) \in [Attachable -> Nat]
    BY DEF AdjustIDs, Replaced, AppendUnique, Modes
  <2> QED
    BY <1>2, <2>1, <2>2
<1>9. ASSUME NEW x \in Subjects, SubjectCreate(x)
      PROVE  /\ UNCHANGED <<links, studio, organized, touched>> /\ there' = there \cup {x}
  BY <1>9 DEF SubjectCreate, Edited
<1>10. \/ \E o \in Objects, s \in Studios \cup {None} : UpdateStudio(o, s)
       \/ \E mode \in Modes : \E O, list, S : BulkUpdate(O, mode, list, S)
       \/ \E x \in Subjects : SubjectCreate(x)
  BY <1>3, <1>4, <1>5, <1>6 DEF UserStep, UserEdits
<1>11. Objects \cap Subjects = {}
  BY LibraryAssumption
<1> QED
  BY <1>2, <1>7, <1>8, <1>9, <1>10, <1>11

\* What a job created: subjects, never an object.
LEMMA SubjectsAreCreated ==
  ASSUME NEW row
  PROVE  Created(row) \subseteq Subjects
<1>1. ASSUME NEW kind, NEW create
      PROVE  NewRows(kind, create) \subseteq kind
  BY DEF NewRows, NewRow
<1>2. NewStudio(row) \ found.stored \subseteq Studios
  BY <1>1 DEF NewStudio
<1> QED
  BY <1>1, <1>2 DEF Created, Subjects

LEMMA JobsLeaveTheRest ==
  ASSUME JobStep, Steady
  PROVE  /\ Steady' /\ touched' = touched /\ input' = input
         /\ there \subseteq there' /\ there' \cap Objects = there \cap Objects
         /\ organized' = organized
<1>1. input' = input /\ UNCHANGED histVars
  BY DEF JobStep, Batch, Query, Resolve, NextPage, CancelJob, AutoTagStep, TagFilePanics,
         TagFile, AskFor, TagSubject, NextEntry, IdentifyStep, FindScene, Scrape, ModifyScene, NextScene
<1>2. Steady' /\ touched' = touched
  BY <1>1 DEF Steady, Marks, Identifies, histVars
<1>3. CASE ModifyScene
  <2>1. there' = there \/ there' = there \cup Created(Head(batch))
    BY <1>3 DEF ModifyScene
  <2>2. input.setOrganized = FALSE \/ ~input.setOrganized
    BY <1>3 DEF ModifyScene, Steady, Marks
  <2>3. organized' = organized
    BY <1>3, <2>2 DEF ModifyScene
  <2> QED
    BY <1>1, <1>2, <2>1, <2>3, SubjectsAreCreated, LibraryAssumption
<1>4. CASE ~ModifyScene
  <2>1. there' = there /\ organized' = organized
    BY <1>4 DEF JobStep, Batch, Query, Resolve, NextPage, CancelJob, AutoTagStep, TagFilePanics,
         TagFile, AskFor, TagSubject, NextEntry, IdentifyStep, FindScene, Scrape, NextScene, libVars
  <2> QED
    BY <1>1, <1>2, <2>1
<1> QED
  BY <1>3, <1>4

LEMMA AppendedIsARow ==
  ASSUME NEW row \in [Attachable -> Nat], NEW S
  PROVE  AppendUnique(row, S) \in [Attachable -> Nat]
BY DEF AppendUnique

LEMMA JobsKeepRowsTyped ==
  ASSUME JobStep, AddInv, LibraryStays, Steady
  PROVE  /\ studio' \in [Objects -> Studios \cup {None}]
         /\ ~Identifies => links' \in [Objects -> [Attachable -> Nat]]
<1>1. /\ studio \in [Objects -> Studios \cup {None}]
      /\ ~Identifies => links \in [Objects -> [Attachable -> Nat]]
  BY DEF LibraryStays
<1>2. CASE TagFile
  <2> DEFINE row == Head(batch)
             new == UNION {Wanted(row.id, k) : k \in {l \in LinkKinds : input[l]}}
  <2>1. /\ links' = links \/ links' = [links EXCEPT ![row.id] = AppendUnique(@, new)]
        /\ studio' = studio \/ (SetsStudio(row) /\ studio' = [studio EXCEPT ![row.id] = PathToStudio(row.id)])
    BY <1>2 DEF TagFile
  <2>2. row.id \in Objects /\ SetsStudio(row) => PathToStudio(row.id) \in Studios
    BY StudioIsCalledFor DEF SetsStudio, AsksForStudio
  <2> HIDE DEF row, new
  <2>3. studio' \in [Objects -> Studios \cup {None}]
    BY <1>1, <2>1, <2>2
  <2>4. ~Identifies => links' \in [Objects -> [Attachable -> Nat]]
    BY <1>1, <2>1, AppendedIsARow
  <2> QED
    BY <2>3, <2>4
<1>3. CASE TagSubject
  <2> DEFINE x == Head(batch)
  <2>1. \/ UNCHANGED <<links, studio>>
        \/ /\ links' = [o \in Objects |->
                IF o \in Receivers(x) /\ x \in Attachable THEN AppendUnique(links[o], {x}) ELSE links[o]]
           /\ studio' = [o \in Objects |-> IF o \in Receivers(x) /\ x \in Studios THEN x ELSE studio[o]]
    BY <1>3 DEF TagSubject
  <2> HIDE DEF x
  <2> QED
    BY <1>1, <2>1, AppendedIsARow
<1>4. CASE ModifyScene
  <2>1. Identifies
    BY <1>4 DEF ModifyScene
  <2>2. NewStudio(Head(batch)) \subseteq Studios
    BY DEF NewStudio, NewRows, NewRow
  <2>3. \/ studio' = studio
        \/ /\ NewStudio(Head(batch)) # {}
           /\ studio' = [studio EXCEPT ![Head(batch).id] = CHOOSE s \in NewStudio(Head(batch)) : TRUE]
    BY <1>4 DEF ModifyScene
  <2>4. NewStudio(Head(batch)) # {} => (CHOOSE s \in NewStudio(Head(batch)) : TRUE) \in Studios
    BY <2>2
  <2> QED
    BY <1>1, <2>1, <2>3, <2>4
<1>5. CASE ~TagFile /\ ~TagSubject /\ ~ModifyScene
  <2>1. links' = links /\ studio' = studio
    BY <1>5 DEF JobStep, Batch, Query, Resolve, NextPage, CancelJob, AutoTagStep, TagFilePanics,
         AskFor, NextEntry, IdentifyStep, FindScene, Scrape, NextScene, libVars
  <2> QED
    BY <1>1, <2>1
<1> QED
  BY <1>2, <1>3, <1>4, <1>5

LEMMA LibraryStaysHolds ==
  ASSUME AddInv, LibraryStays, [Next]_vars
  PROVE  LibraryStays'
<1>1. CASE UNCHANGED vars
  BY <1>1 DEF LibraryStays, Steady, Marks, Identifies, vars, libVars, histVars, jobVars
<1>2. CASE UserStep
  <2> SUFFICES ASSUME Steady' PROVE LibraryStays'
    BY DEF LibraryStays
  <2>1. Steady /\ UNCHANGED jobVars
    BY <1>2, SteadyBefore
  <2>2. cache' = cache /\ Identifies' = Identifies
    BY <2>1 DEF jobVars, Identifies
  <2> QED
    BY <1>2, <2>1, <2>2, UsersLeaveTheRest DEF LibraryStays
<1>3. CASE JobStep
  <2> SUFFICES ASSUME Steady' PROVE LibraryStays'
    BY DEF LibraryStays
  <2>1. Steady
    <3>1. input' = input /\ UNCHANGED histVars
      BY <1>3 DEF JobStep, Batch, Query, Resolve, NextPage, CancelJob, AutoTagStep, TagFilePanics,
         TagFile, AskFor, TagSubject, NextEntry, IdentifyStep, FindScene, Scrape, ModifyScene, NextScene
    <3> QED
      BY <3>1 DEF Steady, Marks, Identifies, histVars
  <2>2. there \subseteq there' /\ organized' = organized /\ Identifies' = Identifies
    BY <1>3, <2>1, JobsLeaveTheRest DEF Identifies
  <2>3. ASSUME NEW k \in Caches, cache'[k] # None
        PROVE  cache'[k] \subseteq there'
    <3>1. cache'[k] = cache[k] \/ cache'[k] = CachedOf(k)
      BY <1>3 DEF JobStep, Batch, Query, Resolve, NextPage, CancelJob, AutoTagStep, TagFilePanics,
         TagFile, FillCache, AskFor, TagSubject, NextEntry, IdentifyStep, FindScene, Scrape, ModifyScene,
         NextScene, AddInv, CacheFits
    <3>2. cache[k] # None => cache[k] \subseteq there
      BY <2>1 DEF LibraryStays
    <3>3. CachedOf(k) # None => CachedOf(k) \subseteq there
      BY <3>2 DEF CachedOf
    <3> QED
      BY <2>2, <2>3, <3>1, <3>2, <3>3
  <2> QED
    BY <1>3, <2>1, <2>2, <2>3, JobsKeepRowsTyped DEF LibraryStays
<1> QED
  BY <1>1, <1>2, <1>3 DEF Next

-----------------------------------------------------------------------------
(* Page by page.                                                           *)

Pages == input.kind \in {"files", "identify"}
Kinds == {Scenes, Images, Galleries}
ReadKinds == IF input.kind = "files" THEN Kinds ELSE {Scenes}
Rows == [id : Objects, found : BOOLEAN, studio : Studios \cup {None}, organized : BOOLEAN]
Current == InQuery(Head(kinds))

PagesFit ==
  /\ kinds \in Seq(Kinds) /\ page \in Nat \ {0}
  /\ pc \in {"query", "resolve", "each", "modify"} \cup Ended
  /\ pc \notin Ended => kinds # <<>>
  /\ pc \in {"resolve", "each", "modify"} => ids = PageOf(Current, page)

\* Rows are those of objects that are there, and tell what is still so of what users left alone.
RowsFit ==
  /\ batch \in Seq(Rows)
  /\ \A j \in DOMAIN batch :
       /\ batch[j].id \in there /\ batch[j].found = TRUE
       /\ input.kind = "files" /\ batch[j].studio # None /\ batch[j].id \notin touched =>
            studio[batch[j].id] # None
  /\ pc = "modify" => batch # <<>> /\ Head(batch).id \in visited

\* Nothing lies between what was visited and what is still to come.
NoGap ==
  /\ \A K \in ReadKinds : K \cap there \subseteq visited \/ \E q \in DOMAIN kinds : kinds[q] = K
  /\ pc \notin Ended =>
       \A q \in DOMAIN Current : q <= (page - 1) * BatchSize => Current[q] \in visited
  /\ pc \in {"each", "modify"} =>
       \A q \in DOMAIN ids : ids[q] \in visited \/ \E j \in DOMAIN batch : batch[j].id = ids[q]
  /\ pc = "done" /\ ~cancelled => kinds = <<>>

PageInv == Pages /\ Steady => PagesFit /\ RowsFit /\ NoGap

LEMMA QueryStays ==
  ASSUME there' \cap Objects = there \cap Objects, organized' = organized, kinds' = kinds
  PROVE  Current' = Current
<1>1. IdOrder \in Seq(Objects)
  BY BatchAssumption
<1>2. Listed(Head(kinds))' = Listed(Head(kinds))
  BY <1>1 DEF Listed
<1> DEFINE R(L) == [n \in 1..Cardinality(L) |->
                     IdOrder[CHOOSE j \in L : Cardinality({l \in L : l <= j}) = n]]
<1>3. Current = R(Listed(Head(kinds)))
  BY DEF Current, InQuery, UpTo
<1>4. Current' = R(Listed(Head(kinds))')
  BY DEF Current, InQuery, UpTo
<1>5. ASSUME NEW L, NEW M, L = M
      PROVE  R(L) = R(M)
  BY <1>5
<1> HIDE DEF R
<1> QED
  BY <1>2, <1>3, <1>4, <1>5

LEMMA QueryIsNumbered ==
  /\ Current \in Seq(Objects \cap Head(kinds) \cap there)
  /\ \A q \in DOMAIN Current : q \in Nat /\ q > 0 /\ q <= Len(Current)
<1>1. Current \in Seq(Objects \cap Head(kinds) \cap there)
  BY QueryGivesAll DEF Current
<1> QED
  BY <1>1

LEMMA WaitingAreRows ==
  ASSUME RowsFit, NEW j \in DOMAIN batch
  PROVE  batch[j] \in Rows /\ batch[j].id \in Objects
<1>1. batch[j] \in Rows
  BY DEF RowsFit
<1> QED
  BY <1>1 DEF Rows

LEMMA KindsAreObjects ==
  ASSUME NEW K \in ReadKinds
  PROVE  K \subseteq Objects
BY DEF ReadKinds, Kinds, Objects

LEMMA PagesInitially == Init => PageInv
<1> SUFFICES ASSUME Init, Pages PROVE PagesFit /\ RowsFit /\ NoGap
  BY DEF PageInv
<1> USE DEF Init, LibraryInit, JobInit
<1>1. /\ pc = "query" /\ page = 1 /\ batch = <<>>
      /\ input.kind = "files" => kinds = <<Scenes, Images, Galleries>>
      /\ input.kind = "identify" => kinds = <<Scenes>>
      /\ input.kind \in {"files", "identify"}
  BY DEF Pages
<1>2. kinds \in Seq(Kinds) /\ kinds # <<>>
  <2>1. Scenes \in Kinds /\ Images \in Kinds /\ Galleries \in Kinds
    BY DEF Kinds
  <2>2. <<Scenes, Images, Galleries>> \in Seq(Kinds) /\ <<Scenes>> \in Seq(Kinds)
    BY <2>1
  <2> QED
    BY <1>1, <2>2
<1>3. PagesFit
  BY <1>1, <1>2 DEF PagesFit, Ended
<1>4. RowsFit
  BY <1>1 DEF RowsFit
<1>5. ASSUME NEW K \in ReadKinds
      PROVE  \E q \in DOMAIN kinds : kinds[q] = K
  <2>1. CASE input.kind = "files"
    <3>1. 1 \in DOMAIN kinds /\ 2 \in DOMAIN kinds /\ 3 \in DOMAIN kinds
          /\ kinds[1] = Scenes /\ kinds[2] = Images /\ kinds[3] = Galleries
      BY <1>1, <2>1
    <3> QED
      BY <2>1, <3>1 DEF ReadKinds, Kinds
  <2>2. CASE input.kind = "identify"
    <3>1. 1 \in DOMAIN kinds /\ kinds[1] = Scenes
      BY <1>1, <2>2
    <3> QED
      BY <2>2, <3>1 DEF ReadKinds
  <2> QED
    BY <1>1, <2>1, <2>2
<1>6. \A q \in DOMAIN Current : ~(q <= (page - 1) * BatchSize)
  <2>1. (page - 1) * BatchSize = 0
    BY <1>1, BatchAssumption
  <2> QED
    BY <2>1, QueryIsNumbered
<1>7. NoGap
  BY <1>1, <1>5, <1>6 DEF NoGap
<1> QED
  BY <1>3, <1>4, <1>7

LEMMA UsersKeepPages ==
  ASSUME LibraryStays, PageInv, UserStep
  PROVE  PageInv'
<1> SUFFICES ASSUME Pages', Steady' PROVE (PagesFit /\ RowsFit /\ NoGap)'
  BY DEF PageInv
<1>1. Steady /\ UNCHANGED jobVars
  BY SteadyBefore
<1>2. UNCHANGED <<input, pc, kinds, page, ids, batch, cancelled, visited>>
  BY <1>1 DEF jobVars
<1>3. PagesFit /\ RowsFit /\ NoGap
  BY <1>1, <1>2 DEF PageInv, Pages
<1>4. /\ there \subseteq there' /\ there' \cap Objects = there \cap Objects
      /\ organized' = organized /\ touched \subseteq touched'
      /\ \A o \in Objects \ touched' : studio'[o] = studio[o]
  BY UsersLeaveTheRest
<1>5. Current' = Current
  BY <1>2, <1>4, QueryStays
<1>6. PagesFit'
  BY <1>2, <1>3, <1>5 DEF PagesFit, PageOf
<1>7. RowsFit'
  <2>1. ASSUME NEW j \in DOMAIN batch'
        PROVE  /\ batch'[j].id \in there' /\ batch'[j].found = TRUE
               /\ input'.kind = "files" /\ batch'[j].studio # None /\ batch'[j].id \notin touched' =>
                    studio'[batch'[j].id] # None
    <3>1. /\ j \in DOMAIN batch /\ batch[j].id \in there /\ batch[j].found = TRUE
          /\ input.kind = "files" /\ batch[j].studio # None /\ batch[j].id \notin touched =>
                    studio[batch[j].id] # None
      BY <1>2, <1>3, <2>1 DEF RowsFit
    <3>2. batch[j].id \in Objects
      BY <1>3, <3>1, WaitingAreRows
    <3> QED
      BY <1>2, <1>4, <3>1, <3>2
  <2> QED
    BY <1>2, <1>3, <2>1 DEF RowsFit, Rows
<1>8. NoGap'
  <2>1. ASSUME NEW K \in ReadKinds
        PROVE  K \cap there' \subseteq visited' \/ \E q \in DOMAIN kinds' : kinds'[q] = K
    BY <1>2, <1>3, <1>4, KindsAreObjects DEF NoGap
  <2>2. ReadKinds' = ReadKinds
    BY <1>2 DEF ReadKinds, Kinds
  <2> QED
    BY <1>2, <1>3, <1>5, <2>1, <2>2 DEF NoGap
<1> QED
  BY <1>6, <1>7, <1>8

LEMMA QueryKeepsPages ==
  ASSUME AddInv, LibraryStays, PageInv, JobStep, Pages, Steady, Query
  PROVE  (PagesFit /\ RowsFit /\ NoGap)'
<1>1. PagesFit /\ RowsFit /\ NoGap
  BY DEF PageInv
<1>2. /\ UNCHANGED <<input, kinds, page, batch, cancelled, visited, touched>>
      /\ pc = "query" /\ pc' = "resolve" /\ kinds # <<>> /\ ids' = PageOf(Current, page)
  BY JobsLeaveTheRest DEF Query, Current
<1>3. UNCHANGED <<there, studio, organized>>
  BY <1>2 DEF JobStep, Batch, AutoTagStep, TagFilePanics, TagFile, HasFile, AskFor, TagSubject,
         NextEntry, IdentifyStep, FindScene, Scrape, ModifyScene, NextScene, libVars, Pages
<1>4. Current' = Current
  BY <1>2, <1>3, QueryStays
<1>5. PagesFit'
  BY <1>1, <1>2, <1>4 DEF PagesFit, PageOf, Ended
<1>6. RowsFit'
  BY <1>1, <1>2, <1>3 DEF RowsFit, Rows
<1>7. NoGap'
  BY <1>1, <1>2, <1>3, <1>4 DEF NoGap, ReadKinds, Kinds, Ended
<1> QED
  BY <1>5, <1>6, <1>7

LEMMA ResolveKeepsPages ==
  ASSUME AddInv, LibraryStays, PageInv, JobStep, Pages, Steady, Resolve
  PROVE  (PagesFit /\ RowsFit /\ NoGap)'
<1>1. PagesFit /\ RowsFit /\ NoGap
  BY DEF PageInv
<1>2. /\ UNCHANGED <<input, kinds, page, ids, cancelled, visited, touched>>
      /\ pc = "resolve"
  BY JobsLeaveTheRest DEF Resolve
<1>3. UNCHANGED <<there, studio, organized>>
  BY <1>2 DEF JobStep, Batch, AutoTagStep, TagFilePanics, TagFile, HasFile, AskFor, TagSubject,
         NextEntry, IdentifyStep, FindScene, Scrape, ModifyScene, NextScene, libVars, Pages
<1>4. Current' = Current
  BY <1>2, <1>3, QueryStays
<1>5. ids \in Seq(Objects \cap Head(kinds) \cap there)
  <2>1. ids = PageOf(Current, page) /\ page \in Nat \ {0}
    BY <1>1, <1>2 DEF PagesFit
  <2> QED
    BY <2>1, QueryIsNumbered, PageFollows
<1>6. batch' = [j \in DOMAIN ids |-> RowOf(ids[j])] /\ pc' = "each"
  BY <1>5 DEF Resolve
<1>7. ASSUME NEW j \in DOMAIN ids
      PROVE  /\ RowOf(ids[j]) \in Rows /\ RowOf(ids[j]).id = ids[j] /\ ids[j] \in there
             /\ RowOf(ids[j]).found = TRUE /\ RowOf(ids[j]).studio = studio[ids[j]]
  <2>1. ids[j] \in Objects /\ ids[j] \in there
    BY <1>5
  <2>2. studio[ids[j]] \in Studios \cup {None} /\ organized[ids[j]] = FALSE
    BY <2>1 DEF LibraryStays
  <2>3. (ids[j] \in there) = TRUE
    BY <2>1
  <2> QED
    BY <2>1, <2>2, <2>3 DEF RowOf, Rows
<1>8. batch' \in Seq(Rows) /\ DOMAIN batch' = DOMAIN ids
  <2>1. DOMAIN ids = 1..Len(ids) /\ Len(ids) \in Nat
    BY <1>5
  <2>2. \A j \in 1..Len(ids) : RowOf(ids[j]) \in Rows
    BY <1>7, <2>1
  <2>3. batch' \in [1..Len(ids) -> Rows]
    BY <1>6, <2>1, <2>2
  <2> QED
    BY <2>1, <2>3
<1>9. PagesFit'
  BY <1>1, <1>2, <1>4, <1>6 DEF PagesFit, PageOf, Ended
<1>10. RowsFit'
  BY <1>2, <1>3, <1>6, <1>7, <1>8 DEF RowsFit, Rows
<1>11. \A q \in DOMAIN ids : batch'[q].id = ids[q]
  BY <1>6, <1>7
<1>12. NoGap'
  BY <1>1, <1>2, <1>3, <1>4, <1>6, <1>8, <1>11 DEF NoGap, ReadKinds, Kinds, Ended
<1> QED
  BY <1>9, <1>10, <1>12

\* The rows of the page are done, and so is the kind when the page was the last one.
LEMMA PageIsVisited ==
  ASSUME PagesFit, NoGap, pc = "each", batch = <<>>
  PROVE  /\ \A q \in DOMAIN Current : q <= page * BatchSize => Current[q] \in visited
         /\ Len(ids) # BatchSize => \A q \in DOMAIN Current : Current[q] \in visited
<1>1. /\ page \in Nat \ {0} /\ ids = PageOf(Current, page)
      /\ \A q \in DOMAIN Current : q <= (page - 1) * BatchSize => Current[q] \in visited
      /\ \A q \in DOMAIN ids : ids[q] \in visited
  BY DEF PagesFit, NoGap, Ended
<1>2. /\ Current \in Seq(Objects \cap Head(kinds) \cap there)
      /\ \A q \in DOMAIN Current : q \in Nat /\ q > 0 /\ q <= Len(Current)
  BY QueryIsNumbered
<1>3. /\ \A q \in DOMAIN Current :
           \/ q <= (page - 1) * BatchSize
           \/ \E l \in DOMAIN ids : ids[l] = Current[q]
           \/ q > page * BatchSize
      /\ page * BatchSize < Len(Current) => Len(ids) = BatchSize
  BY <1>1, <1>2, PageFollows
<1>4. BatchSize \in Nat /\ page * BatchSize \in Nat /\ Len(Current) \in Nat
  BY <1>1, <1>2, BatchAssumption
<1> DEFINE after == page * BatchSize
           first == (page - 1) * BatchSize
<1> HIDE DEF after, first
<1>5. /\ \A q \in DOMAIN Current : q <= first \/ (\E l \in DOMAIN ids : ids[l] = Current[q]) \/ q > after
      /\ after < Len(Current) => Len(ids) = BatchSize
      /\ after \in Nat
      /\ \A q \in DOMAIN Current : q <= first => Current[q] \in visited
  BY <1>1, <1>3, <1>4 DEF after, first
<1>6. ASSUME NEW q \in DOMAIN Current, q <= after
      PROVE  Current[q] \in visited
  <2>1. q \in Nat /\ ~(q > after)
    BY <1>2, <1>5, <1>6
  <2> QED
    BY <1>1, <1>5, <2>1
<1>7. ASSUME Len(ids) # BatchSize, NEW q \in DOMAIN Current
      PROVE  Current[q] \in visited
  <2>1. q <= after
    BY <1>2, <1>4, <1>5, <1>7
  <2> QED
    BY <1>6, <2>1
<1> QED
  BY <1>6, <1>7 DEF after

LEMMA NextPageKeepsPages ==
  ASSUME AddInv, LibraryStays, PageInv, JobStep, Pages, Steady, NextPage
  PROVE  (PagesFit /\ RowsFit /\ NoGap)'
<1>1. PagesFit /\ RowsFit /\ NoGap
  BY DEF PageInv
<1>2. /\ UNCHANGED <<input, ids, batch, cancelled, visited, touched>>
      /\ pc = "each" /\ batch = <<>> /\ kinds # <<>>
  BY JobsLeaveTheRest DEF NextPage
<1>3. there' \cap Objects = there \cap Objects /\ organized' = organized
  BY JobsLeaveTheRest
<1>4. /\ \A q \in DOMAIN Current : q <= page * BatchSize => Current[q] \in visited
      /\ Len(ids) # BatchSize => \A q \in DOMAIN Current : Current[q] \in visited
  BY <1>1, <1>2, PageIsVisited
<1>5. RowsFit'
  <2>1. batch' = <<>> /\ pc' # "modify"
    BY <1>2 DEF NextPage
  <2> QED
    BY <2>1 DEF RowsFit
<1>6. ReadKinds' = ReadKinds
  BY <1>2 DEF ReadKinds, Kinds
<1>7. ASSUME NEW K \in ReadKinds
      PROVE  K \cap there' = K \cap there
  BY <1>3, KindsAreObjects
<1>8. CASE Len(ids) = BatchSize
  <2>1. page' = page + 1 /\ pc' = "query" /\ kinds' = kinds
    BY <1>8 DEF NextPage
  <2>2. Current' = Current
    BY <1>3, <2>1, QueryStays
  <2>3. page \in Nat /\ page' - 1 = page /\ page' \in Nat \ {0}
    BY <1>1, <2>1 DEF PagesFit
  <2>4. PagesFit'
    BY <1>1, <1>2, <2>1, <2>3 DEF PagesFit, Ended
  <2>5. \A q \in DOMAIN Current' : q <= (page' - 1) * BatchSize => Current'[q] \in visited'
    BY <1>2, <1>4, <2>2, <2>3
  <2>6. \A K \in ReadKinds : K \cap there' \subseteq visited' \/ \E q \in DOMAIN kinds' : kinds'[q] = K
    BY <1>1, <1>2, <1>7, <2>1 DEF NoGap
  <2>7. NoGap'
    BY <1>6, <2>1, <2>5, <2>6 DEF NoGap
  <2> QED
    BY <1>5, <2>4, <2>7
<1>9. CASE Len(ids) # BatchSize
  <2>1. page' = 1 /\ kinds' = Tail(kinds) /\ pc' = IF kinds' = <<>> THEN "done" ELSE "query"
    BY <1>9 DEF NextPage
  <2>2. /\ kinds' \in Seq(Kinds)
        /\ \A j \in DOMAIN kinds : kinds[j] = Head(kinds) \/ \E k \in DOMAIN kinds' : kinds'[k] = kinds[j]
    BY <1>1, <1>2, <2>1, RestOfBatch DEF PagesFit
  <2>3. PagesFit'
    BY <2>1, <2>2 DEF PagesFit, Ended
  <2>4. Objects \cap Head(kinds) \cap there \subseteq visited
    <3>1. \A o \in Objects \cap Head(kinds) \cap there : ~organized[o]
      BY DEF LibraryStays
    <3>2. \A o \in Objects \cap Head(kinds) \cap there :
            ~organized[o] => \E q \in DOMAIN Current : Current[q] = o
      BY QueryGivesAll DEF Current
    <3> QED
      BY <1>4, <1>9, <3>1, <3>2
  <2>5. ASSUME NEW K \in ReadKinds
        PROVE  K \cap there' \subseteq visited' \/ \E q \in DOMAIN kinds' : kinds'[q] = K
    <3>1. K \cap there \subseteq visited \/ \E q \in DOMAIN kinds : kinds[q] = K
      BY <1>1 DEF NoGap
    <3>2. K = Head(kinds) => K \cap there \subseteq visited
      BY <2>4, KindsAreObjects
    <3> QED
      BY <1>2, <1>7, <2>2, <3>1, <3>2
  <2>6. \A q \in DOMAIN Current' : ~(q <= (page' - 1) * BatchSize)
    <3>1. (page' - 1) * BatchSize = 0
      BY <2>1, BatchAssumption
    <3>2. (\A q \in DOMAIN Current : q \in Nat /\ q > 0 /\ q <= Len(Current))'
      BY QueryIsNumbered, PTL
    <3> QED
      BY <3>1, <3>2
  <2>7. pc' = "done" => kinds' = <<>>
    BY <2>1
  <2>8. pc' \notin {"each", "modify"}
    BY <2>1
  <2>9. NoGap'
    BY <1>6, <2>5, <2>6, <2>7, <2>8 DEF NoGap
  <2> QED
    BY <1>5, <2>3, <2>9
<1> QED
  BY <1>8, <1>9

\* A row is processed: it is visited before it is taken from the batch.
LEMMA WorkKeepsPages ==
  ASSUME AddInv, LibraryStays, PageInv, JobStep, Pages, Steady,
         TagFile \/ Scrape \/ ModifyScene
  PROVE  (PagesFit /\ RowsFit /\ NoGap)'
<1>1. PagesFit /\ RowsFit /\ NoGap
  BY DEF PageInv
<1>2. /\ UNCHANGED <<input, kinds, page, ids, cancelled, touched>>
      /\ there \subseteq there' /\ there' \cap Objects = there \cap Objects /\ organized' = organized
  BY JobsLeaveTheRest DEF TagFile, Scrape, ModifyScene
<1>3. /\ pc \in {"each", "modify"} /\ pc' \in {"each", "modify"}
      /\ visited \subseteq visited' /\ Head(batch).id \in visited' /\ batch # <<>>
      /\ batch' = batch \/ (batch' = Tail(batch) /\ pc' = "each")
  BY <1>1 DEF TagFile, HasFile, Scrape, ModifyScene, RowsFit
<1>4. ASSUME input.kind = "files", NEW o \in Objects, studio[o] # None
      PROVE  studio'[o] # None
  <2>1. TagFile
    BY <1>4 DEF Scrape, ModifyScene, Identifies
  <2>2. studio'[o] = studio[o]
    BY <1>4, <2>1, FilesOnlyAdd
  <2> QED
    BY <1>4, <2>2
<1>5. Current' = Current
  BY <1>2, QueryStays
<1>6. PagesFit'
  BY <1>1, <1>2, <1>3, <1>5 DEF PagesFit, PageOf, Ended
<1>7. /\ batch' \in Seq(Rows)
      /\ \A k \in DOMAIN batch' : \E j \in DOMAIN batch : batch'[k] = batch[j]
      /\ \A j \in DOMAIN batch : batch[j] = Head(batch) \/ \E k \in DOMAIN batch' : batch'[k] = batch[j]
  <2>1. /\ batch \in Seq(Rows) /\ Tail(batch) \in Seq(Rows)
        /\ \A j \in DOMAIN batch : batch[j] = Head(batch) \/ \E k \in DOMAIN Tail(batch) : Tail(batch)[k] = batch[j]
        /\ \A k \in DOMAIN Tail(batch) : \E j \in DOMAIN batch : Tail(batch)[k] = batch[j]
    BY <1>1, <1>3, RestOfBatch DEF RowsFit
  <2>2. CASE batch' = batch
    BY <2>1, <2>2
  <2>3. CASE batch' = Tail(batch)
    BY <2>1, <2>3
  <2> QED
    BY <1>3, <2>2, <2>3
<1>8. RowsFit'
  <2>1. ASSUME NEW k \in DOMAIN batch'
        PROVE  /\ batch'[k].id \in there' /\ batch'[k].found = TRUE
               /\ input'.kind = "files" /\ batch'[k].studio # None /\ batch'[k].id \notin touched' =>
                    studio'[batch'[k].id] # None
    <3>1. PICK j \in DOMAIN batch : batch'[k] = batch[j]
      BY <1>7
    <3>2. /\ batch[j].id \in there /\ batch[j].found = TRUE /\ batch[j].id \in Objects
          /\ input.kind = "files" /\ batch[j].studio # None /\ batch[j].id \notin touched =>
                    studio[batch[j].id] # None
      BY <1>1, WaitingAreRows DEF RowsFit
    <3> QED
      BY <1>2, <1>4, <3>1, <3>2
  <2>2. pc' = "modify" => batch' # <<>> /\ Head(batch').id \in visited'
    BY <1>3
  <2> QED
    BY <1>7, <2>1, <2>2 DEF RowsFit, Rows
<1>9. NoGap'
  <2>1. ASSUME NEW K \in ReadKinds
        PROVE  K \cap there' \subseteq visited' \/ \E q \in DOMAIN kinds' : kinds'[q] = K
    <3>1. K \cap there \subseteq visited \/ \E q \in DOMAIN kinds : kinds[q] = K
      BY <1>1 DEF NoGap
    <3> QED
      BY <1>2, <1>3, <3>1, KindsAreObjects
  <2>2. ReadKinds' = ReadKinds
    BY <1>2 DEF ReadKinds, Kinds
  <2>3. ASSUME NEW q \in DOMAIN ids'
        PROVE  ids'[q] \in visited' \/ \E k \in DOMAIN batch' : batch'[k].id = ids'[q]
    <3>1. q \in DOMAIN ids /\ ids' = ids
      BY <1>2, <2>3
    <3>2. ids[q] \in visited \/ \E j \in DOMAIN batch : batch[j].id = ids[q]
      BY <1>1, <1>3, <3>1 DEF NoGap
    <3>3. CASE ids[q] \in visited
      BY <1>3, <3>1, <3>3
    <3>4. ASSUME NEW j \in DOMAIN batch, batch[j].id = ids[q]
          PROVE  ids'[q] \in visited' \/ \E k \in DOMAIN batch' : batch'[k].id = ids'[q]
      BY <1>3, <1>7, <3>1, <3>4
    <3> QED
      BY <3>2, <3>3, <3>4
  <2>4. \A q \in DOMAIN Current' : q <= (page' - 1) * BatchSize => Current'[q] \in visited'
    <3>1. \A q \in DOMAIN Current : q <= (page - 1) * BatchSize => Current[q] \in visited
      BY <1>1, <1>3 DEF NoGap, Ended
    <3> QED
      BY <1>2, <1>3, <1>5, <3>1
  <2>5. pc' # "done"
    BY <1>3
  <2> QED
    BY <2>1, <2>2, <2>3, <2>4, <2>5 DEF NoGap
<1> QED
  BY <1>6, <1>8, <1>9

LEMMA EndKeepsPages ==
  ASSUME AddInv, LibraryStays, PageInv, JobStep, Pages, Steady, CancelJob \/ TagFilePanics
  PROVE  (PagesFit /\ RowsFit /\ NoGap)'
<1>1. PagesFit /\ RowsFit /\ NoGap
  BY DEF PageInv
<1>2. /\ UNCHANGED <<input, kinds, page, ids, batch, visited, touched>>
      /\ pc' = "crashed" \/ (pc' = "done" /\ cancelled' = TRUE)
  BY JobsLeaveTheRest DEF CancelJob, TagFilePanics
<1>3. UNCHANGED <<there, studio, organized>>
  BY <1>2 DEF JobStep, Batch, Query, Resolve, NextPage, CancelJob, AutoTagStep, TagFilePanics, TagFile,
         HasFile, AskFor, TagSubject, NextEntry, IdentifyStep, FindScene, Scrape, ModifyScene, NextScene,
         libVars
<1>4. PagesFit'
  BY <1>1, <1>2 DEF PagesFit, Ended
<1>5. RowsFit'
  BY <1>1, <1>2, <1>3 DEF RowsFit, Rows
<1>6. NoGap'
  <2>1. ReadKinds' = ReadKinds
    BY <1>2 DEF ReadKinds, Kinds
  <2> QED
    BY <1>1, <1>2, <1>3, <2>1 DEF NoGap, Ended
<1> QED
  BY <1>4, <1>5, <1>6

LEMMA JobsKeepPages ==
  ASSUME AddInv, LibraryStays, PageInv, JobStep
  PROVE  PageInv'
<1> SUFFICES ASSUME Pages', Steady' PROVE (PagesFit /\ RowsFit /\ NoGap)'
  BY DEF PageInv
<1>1. input' = input /\ UNCHANGED histVars
  BY DEF JobStep, Batch, Query, Resolve, NextPage, CancelJob, AutoTagStep, TagFilePanics,
         TagFile, AskFor, TagSubject, NextEntry, IdentifyStep, FindScene, Scrape, ModifyScene, NextScene
<1>2. Pages /\ Steady
  BY <1>1 DEF Pages, Steady, Marks, Identifies, histVars
<1>3. \/ Query \/ Resolve \/ NextPage
      \/ TagFile \/ Scrape \/ ModifyScene
      \/ CancelJob \/ TagFilePanics
  BY <1>2 DEF JobStep, Batch, AutoTagStep, AskFor, TagSubject, NextEntry, IdentifyStep, FindScene,
         NextScene, Pages
<1> QED
  BY <1>2, <1>3, QueryKeepsPages, ResolveKeepsPages, NextPageKeepsPages, WorkKeepsPages, EndKeepsPages

-----------------------------------------------------------------------------
(* Auto-tag through the files.                                             *)

Calls(o) == (Matching[o] \cap Sought) \ Newcomers

Satisfied(o) ==
  /\ Calls(o) \cap Attachable \subseteq Linked(o)
  /\ Calls(o) \cap Studios # {} => studio[o] # None

\* What was visited has all that its path calls for, unless users changed it.
FilesInv ==
  input.kind = "files" /\ ~left =>
    \A o \in (Objects \cap visited \cap there) \ touched : Satisfied(o)

LEMMA StaysSatisfied ==
  ASSUME NEW o \in Objects, Satisfied(o), input' = input, Linked(o) \subseteq Linked(o)',
         studio[o] # None => studio'[o] # None
  PROVE  Satisfied(o)'
<1>1. Calls(o)' = Calls(o)
  BY DEF Calls, Sought, AskedBy
<1> QED
  BY <1>1 DEF Satisfied

LEMMA CandidatesAreThere ==
  ASSUME LibraryStays, Steady, NEW k \in Caches
  PROVE  Candidates(k) \subseteq there
<1>1. cache[k] # None => cache[k] \subseteq there
  BY DEF LibraryStays
<1> QED
  BY <1>1 DEF Candidates, CachedOf

\* The transaction of a file does not fail and leaves nothing out.
LEMMA FileIsSatisfied ==
  ASSUME AddInv, LibraryStays, RowsFit, Steady, TagFile,
         NEW o \in Objects, Head(batch).id = o, o \notin touched
  PROVE  Satisfied(o)'
<1> DEFINE row == Head(batch)
           new == UNION {Wanted(row.id, k) : k \in {l \in LinkKinds : input[l]}}
<1>1. /\ input.kind = "files" /\ ~Identifies /\ batch # <<>> /\ input' = input
      /\ links \in [Objects -> [Attachable -> Nat]] /\ studio \in [Objects -> Studios \cup {None}]
  BY DEF TagFile, HasFile, Identifies, LibraryStays
<1>2. /\ row.id = o /\ row.id \in Objects /\ o \in there
      /\ row.studio # None => studio[o] # None
  <2>1. 1 \in DOMAIN batch /\ batch[1] = row
    <3>1. batch \in Seq(Rows)
      BY DEF RowsFit
    <3> QED
      BY <1>1, <3>1, RestOfBatch
  <2> QED
    BY <1>1, <2>1, WaitingAreRows DEF RowsFit
<1>3. ASSUME NEW k \in Caches
      PROVE  ~LinksFail(row.id, k)
  <2>1. Wanted(row.id, k) \subseteq there
    BY CandidatesAreThere DEF Wanted, Matches
  <2> QED
    BY <1>2, <2>1 DEF LinksFail
<1>4. PathToStudio(row.id) # None => PathToStudio(row.id) \in there
  BY <1>2, StudioIsCalledFor, CandidatesAreThere DEF Caches
<1>5. ~Fails(row)
  BY <1>3, <1>4 DEF Fails, StudioFails, SetsStudio, AsksForStudio, Caches
<1>6. /\ links' = [links EXCEPT ![row.id] = AppendUnique(@, new)]
      /\ studio' = IF SetsStudio(row) THEN [studio EXCEPT ![row.id] = PathToStudio(row.id)] ELSE studio
  BY <1>5 DEF TagFile
<1>7. /\ links'[o] = AppendUnique(links[row.id], new)
      /\ links[row.id] = links[o] /\ links[o] \in [Attachable -> Nat]
      /\ studio'[o] = IF SetsStudio(row) THEN PathToStudio(row.id) ELSE studio[o]
  <2> HIDE DEF new, row
  <2> QED
    BY <1>1, <1>2, <1>6
<1>8. ASSUME NEW x \in Calls(o)
      PROVE  \E k \in Caches : input[k] /\ x \in RowsOf[k] /\ x \in Matching[o] /\ x \in Candidates(k)
  <2>1. PICK S \in {RowsOf[k] : k \in {l \in DOMAIN RowsOf : input[l]}} : x \in S /\ x \notin Ignored
    <3>1. Sought = (UNION {RowsOf[k] : k \in {l \in DOMAIN RowsOf : input[l]}}) \ Ignored
      BY <1>1 DEF Sought
    <3>2. x \in Sought
      BY DEF Calls
    <3>3. x \in UNION {RowsOf[k] : k \in {l \in DOMAIN RowsOf : input[l]}} /\ x \notin Ignored
      BY <3>1, <3>2
    <3> QED
      BY <3>3
  <2>2. PICK k \in DOMAIN RowsOf : input[k] /\ S = RowsOf[k]
    BY <2>1
  <2>3. k \in Caches /\ x \in RowsOf[k] /\ x \in Subjects
    BY <2>1, <2>2 DEF RowsOf, Caches, Subjects
  <2>4. x \in there
    BY <2>3 DEF Calls, LibraryStays
  <2> QED
    BY <2>1, <2>2, <2>3, <2>4 DEF Calls, Candidates
<1>9. ASSUME NEW x \in Calls(o) \cap Attachable
      PROVE  links'[o][x] > 0
  <2>1. PICK k \in Caches : input[k] /\ x \in RowsOf[k] /\ x \in Matching[o] /\ x \in Candidates(k)
    BY <1>8
  <2>2. k \in LinkKinds
    BY <2>1, LibraryAssumption DEF Caches, RowsOf, LinkKinds, Attachable
  <2>3. CASE links[o][x] = 0
    <3>1. x \in new
      BY <1>2, <1>7, <2>1, <2>2, <2>3 DEF Wanted, Matches
    <3> HIDE DEF new
    <3> QED
      BY <1>7, <2>3, <3>1 DEF AppendUnique
  <2>4. CASE links[o][x] # 0
    <3> HIDE DEF new
    <3> QED
      BY <1>7, <2>4 DEF AppendUnique
  <2> QED
    BY <2>3, <2>4
<1>10. ASSUME NEW x \in Calls(o) \cap Studios
       PROVE  studio'[o] # None
  <2>1. input.studios /\ x \in Matching[o] /\ x \in Candidates("studios")
    <3>1. PICK k \in Caches : input[k] /\ x \in RowsOf[k] /\ x \in Matching[o] /\ x \in Candidates(k)
      BY <1>8
    <3>2. k = "studios"
      BY <3>1, LibraryAssumption DEF Caches, RowsOf
    <3> QED
      BY <3>1, <3>2
  <2>2. /\ StudiosFrom[row.id] \in Seq(Studios) /\ x \in Matching[row.id]
        /\ Range(StudiosFrom[row.id]) = Matching[row.id] \cap Studios
    BY <1>2, <2>1, AutoTagAssumption
  <2> DEFINE from == {j \in DOMAIN StudiosFrom[row.id] :
                        StudiosFrom[row.id][j] \in Candidates("studios")}
  <2>3. from # {} /\ from \in SUBSET Nat
    <3>1. PICK j \in DOMAIN StudiosFrom[row.id] : StudiosFrom[row.id][j] = x
      BY <2>2 DEF Range
    <3> QED
      BY <2>1, <2>2, <3>1
  <2>4. PathToStudio(row.id) = StudiosFrom[row.id][Min(from)] /\ Min(from) \in from
    BY <2>3, LeastNatural DEF PathToStudio
  <2>5. PathToStudio(row.id) \in Studios
    <3> HIDE DEF row
    <3>1. Min(from) \in DOMAIN StudiosFrom[row.id]
      BY <2>4
    <3> HIDE DEF from
    <3> QED
      BY <2>2, <2>4, <3>1
  <2>6. PathToStudio(row.id) # None
    BY <2>5, LibraryAssumption DEF Subjects
  <2> QED
    BY <1>2, <1>7, <2>1, <2>6 DEF SetsStudio, AsksForStudio
<1>11. Calls(o)' = Calls(o)
  <2>1. Sought' = Sought
    BY <1>1 DEF Sought, AskedBy
  <2> QED
    BY <2>1 DEF Calls
<1> QED
  BY <1>9, <1>10, <1>11 DEF Satisfied, Linked

LEMMA FilesStaySatisfied ==
  ASSUME AddInv, LibraryStays, PageInv, FilesInv, [Next]_vars
  PROVE  FilesInv'
<1> SUFFICES ASSUME input'.kind = "files", ~left',
                    NEW o \in (Objects \cap visited' \cap there') \ touched'
             PROVE  Satisfied(o)'
  BY DEF FilesInv
<1>1. CASE UNCHANGED vars
  <2>1. Satisfied(o) /\ UNCHANGED <<input, links, studio>>
    BY <1>1 DEF FilesInv, vars, libVars, histVars, jobVars
  <2> QED
    BY <2>1, StaysSatisfied DEF Linked
<1>2. CASE UserStep
  <2>1. UNCHANGED jobVars
    BY <1>2 DEF UserStep
  <2>2. Steady'
    BY <2>1 DEF Steady, Marks, Identifies, jobVars
  <2>3. Steady
    BY <1>2, <2>2, SteadyBefore
  <2>4. input' = input /\ o \in (Objects \cap visited \cap there) \ touched
        /\ links'[o] = links[o] /\ studio'[o] = studio[o]
    BY <1>2, <2>1, <2>2, UsersLeaveTheRest DEF jobVars
  <2>5. Satisfied(o)
    BY <2>3, <2>4 DEF FilesInv, Steady
  <2> QED
    BY <2>4, <2>5, StaysSatisfied DEF Linked
<1>3. CASE JobStep
  <2>1. input' = input /\ UNCHANGED histVars
    BY <1>3 DEF JobStep, Batch, Query, Resolve, NextPage, CancelJob, AutoTagStep, TagFilePanics,
         TagFile, AskFor, TagSubject, NextEntry, IdentifyStep, FindScene, Scrape, ModifyScene, NextScene
  <2>2. Steady /\ Pages /\ touched' = touched /\ ~left
    BY <2>1 DEF Steady, Marks, Identifies, Pages, histVars
  <2>3. CASE TagFile
    <3>1. there' = there /\ visited' = visited \cup {Head(batch).id}
      BY <2>3 DEF TagFile
    <3>2. CASE Head(batch).id = o
      <4>1. RowsFit
        BY <2>2 DEF PageInv
      <4> QED
        BY <2>2, <2>3, <3>2, <4>1, FileIsSatisfied
    <3>3. CASE Head(batch).id # o
      <4>1. Satisfied(o)
        BY <2>1, <2>2, <3>1, <3>3 DEF FilesInv
      <4>2. Linked(o) \subseteq Linked(o)' /\ (studio[o] # None => studio'[o] # None)
        BY <2>3, FilesOnlyAdd
      <4> QED
        BY <2>1, <4>1, <4>2, StaysSatisfied
    <3> QED
      BY <3>2, <3>3
  <2>4. CASE ~TagFile
    <3>1. UNCHANGED <<there, links, studio, visited>>
      BY <1>3, <2>1, <2>4 DEF JobStep, Batch, Query, Resolve, NextPage, CancelJob, AutoTagStep,
           TagFilePanics, AskFor, TagSubject, NextEntry, IdentifyStep, FindScene, Scrape, ModifyScene,
           NextScene, Identifies, libVars
    <3>2. Satisfied(o)
      BY <2>1, <2>2, <3>1 DEF FilesInv
    <3> QED
      BY <2>1, <3>1, <3>2, StaysSatisfied DEF Linked
  <2> QED
    BY <2>3, <2>4
<1> QED
  BY <1>1, <1>2, <1>3 DEF Next

-----------------------------------------------------------------------------
(* Auto-tag through the performers, studios and tags of the input.         *)

DoneWith(x) ==
  \A o \in (Objects \cap there) \ touched : x \in Matching[o] =>
    /\ x \in Attachable => x \in Linked(o)
    /\ x \in Studios => studio[o] # None

\* Who was asked for is done, waits, or is still to be asked for.
SpecificInv ==
  input.kind = "specific" /\ ~left =>
    /\ \A j \in DOMAIN batch : batch[j] \in there
    /\ pc \notin {"crashed"} /\ ~cancelled =>
         \A e \in Range(input.ids) :
           \/ \E j \in DOMAIN todo : todo[j] = e
           \/ \A x \in AskedBy(e) \ Newcomers :
                DoneWith(x) \/ (pc = "each" /\ \E j \in DOMAIN batch : batch[j] = x)
    /\ pc = "done" /\ ~cancelled => todo = <<>>

LEMMA StaysDone ==
  ASSUME NEW x, DoneWith(x), there' \cap Objects = there \cap Objects, touched \subseteq touched',
         \A o \in Objects \ touched' :
           Linked(o) \subseteq Linked(o)' /\ (studio[o] # None => studio'[o] # None)
  PROVE  DoneWith(x)'
BY DEF DoneWith

\* A transaction for a subject does not fail and leaves no object out.
LEMMA SubjectIsDone ==
  ASSUME AddInv, LibraryStays, Steady, TagSubject, NEW x \in there, x = Head(batch),
         touched' = touched
  PROVE  DoneWith(x)'
<1>1. /\ links' = [o \in Objects |->
           IF o \in Receivers(Head(batch)) /\ Head(batch) \in Attachable
           THEN AppendUnique(links[o], {Head(batch)}) ELSE links[o]]
      /\ studio' = [o \in Objects |->
           IF o \in Receivers(Head(batch)) /\ Head(batch) \in Studios THEN Head(batch) ELSE studio[o]]
      /\ there' = there /\ ~Identifies
  BY DEF TagSubject, Identifies
<1>2. /\ links \in [Objects -> [Attachable -> Nat]] /\ studio \in [Objects -> Studios \cup {None}]
      /\ \A o \in Objects : organized[o] = FALSE
  BY <1>1 DEF LibraryStays
<1> SUFFICES ASSUME NEW o \in (Objects \cap there) \ touched, x \in Matching[o]
             PROVE  /\ x \in Attachable => links'[o][x] > 0
                    /\ x \in Studios => studio'[o] # None
  BY <1>1 DEF DoneWith, Linked
<1>3. o \in Receivers(Head(batch)) <=>
        IF x \in Studios THEN studio[o] = None ELSE links[o][x] = 0
  <2>1. Head(batch) = x /\ organized[o] = FALSE
    BY <1>2
  <2> QED
    BY <2>1 DEF Receivers, Takes, ObjectsFor
<1>4. ASSUME x \in Attachable
      PROVE  links'[o][x] > 0
  <2>1. x \notin Studios
    BY <1>4, LibraryAssumption DEF Attachable
  <2>2. links'[o] = IF links[o][x] = 0 THEN AppendUnique(links[o], {Head(batch)}) ELSE links[o]
    BY <1>1, <1>3, <1>4, <2>1
  <2>3. links[o][x] \in Nat
    BY <1>2, <1>4
  <2> QED
    BY <1>4, <2>2, <2>3 DEF AppendUnique
<1>5. ASSUME x \in Studios
      PROVE  studio'[o] # None
  <2>1. x # None
    BY <1>5, LibraryAssumption DEF Subjects
  <2> QED
    BY <1>1, <1>3, <1>5, <2>1
<1> QED
  BY <1>4, <1>5

LEMMA SpecificInitially == Init => SpecificInv
<1> SUFFICES ASSUME Init, input.kind = "specific" PROVE SpecificInv
  BY DEF SpecificInv
<1> USE DEF Init, JobInit
<1>1. \A e \in Range(input.ids) : \E j \in DOMAIN todo : todo[j] = e
  BY DEF Range
<1> QED
  BY <1>1 DEF SpecificInv

LEMMA AskedByStays ==
  ASSUME input' = input, NEW e
  PROVE  AskedBy(e)' = AskedBy(e)
BY DEF AskedBy

\* The next entry: who is asked for by it now waits.
LEMMA AskingLosesNone ==
  ASSUME AddInv, LibraryStays, SpecificInv, Steady, AskFor, input' = input, touched' = touched
  PROVE  SpecificInv'
<1> USE DEF AskFor
<1>1. /\ input.kind = "specific" /\ pc = "query" /\ ~left /\ cancelled' = cancelled
      /\ UNCHANGED <<there, links, studio>>
  BY DEF libVars, Steady
<1>2. /\ todo \in Seq(Entries) /\ batch \in Seq(Subjects) /\ input.ids \in Seq(Entries)
      /\ Subjects \ Newcomers \subseteq there
      /\ \A j \in DOMAIN batch : batch[j] \in there
  BY <1>1 DEF AddInv, EntriesFit, LibraryStays, SpecificInv
<1>3. ASSUME ~cancelled, NEW e \in Range(input.ids), ~(\E j \in DOMAIN todo : todo[j] = e),
             NEW x \in AskedBy(e) \ Newcomers
      PROVE  DoneWith(x)'
  <2>1. DoneWith(x)
    BY <1>1, <1>3 DEF SpecificInv
  <2> QED
    BY <1>1, <2>1, StaysDone DEF Linked
<1>4. CASE todo = <<>>
  <2>1. pc' = "done" /\ UNCHANGED <<batch, todo>>
    BY <1>4
  <2>2. ~(\E e : \E j \in DOMAIN todo : todo[j] = e)
    BY <1>4
  <2>3. ASSUME ~cancelled', NEW e \in Range(input'.ids), NEW x \in AskedBy(e)' \ Newcomers
        PROVE  DoneWith(x)'
    BY <1>1, <1>3, <2>2, <2>3, AskedByStays
  <2> QED
    BY <1>1, <1>2, <1>4, <2>1, <2>3 DEF SpecificInv
<1>5. CASE todo # <<>>
  <2>1. /\ todo' = Tail(todo) /\ pc' # "done" /\ Asked = Head(todo) /\ Asked \in Entries
        /\ \A j \in DOMAIN todo : todo[j] = Asked \/ \E k \in DOMAIN todo' : todo'[k] = todo[j]
    <3>1. todo' = Tail(todo) /\ pc' # "done"
      BY <1>5
    <3>2. /\ Head(todo) \in Entries
          /\ \A j \in DOMAIN todo : todo[j] = Head(todo) \/ \E k \in DOMAIN Tail(todo) : Tail(todo)[k] = todo[j]
      BY <1>2, <1>5, RestOfBatch
    <3>3. Asked = Head(todo)
      BY DEF Asked
    <3> QED
      BY <3>1, <3>2, <3>3
  <2>2. \A j \in DOMAIN batch' : batch'[j] \in there
    <3>1. CASE Asked.id = Everything
      <4> DEFINE S == (RowsOf[Asked.of] \cap there) \ Ignored
      <4>1. S \subseteq Subjects
        BY <2>1 DEF RowsOf, Entries, Caches, Subjects
      <4>2. SetToSeq(S) \in Seq(S)
        BY <4>1, LibraryAssumption, FS_Subset, SequenceOfSet
      <4>3. batch' = SetToSeq(S)
        BY <1>5, <3>1
      <4>4. S \subseteq there
        OBVIOUS
      <4> HIDE DEF S
      <4> QED
        BY <4>2, <4>3, <4>4
    <3>2. CASE Asked.id # Everything
      <4>1. batch' = batch \/ (batch' = <<Asked.id>> /\ Asked.id \in there)
        BY <1>5, <3>2
      <4> QED
        BY <1>2, <4>1
    <3> QED
      BY <3>1, <3>2
  <2>3. ASSUME pc' # "crashed", NEW x \in AskedBy(Asked) \ Newcomers
        PROVE  pc' = "each" /\ \E j \in DOMAIN batch' : batch'[j] = x
    <3>1. CASE Asked.id = Everything
      <4> DEFINE S == (RowsOf[Asked.of] \cap there) \ Ignored
      <4>1. S \subseteq Subjects /\ RowsOf[Asked.of] \subseteq Subjects
        BY <2>1 DEF RowsOf, Entries, Caches, Subjects
      <4>2. \A y \in S : \E j \in DOMAIN SetToSeq(S) : SetToSeq(S)[j] = y
        BY <4>1, LibraryAssumption, FS_Subset, SequenceOfSet
      <4>3. batch' = SetToSeq(S) /\ pc' = "each"
        BY <1>5, <3>1
      <4>4. x \in S
        BY <1>2, <2>3, <3>1, <4>1 DEF AskedBy
      <4> HIDE DEF S
      <4> QED
        BY <4>2, <4>3, <4>4
    <3>2. CASE Asked.id # Everything
      <4>1. x = Asked.id /\ x \in Subjects
        BY <2>1, <2>3, <3>2 DEF AskedBy, Entries
      <4>2. Asked.id \in there
        BY <1>2, <2>3, <4>1
      <4>3. batch' = <<Asked.id>> /\ pc' = "each"
        BY <1>5, <3>2, <4>2
      <4> QED
        BY <4>1, <4>3
    <3> QED
      BY <3>1, <3>2
  <2>4. ASSUME pc' # "crashed", ~cancelled', NEW e \in Range(input'.ids)
        PROVE  \/ \E j \in DOMAIN todo' : todo'[j] = e
               \/ \A x \in AskedBy(e)' \ Newcomers :
                    DoneWith(x)' \/ (pc' = "each" /\ \E j \in DOMAIN batch' : batch'[j] = x)
    <3>1. CASE \E j \in DOMAIN todo : todo[j] = e
      BY <2>1, <2>3, <2>4, <3>1, AskedByStays
    <3>2. CASE ~(\E j \in DOMAIN todo : todo[j] = e)
      BY <1>1, <1>3, <2>4, <3>2, AskedByStays
    <3> QED
      BY <3>1, <3>2
  <2> QED
    BY <1>1, <2>1, <2>2, <2>4 DEF SpecificInv
<1> QED
  BY <1>4, <1>5

LEMMA TaggingLosesNone ==
  ASSUME AddInv, LibraryStays, SpecificInv, Steady, TagSubject, input' = input, touched' = touched
  PROVE  SpecificInv'
<1>1. /\ input.kind = "specific" /\ pc = "each" /\ pc' = "each" /\ ~left /\ batch # <<>>
      /\ UNCHANGED <<there, cancelled, todo>>
  BY DEF TagSubject, Steady
<1>2. batch \in Seq(Subjects) /\ \A j \in DOMAIN batch : batch[j] \in there
  BY <1>1 DEF AddInv, EntriesFit, SpecificInv
<1>3. /\ Head(batch) \in there
      /\ \A j \in DOMAIN batch : batch[j] = Head(batch) \/ \E k \in DOMAIN Tail(batch) : Tail(batch)[k] = batch[j]
      /\ \A k \in DOMAIN Tail(batch) : \E j \in DOMAIN batch : Tail(batch)[k] = batch[j]
  BY <1>1, <1>2, RestOfBatch
<1>4. batch' = Tail(batch)
  BY <1>3 DEF TagSubject
<1>5. \A o \in Objects : Linked(o) \subseteq Linked(o)' /\ (studio[o] # None => studio'[o] # None)
  BY SubjectsOnlyAdd
<1>6. ASSUME NEW x, DoneWith(x)
      PROVE  DoneWith(x)'
  BY <1>1, <1>5, <1>6, StaysDone
<1>7. ASSUME NEW x, x = Head(batch)
      PROVE  DoneWith(x)'
  BY <1>3, <1>7, SubjectIsDone
<1>8. ASSUME ~cancelled', NEW e \in Range(input'.ids), ~(\E j \in DOMAIN todo' : todo'[j] = e),
             NEW x \in AskedBy(e)' \ Newcomers
      PROVE  DoneWith(x)' \/ \E k \in DOMAIN batch' : batch'[k] = x
  <2>1. x \in AskedBy(e) \ Newcomers /\ e \in Range(input.ids) /\ ~cancelled
        /\ ~(\E j \in DOMAIN todo : todo[j] = e)
    BY <1>1, <1>8, AskedByStays
  <2>2. DoneWith(x) \/ \E j \in DOMAIN batch : batch[j] = x
    BY <1>1, <2>1 DEF SpecificInv
  <2>3. ASSUME NEW j \in DOMAIN batch, batch[j] = x
        PROVE  DoneWith(x)' \/ \E k \in DOMAIN batch' : batch'[k] = x
    BY <1>3, <1>4, <1>7, <2>3
  <2> QED
    BY <1>6, <2>2, <2>3
<1>9. \A k \in DOMAIN batch' : batch'[k] \in there'
  BY <1>1, <1>2, <1>3, <1>4
<1> QED
  BY <1>1, <1>8, <1>9 DEF SpecificInv

\* A step that leaves who waits and who is to be asked for alone.
LEMMA RestLosesNone ==
  ASSUME SpecificInv, ~left, input' = input,
         there \subseteq there', there' \cap Objects = there \cap Objects, touched \subseteq touched',
         \A o \in Objects \ touched' : links'[o] = links[o] /\ studio'[o] = studio[o],
         UNCHANGED <<batch, todo>>,
         \/ UNCHANGED <<pc, cancelled>>
         \/ cancelled' = TRUE
         \/ pc = "each" /\ pc' = "query" /\ batch = <<>> /\ UNCHANGED cancelled
  PROVE  SpecificInv'
<1> SUFFICES ASSUME input.kind = "specific" PROVE SpecificInv'
  BY DEF SpecificInv
<1>1. \A j \in DOMAIN batch' : batch'[j] \in there'
  BY DEF SpecificInv
<1>2. pc' = "done" /\ ~cancelled' => todo' = <<>>
  BY DEF SpecificInv
<1>3. ASSUME pc' # "crashed", ~cancelled', NEW e \in Range(input'.ids),
             ~(\E j \in DOMAIN todo' : todo'[j] = e), NEW x \in AskedBy(e)' \ Newcomers
      PROVE  DoneWith(x)' \/ (pc' = "each" /\ \E k \in DOMAIN batch' : batch'[k] = x)
  <2>1. x \in AskedBy(e) \ Newcomers /\ e \in Range(input.ids) /\ ~cancelled
        /\ ~(\E j \in DOMAIN todo : todo[j] = e) /\ pc # "crashed"
    BY <1>3, AskedByStays
  <2>2. DoneWith(x) \/ (pc = "each" /\ \E j \in DOMAIN batch : batch[j] = x)
    BY <2>1 DEF SpecificInv
  <2>3. DoneWith(x) => DoneWith(x)'
    BY StaysDone DEF Linked
  <2>4. CASE UNCHANGED <<pc, cancelled>>
    BY <2>2, <2>3, <2>4
  <2>5. CASE batch = <<>>
    BY <2>2, <2>3, <2>5
  <2> QED
    BY <1>3, <2>4, <2>5
<1> QED
  BY <1>1, <1>2, <1>3 DEF SpecificInv

LEMMA NoneIsLost ==
  ASSUME AddInv, LibraryStays, SpecificInv, [Next]_vars
  PROVE  SpecificInv'
<1> SUFFICES ASSUME input'.kind = "specific", ~left' PROVE SpecificInv'
  BY DEF SpecificInv
<1>1. CASE UNCHANGED vars
  BY <1>1, RestLosesNone DEF vars, libVars, histVars, jobVars
<1>2. CASE UserStep
  <2>1. UNCHANGED jobVars
    BY <1>2 DEF UserStep
  <2>2. Steady'
    BY <2>1 DEF Steady, Marks, Identifies, jobVars
  <2>3. Steady
    BY <1>2, <2>2, SteadyBefore
  <2> QED
    BY <1>2, <2>1, <2>2, <2>3, UsersLeaveTheRest, RestLosesNone DEF Steady, jobVars
<1>3. CASE JobStep
  <2>1. input' = input /\ UNCHANGED histVars
    BY <1>3 DEF JobStep, Batch, Query, Resolve, NextPage, CancelJob, AutoTagStep, TagFilePanics,
         TagFile, AskFor, TagSubject, NextEntry, IdentifyStep, FindScene, Scrape, ModifyScene, NextScene
  <2>2. Steady /\ touched' = touched /\ ~left
    BY <2>1 DEF Steady, Marks, Identifies, histVars
  <2>3. AskFor \/ TagSubject \/ CancelJob \/ NextEntry
    BY <1>3, <2>1 DEF JobStep, Batch, Query, Resolve, NextPage, AutoTagStep, TagFilePanics, HasFile,
         TagFile, IdentifyStep, FindScene, Scrape, ModifyScene, NextScene, Identifies,
         AddInv, EntriesFit, Ended
  <2>4. CASE CancelJob \/ NextEntry
    <3>1. UNCHANGED <<there, links, studio>>
      BY <1>3, <2>1, <2>4 DEF JobStep, Batch, AutoTagStep, TagFilePanics, TagFile, HasFile, AskFor,
           TagSubject, NextEntry, CancelJob, IdentifyStep, FindScene, Scrape, ModifyScene, NextScene,
           Identifies, Ended, libVars
    <3>2. UNCHANGED <<batch, todo>>
      BY <2>4 DEF CancelJob, NextEntry
    <3>3. \/ cancelled' = TRUE
          \/ pc = "each" /\ pc' = "query" /\ batch = <<>> /\ UNCHANGED cancelled
      BY <2>4 DEF CancelJob, NextEntry
    <3> QED
      BY <2>1, <2>2, <3>1, <3>2, <3>3, RestLosesNone
  <2> QED
    BY <2>1, <2>2, <2>3, <2>4, AskingLosesNone, TaggingLosesNone
<1> QED
  BY <1>1, <1>2, <1>3 DEF Next

-----------------------------------------------------------------------------
(* Everything is reached.                                                  *)

ReachInv == AddInv /\ LibraryStays /\ PageInv /\ FilesInv /\ SpecificInv

LEMMA ReachInvHolds == Spec => []ReachInv
<1>1. Init => ReachInv
  <2>1. Init => FilesInv
    BY DEF Init, JobInit, FilesInv
  <2> QED
    BY <2>1, AddInitial, StaysInitially, PagesInitially, SpecificInitially DEF ReachInv
<1>2. ReachInv /\ [Next]_vars => ReachInv'
  <2> SUFFICES ASSUME ReachInv, [Next]_vars PROVE ReachInv'
    OBVIOUS
  <2>1. AddInv /\ LibraryStays /\ PageInv /\ FilesInv /\ SpecificInv
    BY DEF ReachInv
  <2>2. AddInv'
    <3>1. CASE UNCHANGED vars
      BY <2>1, <3>1 DEF AddInv, LibraryFits, CacheFits, EntriesFit, AskedIds, vars, libVars, histVars, jobVars
    <3> QED
      BY <2>1, <3>1, UsersKeepAddInv, JobKeepsAddInv DEF Next
  <2>3. PageInv'
    <3>1. CASE UNCHANGED vars
      <4>1. UNCHANGED <<there, studio, organized, left, touched, input, pc, kinds, page, ids, batch, cancelled, visited>>
        BY <3>1 DEF vars, libVars, histVars, jobVars
      <4>2. Current' = Current
        BY <4>1, QueryStays
      <4> QED
        BY <2>1, <4>1, <4>2 DEF PageInv, PagesFit, RowsFit, NoGap, PageOf, Pages, Kinds, ReadKinds, Rows,
             Steady, Marks, Identifies
    <3> QED
      BY <2>1, <3>1, UsersKeepPages, JobsKeepPages DEF Next
  <2> QED
    BY <2>1, <2>2, <2>3, LibraryStaysHolds, FilesStaySatisfied, NoneIsLost DEF ReachInv
<1> QED
  BY <1>1, <1>2, PTL DEF Spec

(***************************************************************************)
(* A job that is not cancelled reaches everything, page by page, as long   *)
(* as no row is taken out of its queries: for any library, input, size of  *)
(* the pages and edits of users.                                           *)
(***************************************************************************)
THEOREM EverythingIsReached == Spec => []AllReached
<1>1. ReachInv => AllReached
  <2> SUFFICES ASSUME ReachInv, Finished PROVE AllReached
    BY DEF AllReached
  <2>1. pc = "done" /\ ~cancelled /\ ~left /\ input \in Inputs
    BY DEF Finished, ReachInv, AddInv, LibraryFits
  <2>2. input.kind \in {"files", "specific", "identify", "ids"}
    BY <2>1, BatchAssumption
  <2>3. ASSUME Pages, Steady, NEW K \in ReadKinds
        PROVE  K \cap there \subseteq visited
    <3>1. NoGap
      BY <2>3 DEF ReachInv, PageInv
    <3>2. kinds = <<>>
      BY <2>1, <3>1 DEF NoGap
    <3> QED
      BY <2>3, <3>1, <3>2 DEF NoGap
  <2>4. ASSUME NEW o \in (Objects \cap there) \ touched
        PROVE  Satisfied(o)
    <3>1. CASE input.kind = "files"
      <4>1. Pages /\ Steady /\ ReadKinds = Kinds
        BY <2>1, <3>1 DEF Pages, Steady, Marks, Identifies, ReadKinds
      <4>2. o \in visited
        BY <2>3, <4>1 DEF Kinds, Objects
      <4> QED
        BY <2>1, <3>1, <4>2 DEF ReachInv, FilesInv
    <3>2. CASE input.kind = "specific"
      <4>1. todo = <<>>
        BY <2>1, <3>2 DEF ReachInv, SpecificInv
      <4>2. ASSUME NEW e \in Range(input.ids), NEW x \in AskedBy(e) \ Newcomers
            PROVE  DoneWith(x)
        <5>1. ~(\E j \in DOMAIN todo : todo[j] = e)
          BY <4>1
        <5> QED
          BY <2>1, <3>2, <5>1 DEF ReachInv, SpecificInv
      <4>3. ASSUME NEW x \in Calls(o)
            PROVE  /\ x \in Attachable => x \in Linked(o)
                   /\ x \in Studios => studio[o] # None
        <5>1. x \in Matching[o] /\ x \notin Newcomers /\ x \in Sought
          BY DEF Calls
        <5>2. Sought = UNION {AskedBy(e) : e \in Range(input.ids)}
          BY <3>2 DEF Sought
        <5>3. PICK S \in {AskedBy(e) : e \in Range(input.ids)} : x \in S
          BY <5>1, <5>2
        <5>4. PICK e \in Range(input.ids) : x \in AskedBy(e)
          BY <5>3
        <5> QED
          BY <4>2, <5>1, <5>4 DEF DoneWith
      <4> QED
        BY <4>3 DEF Satisfied
    <3>3. CASE input.kind \in {"identify", "ids"}
      <4>1. Calls(o) = {}
        BY <3>3 DEF Calls, Sought
      <4> QED
        BY <4>1 DEF Satisfied
    <3> QED
      BY <2>2, <3>1, <3>2, <3>3
  <2>5. ASSUME input.kind = "identify", ~input.setOrganized
        PROVE  Scenes \cap there \subseteq visited
    BY <2>1, <2>3, <2>5 DEF Pages, Steady, Marks, ReadKinds
  <2> QED
    BY <2>4, <2>5 DEF AllReached, Satisfied, Calls
<1> QED
  BY <1>1, ReachInvHolds, PTL
=============================================================================
