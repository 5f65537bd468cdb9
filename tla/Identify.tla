------------------------------ MODULE Identify ------------------------------
(***************************************************************************)
(* The identify job (internal/manager/task_identify.go, internal/identify):*)
(* a scene is looked up in the sources, outside of any transaction, and    *)
(* then changed in one, as the options of its fields say.  What a source   *)
(* answers is matched by name with what the library holds at that moment;  *)
(* the rest is created if the options allow.                               *)
(*                                                                         *)
(* Of a scene's fields there are the studio, which has one value and       *)
(* stands for title, date, details and URL as well, the performers and     *)
(* tags, which have many and stand for the stash ids, and the flag.        *)
(***************************************************************************)
EXTENDS Library

CONSTANT Answers   \* sets of names that a source may come back with

Strategies == {"IGNORE", "MERGE", "OVERWRITE"}

ASSUME IdentifyAssumption == \A j \in Inputs :
  j.kind \in {"identify", "ids"} => {j.studio.strategy, j.performers.strategy, j.tags.strategy} \subseteq Strategies

Identifies == input.kind \in {"identify", "ids"}

\* Scenes given by their ids are read one at a time; the job fails at one
\* that is not there.
FindScene ==
  /\ input.kind = "ids" /\ pc = "query"
  /\ IF todo # <<>> /\ Head(todo) \in there
     THEN /\ batch' = <<RowOf(Head(todo))>>
          /\ todo' = Tail(todo) /\ pc' = "each"
     ELSE pc' = "done" /\ UNCHANGED <<batch, todo>>
  /\ UNCHANGED <<input, kinds, page, ids, cache, found, cancelled, visited>>
  /\ UNCHANGED libVars

\* Bound: there are ids left for what may have to be created.
HasIds(names) ==
  \A name \in names : \E x \in Subjects \ gone : NameOf[x] = name

\* Rows by the name, and the names that have none (match.Scraped*).
Scraped(names) ==
  LET stored == {x \in there \cap Subjects : NameOf[x] \in names}
  IN [stored |-> stored, missing |-> names \ {NameOf[x] : x \in stored}]

\* An empty answer is that of sources that found nothing or failed.
Scrape ==
  /\ Identifies /\ pc = "each" /\ batch # <<>>
  /\ visited' = visited \cup {Head(batch).id}
  /\ \E names \in {A \in Answers : HasIds(A)} :
       IF names = {} THEN batch' = Tail(batch) /\ UNCHANGED <<pc, found>>
       ELSE /\ found' = Scraped(names) /\ pc' = "modify"
            /\ UNCHANGED batch
  /\ UNCHANGED <<input, kinds, page, ids, todo, cache, cancelled>>
  /\ UNCHANGED libVars

ShouldSet(strategy, hasExistingValue) ==
  /\ strategy # "IGNORE"
  /\ ~hasExistingValue \/ strategy = "OVERWRITE"

\* createMissingPerformer and its siblings.
NewRow(name, free) == CHOOSE x \in free : NameOf[x] = name

\* Rows for the names that are missing, where they may be created.
NewRows(kind, create) ==
  LET free == kind \ (there \cup gone)
  IN IF ~create THEN {}
     ELSE {NewRow(n, free) : n \in {NameOf[x] : x \in free} \cap found.missing}

\* The row that was read before the scene was scraped says what is set.
NewStudio(row) ==
  LET o == input.studio
      stored == found.stored \cap Studios
  IN IF ~ShouldSet(o.strategy, row.studio # None) THEN {}
     ELSE IF stored # {} THEN stored \ {row.studio}
     ELSE NewRows(Studios, o.create)

\* Lists are read again in the transaction.
NewList(id, kind, o) ==
  LET scraped == (found.stored \cap kind) \cup NewRows(kind, o.create)
  IN IF ~ShouldSet(o.strategy, FALSE) \/ scraped = {} THEN links[id]
     ELSE IF o.strategy = "MERGE" THEN AppendUnique(links[id], scraped)
     ELSE Replaced(links[id], kind, scraped)

Created(row) ==
  LET lists == [p |-> input.performers, t |-> input.tags]
  IN (NewStudio(row) \ found.stored)
       \cup (IF ShouldSet(lists.p.strategy, FALSE)
             THEN NewRows(Performers, lists.p.create) ELSE {})
       \cup (IF ShouldSet(lists.t.strategy, FALSE)
             THEN NewRows(Tags, lists.t.create) ELSE {})

\* Names of performers and studios are unique, those of tags only by the
\* checks in the mutations.
NameTaken(x) == x \notin Tags /\ SameName(x) # {}

\* Everything that is to be set, or nothing when a row is not there any more or
\* a name is taken.
ModifyScene ==
  /\ Identifies /\ pc = "modify"
  /\ LET row == Head(batch)
         o == row.id
         new == Created(row)
         list == [x \in Attachable |->
                    IF x \in Performers
                    THEN NewList(o, Performers, input.performers)[x]
                    ELSE NewList(o, Tags, input.tags)[x]]
         sets == input.setOrganized /\ ~row.organized
         needed == {o} \cup NewStudio(row)
                     \cup {x \in Attachable : list[x] > 0}
         empty == NewStudio(row) = {} /\ list = links[o] /\ ~sets
         fails == (\E x \in new : NameTaken(x)) \/ ~(needed \subseteq there \cup new)
     IN IF empty \/ fails THEN UNCHANGED <<there, links, studio, organized>>
        ELSE /\ there' = there \cup new
             /\ links' = [links EXCEPT ![o] = list]
             /\ studio' = IF NewStudio(row) = {} THEN studio
                          ELSE [studio EXCEPT ![o] = CHOOSE s \in NewStudio(row) : TRUE]
             /\ organized' = IF sets THEN [organized EXCEPT ![o] = TRUE]
                             ELSE organized
  /\ batch' = Tail(batch) /\ found' = None
  /\ pc' = "each"
  /\ UNCHANGED <<input, kinds, page, ids, todo, cache, cancelled, visited>>
  /\ UNCHANGED primary

NextScene ==
  /\ input.kind = "ids" /\ pc = "each" /\ batch = <<>>
  /\ pc' = "query"
  /\ UNCHANGED <<input, kinds, page, ids, batch, todo, cache, found,
                 cancelled, visited>>
  /\ UNCHANGED libVars

IdentifyStep == FindScene \/ Scrape \/ ModifyScene \/ NextScene
=============================================================================
