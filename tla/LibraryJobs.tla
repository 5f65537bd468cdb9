---------------------------- MODULE LibraryJobs ----------------------------
(***************************************************************************)
(* Auto-tag and identify jobs at work on a library that users change       *)
(* meanwhile.  The job manager runs one job at a time.                     *)
(***************************************************************************)
EXTENDS AutoTag, Identify

CONSTANT Newcomers   \* subjects that may not be there at first

ASSUME NewcomersAssumption == \A b \in Beginnings : Subjects \ Newcomers \subseteq b.there

vars == <<libVars, histVars, jobVars>>

Init == LibraryInit /\ JobInit

Batch == (Query \/ Resolve \/ NextPage \/ CancelJob) /\ UNCHANGED libVars

JobStep ==
  /\ Batch \/ AutoTagStep \/ IdentifyStep
  /\ UNCHANGED histVars

UserStep == pc \notin Ended /\ UserEdits /\ UNCHANGED jobVars

Next == JobStep \/ UserStep

\* The job's goroutine runs on; users do as they like.
Spec == Init /\ [][Next]_vars /\ WF_vars(JobStep)

-----------------------------------------------------------------------------
TypeOK ==
  /\ LibraryTypeOK
  /\ pc \in {"query", "resolve", "each", "modify"} \cup Ended
  /\ page \in Nat \ {0}
  /\ Len(ids) <= BatchSize
  /\ cancelled => pc = "done"

(***************************************************************************)
(* A job takes nothing away: whatever users do between its reads and its   *)
(* transactions, auto-tag adds links that the path calls for and sets a    *)
(* studio only where none is set (addSceneStudio and its siblings), and    *)
(* identify removes no performer or tag unless the field's strategy is to  *)
(* overwrite (performers and tags, internal/identify/scene.go:53-150).     *)
(***************************************************************************)
Keeps(kind, o) == Linked(o) \cap kind \subseteq Linked(o)'
JobsOnlyAdd ==
  [][edits' = edits =>
       \A o \in Objects :
         /\ ~Identifies =>
              /\ Linked(o) \subseteq Linked(o)'
              /\ Linked(o)' \ Linked(o) \subseteq
                   Matching[o] \ (Ignored \ (SingleLetter \cup {e.id : e \in Range(input.ids)}))
              /\ studio[o] # None => studio'[o] = studio[o]
              /\ studio'[o] # studio[o] => studio'[o] \in Matching[o]
         /\ Identifies =>
              /\ input.performers.strategy # "OVERWRITE" => Keeps(Performers, o)
              /\ input.tags.strategy # "OVERWRITE" => Keeps(Tags, o)
    ]_vars

Finished == pc = "done" /\ ~cancelled /\ ~left

\* Who is asked for by an entry of the input.
AskedBy(e) == IF e.id = Everything THEN RowsOf[e.of] \ Ignored ELSE {e.id}

Sought ==
  IF input.kind = "files"
  THEN (UNION {RowsOf[k] : k \in {l \in DOMAIN RowsOf : input[l]}}) \ Ignored
  ELSE IF input.kind = "specific"
  THEN UNION {AskedBy(e) : e \in Range(input.ids)}
  ELSE {}

(***************************************************************************)
(* A job that is not cancelled reaches everything, page by page, as long   *)
(* as no row is taken out of its queries: auto-tag leaves no object that   *)
(* users did not change without a link that its path calls for, or without *)
(* a studio, and identify passes over no scene, if it does not mark them   *)
(* as organized itself.                                                    *)
(***************************************************************************)
AllReached ==
  Finished =>
    /\ \A o \in (Objects \cap there) \ touched :
         LET S == (Matching[o] \cap Sought) \ Newcomers
         IN /\ S \cap Attachable \subseteq Linked(o)
            /\ S \cap Studios # {} => studio[o] # None
    /\ input.kind = "identify" /\ ~input.setOrganized => Scenes \cap there \subseteq visited

(***************************************************************************)
(* "This task iterates through your Scenes and attempts to identify the    *)
(* scene" (ui/v2.5/src/docs/en/Identify.md:3), whatever the options are.   *)
(***************************************************************************)
IdentifyReachesAll ==
  Finished /\ input.kind = "identify" => Scenes \cap there \subseteq visited

(***************************************************************************)
(* Every job comes to its end, or to the server's.                         *)
(***************************************************************************)
JobEnds == <>(pc \in Ended)
=============================================================================
