------------------------------ MODULE TagImport -----------------------------
(***************************************************************************)
(* The import of tags (ImportTags and ImportTag of                         *)
(* internal/manager/task_import.go, pkg/tag/import.go, manager/import.go). *)
(* Tags refer to their parents by name.  A tag whose parent does not exist *)
(* yet is kept in pendingParent under that parent, and imported in the     *)
(* transaction of the parent, recursively; those still pending in the end  *)
(* are imported with the user's choice for missing parents.  Users may     *)
(* edit tags between the transactions.                                     *)
(***************************************************************************)
EXTENDS TagHierarchy, Naturals, Sequences, FiniteSetsExt, Functions

CONSTANTS
  Plans,        \* the imports there can be
  MaxDepth      \* bound: calls of ImportTag inside each other until the
                \* stack of the goroutine overflows

ASSUME ImportAssumption ==
  /\ MaxDepth \in Nat
  /\ Plans \subseteq [order : Seq(Tags), parents : [Tags -> Seq(Tags)],
                      invalid : SUBSET Tags,
                      reset : BOOLEAN, editing : BOOLEAN,
                      duplicate : {"FAIL", "IGNORE", "OVERWRITE"},
                      missing : {"FAIL", "IGNORE", "CREATE"}]

VARIABLES
  plan,         \* the files and the choices, the same during the import
  phase,        \* "ready", "first", "second", "over" or "crashed"
  next,         \* the position in mappings.Tags
  pending,      \* pendingParent: name -> tags that wait for it
  orphans,      \* the second phase's list
  stack,        \* calls of ImportTag: tag and children still to import
  saved,        \* the tables at the begin of the transaction
  cancelled,    \* the job's context
  edited        \* a user has changed a tag since the import began

importVars == <<phase, next, pending, orphans, stack, saved>>
vars == <<tagVars, importVars, plan, cancelled, edited>>

NoTables == <<{}, {}>>

ImportInit ==
  /\ plan \in Plans
  /\ phase = "ready" /\ next = 1
  /\ pending = [t \in Tags |-> <<>>] /\ orphans = <<>>
  /\ stack = <<>> /\ saved = NoTables
  /\ cancelled = FALSE /\ edited = FALSE

Init == TagInit /\ ImportInit

-----------------------------------------------------------------------------
(* performImport and the importer's PostImport *)

Skipped(t) == t \in tags /\ plan.duplicate = "IGNORE"
Refused(t) == t \in tags /\ plan.duplicate = "FAIL"

MissingRefBehaviour == IF phase = "first" THEN "FAIL" ELSE plan.missing

\* Positions of t's parents that do not exist when t does.
Missing(t) == {i \in DOMAIN plan.parents[t] :
                 plan.parents[t][i] \notin tags \cup {t}}
LacksParent(t) ==
  /\ ~Skipped(t) /\ ~Refused(t)
  /\ MissingRefBehaviour = "FAIL" /\ Missing(t) # {}

\* The row is created or overwritten, and its parents set.  Nobody validates.
Store(t) ==
  LET parents == Range(plan.parents[t])
  IN /\ tags' = tags \cup {t}
                  \cup (IF MissingRefBehaviour = "CREATE" THEN parents ELSE {})
     /\ relations' = UpdateParentTags(relations, t, parents \cap tags')

\* Mutant: only the last one waits.
WaitAlone(t, m) == [pending EXCEPT ![m] = <<t>>]

\* t waits for its parent m.
Wait(t, m) == [pending EXCEPT ![m] = Append(@, t)]
FirstMissing(t) == plan.parents[t][Min(Missing(t))]

RollBack ==
  tags' = saved[1] /\ relations' = saved[2] /\ saved' = NoTables /\ stack' = <<>>

-----------------------------------------------------------------------------
(* ImportTag *)

\* t is imported inside the calls in outer, then those that wait for it.
Enter(t, outer) ==
  /\ ~Refused(t) /\ ~LacksParent(t)
  /\ Len(outer) < MaxDepth
  /\ IF Skipped(t) THEN UNCHANGED tagVars ELSE Store(t)
  /\ stack' = <<[tag |-> t,
                 children |-> IF phase = "first" THEN pending[t] ELSE <<>>]>>
              \o outer
  /\ UNCHANGED pending

\* The transaction cannot begin, or its function returns another error.
Fails(t) == cancelled \/ t \in plan.invalid \/ Refused(t)

\* Mutant: in the second phase, too, it is made to wait.
BeginAgain(t) ==
  /\ stack = <<>>
  /\ IF Fails(t) \/ LacksParent(t)
     THEN /\ pending' = IF ~Fails(t) THEN Wait(t, FirstMissing(t)) ELSE pending
          /\ UNCHANGED <<tagVars, stack, saved>>
     ELSE saved' = tagVars /\ Enter(t, <<>>)

\* A transaction of its own for t; an error is logged, or t made to wait.
Begin(t) ==
  /\ stack = <<>>
  /\ IF Fails(t) \/ LacksParent(t)
     THEN /\ pending' = IF ~Fails(t) /\ phase = "first"
                        THEN Wait(t, FirstMissing(t)) ELSE pending
          /\ UNCHANGED <<tagVars, stack, saved>>
     ELSE saved' = tagVars /\ Enter(t, <<>>)

\* What waits for the other parent is the tag whose child it is (line 439).
WaitAgain(outer, t) == Wait(outer[1].tag, FirstMissing(t))

\* The next of the tags that wait for the one just imported.
ImportChild ==
  /\ stack # <<>> /\ stack[1].children # <<>>
  /\ LET t == Head(stack[1].children)
         outer == [stack EXCEPT ![1].children = Tail(@)]
     IN \/ Enter(t, outer) /\ UNCHANGED saved
        \/ /\ LacksParent(t)
           /\ tags' = tags \cup {t} /\ UNCHANGED <<relations, saved>>
           /\ pending' = WaitAgain(outer, t) /\ stack' = outer
        \/ /\ Refused(t)
           /\ RollBack /\ UNCHANGED pending
  /\ UNCHANGED <<phase, next, orphans, plan, cancelled, edited>>

\* All are, and the call returns; the outermost one commits.
Return ==
  /\ stack # <<>> /\ stack[1].children = <<>>
  /\ stack' = Tail(stack)
  /\ saved' = IF stack' = <<>> THEN NoTables ELSE saved
  /\ pending' = IF phase = "first" THEN [pending EXCEPT ![stack[1].tag] = <<>>]
                ELSE pending
  /\ UNCHANGED <<tagVars, phase, next, orphans, plan, cancelled, edited>>

\* A goroutine whose stack is exhausted ends the process.
Overflow ==
  /\ stack # <<>> /\ stack[1].children # <<>> /\ Len(stack) = MaxDepth
  /\ RollBack /\ phase' = "crashed"
  /\ UNCHANGED <<next, pending, orphans, plan, cancelled, edited>>

-----------------------------------------------------------------------------
(* ImportTags *)

\* The full import begins with an empty database.
StartImport ==
  /\ phase = "ready"
  /\ phase' = "first"
  /\ IF plan.reset THEN tags' = {} /\ relations' = {} ELSE UNCHANGED tagVars
  /\ UNCHANGED <<next, pending, orphans, stack, saved, plan, cancelled, edited>>

ImportNext ==
  /\ phase = "first" /\ next <= Len(plan.order)
  /\ Begin(plan.order[next])
  /\ next' = next + 1
  /\ UNCHANGED <<phase, orphans, plan, cancelled, edited>>

FirstPhaseEnds ==
  /\ phase = "first" /\ next > Len(plan.order) /\ stack = <<>>
  /\ phase' = "second"
  /\ UNCHANGED <<tagVars, next, pending, orphans, stack, saved, plan, cancelled,
                 edited>>

\* The range over pendingParent, in any order.
NextOrphans ==
  /\ phase = "second" /\ orphans = <<>> /\ stack = <<>>
  /\ \E p \in Tags :
       /\ pending[p] # <<>>
       /\ orphans' = pending[p]
       /\ pending' = [pending EXCEPT ![p] = <<>>]
  /\ UNCHANGED <<tagVars, phase, next, stack, saved, plan, cancelled, edited>>

ImportOrphan ==
  /\ phase = "second" /\ orphans # <<>>
  /\ Begin(Head(orphans))
  /\ orphans' = Tail(orphans)
  /\ UNCHANGED <<phase, next, plan, cancelled, edited>>

ImportEnds ==
  /\ phase = "second" /\ orphans = <<>> /\ stack = <<>>
  /\ \A p \in Tags : pending[p] = <<>>
  /\ phase' = "over"
  /\ UNCHANGED <<tagVars, next, pending, orphans, stack, saved, plan, cancelled,
                 edited>>

\* The user cancels the job: the transaction is rolled back.
CancelImport ==
  /\ phase \in {"first", "second"} /\ ~cancelled
  /\ cancelled' = TRUE
  /\ IF stack = <<>> THEN UNCHANGED <<tagVars, stack, saved>> ELSE RollBack
  /\ UNCHANGED <<phase, next, pending, orphans, plan, edited>>

UserEdits ==
  /\ plan.editing /\ stack = <<>> /\ phase \notin {"over", "crashed"}
  /\ Edit
  /\ edited' = (edited \/ phase # "ready")
  /\ UNCHANGED <<importVars, plan, cancelled>>

ImportStep ==
  \/ StartImport \/ ImportNext \/ FirstPhaseEnds \/ NextOrphans
  \/ ImportOrphan \/ ImportEnds \/ ImportChild \/ Return \/ Overflow

Next == ImportStep \/ CancelImport \/ UserEdits

\* The job runs; nothing is assumed of the user.
Spec == Init /\ [][Next]_vars /\ WF_vars(ImportStep)
-----------------------------------------------------------------------------
FileTags == Range(plan.order)
FileLinks == {e \in Tags \X FileTags : e[1] \in Range(plan.parents[e[2]])}

\* The tags that the files describe together with all their ancestors.
Whole == {t \in FileTags :
            FindAllAncestors(Tags, FileLinks, t) \subseteq FileTags \ plan.invalid}

Restored == \A t \in Whole :
  /\ t \in tags
  /\ plan.reset \/ plan.duplicate = "OVERWRITE"
       => ParentsIn(relations, t) = Range(plan.parents[t])

Undisturbed == phase = "over" /\ ~edited /\ ~cancelled

(***************************************************************************)
(* Files in which no tag has two parents can be imported in any order:     *)
(* in the end every tag whose ancestors are in the files is there, and has *)
(* its parent if the import may set it, though others are invalid and have *)
(* children that wait in vain (ImportTags, ImportTag).                     *)
(***************************************************************************)
ForestsAreRestored ==
  Undisturbed /\ (\A t \in FileTags : Len(plan.parents[t]) <= 1) => Restored

\* No tag lists one parent before another that comes earlier in the files: parents are
\* listed in the order of the files, as an export lists them.  (With 1 listing 3 before
\* 2, and 3 the parent of 2, ImportTag of 3 and 2 call each other without end, unless
\* duplicates are refused.)
InFileOrder == \A t \in Tags, i, j \in DOMAIN plan.order :
  LET listed == plan.parents[t]
  IN \A k, l \in DOMAIN listed :
       listed[k] = plan.order[i] /\ listed[l] = plan.order[j] /\ i < j => k < l
=============================================================================
