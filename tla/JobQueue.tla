------------------------------ MODULE JobQueue ------------------------------
(***************************************************************************)
(* What the job manager promises to the code that submits jobs, with no    *)
(* slice, goroutine, lock or channel: IDs are handed out in order, "jobs   *)
(* are executed one at a time" (pkg/job/manager.go:12) in the order of     *)
(* their IDs, a job that waits may be withdrawn and then never runs, and   *)
(* every job that is not withdrawn is executed to its end.                 *)
(***************************************************************************)
EXTENDS Naturals

CONSTANT MaxJobs    \* bound: how many jobs are ever submitted

VARIABLES
    issued,     \* the last ID handed out
    waiting,    \* IDs of the jobs that may still run
    active,     \* IDs of the jobs being executed
    over        \* IDs of the jobs that ended or were withdrawn

vars == <<issued, waiting, active, over>>

Init ==
    /\ issued = 0
    /\ waiting = {}
    /\ active = {}
    /\ over = {}

Enqueue ==
    /\ issued < MaxJobs
    /\ issued' = issued + 1
    /\ waiting' = waiting \cup {issued + 1}
    /\ UNCHANGED <<active, over>>

\* The oldest waiting job is executed when no other is.
Begin ==
    /\ active = {}
    /\ \E j \in waiting :
        /\ \A k \in waiting : j <= k
        /\ active' = {j}
        /\ waiting' = waiting \ {j}
    /\ UNCHANGED <<issued, over>>

\* The active job ends, by itself or because it was told to.
End ==
    /\ active # {}
    /\ over' = over \cup active
    /\ active' = {}
    /\ UNCHANGED <<issued, waiting>>

\* Jobs are cancelled before they began.
Withdraw ==
    /\ \E S \in SUBSET waiting :
        /\ S # {}
        /\ waiting' = waiting \ S
        /\ over' = over \cup S
    /\ UNCHANGED <<issued, active>>

Next == Enqueue \/ Begin \/ End \/ Withdraw

Fairness == WF_vars(Begin) /\ WF_vars(End)

Spec == Init /\ [][Next]_vars /\ Fairness

=============================================================================
