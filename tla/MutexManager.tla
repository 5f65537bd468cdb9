---------------------------- MODULE MutexManager ----------------------------
(***************************************************************************)
(* pkg/utils/mutex.go.  A task claims keys with its done channel; closing  *)
(* the channel gives all of them back.  The map of claims travels through  *)
(* a channel of capacity one, so whoever has taken it is alone with it:    *)
(* one look at the map is one step.  Waiting for another task's channel is *)
(* not, and the goroutine that cleans an entry up runs some time after the *)
(* channel is closed.                                                      *)
(***************************************************************************)
CONSTANTS Tasks, Keys, NoTask

ASSUME NoTaskAssumption == NoTask \notin Tasks

VARIABLES
  entry,      \* the map: key -> the task whose channel is stored, or NoTask
  closed,     \* the tasks whose done channel is closed
  calls       \* calls[t][k]: how far task t's Claim of k has come

mutexVars == <<entry, closed, calls>>

(***************************************************************************)
(* at: "idle" before the call, "trying" about to take the map, "waiting"   *)
(* for the channel seen, "installed" when its own channel is in the map    *)
(* and the one it replaced is still to be waited for, "held" when Claim    *)
(* has returned, "clean" when the cleanup goroutine has run.               *)
(***************************************************************************)
Call == [at : {"idle", "trying", "waiting", "installed", "held", "clean"},
         seen : Tasks \cup {NoTask}]

MutexTypeOK ==
  /\ entry \in [Keys -> Tasks \cup {NoTask}]
  /\ closed \subseteq Tasks
  /\ calls \in [Tasks -> [Keys -> Call]]

MutexInit ==
  /\ entry = [k \in Keys |-> NoTask]
  /\ closed = {}
  /\ calls = [t \in Tasks |-> [k \in Keys |-> [at |-> "idle", seen |-> NoTask]]]

-----------------------------------------------------------------------------
\* Mutant: whoever has waited once takes the entry, whosever it is by then.
AvailableAfterWait(t, k) == entry[k] = NoTask \/ calls[t][k].seen # NoTask

\* The entry is free for t: none, or the one t has already waited for.
Available(t, k) == entry[k] \in {NoTask, calls[t][k].seen}

\* One turn with the map, of Claim(k) by t.
Attempt(t, k) ==
  /\ calls[t][k].at \in {"idle", "trying"}
  /\ entry' = IF Available(t, k) THEN [entry EXCEPT ![k] = t] ELSE entry
  /\ calls' = [calls EXCEPT ![t][k] =
       IF entry[k] = NoTask
       THEN [@ EXCEPT !.at = "held"]
       ELSE [at   |-> IF Available(t, k) THEN "installed" ELSE "waiting",
             seen |-> entry[k]]]
  /\ UNCHANGED closed

\* The channel t waits for is closed: it tries again, or Claim returns.
WaitOver(t, k) ==
  /\ calls[t][k].at \in {"waiting", "installed"}
  /\ calls[t][k].seen \in closed
  /\ calls' = [calls EXCEPT ![t][k].at =
                 IF @ = "waiting" THEN "trying" ELSE "held"]
  /\ UNCHANGED <<entry, closed>>

Claim(t, k) == Attempt(t, k) \/ WaitOver(t, k)

\* close(done), by whoever made the claims.
Close(t) ==
  /\ closed' = closed \cup {t}
  /\ UNCHANGED <<entry, calls>>

\* Mutant: the entry is deleted although another channel has replaced it.
CleanUpAny(t, k) ==
  /\ calls[t][k].at = "held"
  /\ t \in closed
  /\ entry' = [entry EXCEPT ![k] = NoTask]
  /\ calls' = [calls EXCEPT ![t][k].at = "clean"]
  /\ UNCHANGED closed

\* The goroutine of a returned Claim, once the channel is closed.
CleanUp(t, k) ==
  /\ calls[t][k].at = "held"
  /\ t \in closed
  /\ entry' = [entry EXCEPT ![k] = IF @ = t THEN NoTask ELSE @]
  /\ calls' = [calls EXCEPT ![t][k].at = "clean"]
  /\ UNCHANGED closed

\* Nothing is asked of the callers, not even that they claim before they close.
MutexNext == \E t \in Tasks :
  Close(t) \/ \E k \in Keys : Claim(t, k) \/ CleanUp(t, k)

MutexSpec == MutexInit /\ [][MutexNext]_mutexVars

-----------------------------------------------------------------------------
\* t has k, from the moment its channel is in the map until it is closed.
Holds(t, k) == calls[t][k].at \in {"installed", "held"} /\ t \notin closed

(***************************************************************************)
(* A key has one holder: although a claim is granted on a stale entry and  *)
(* entries are cleaned up late, no two tasks work under the same hash      *)
(* (Claim, mutex.go:20-22).                                                *)
(***************************************************************************)
Exclusive == \A t, u \in Tasks, k \in Keys :
  Holds(t, k) /\ Holds(u, k) => t = u

\* Why: a holder's channel is the entry, and a channel waited for is closed.
HolderIsEntry == \A t \in Tasks, k \in Keys : Holds(t, k) => entry[k] = t

SeenIsClosed == \A t \in Tasks, k \in Keys :
  /\ calls[t][k].at = "idle" => calls[t][k].seen = NoTask
  /\ calls[t][k].at \in {"trying", "installed"} => calls[t][k].seen \in closed

MutexInv == MutexTypeOK /\ HolderIsEntry /\ SeenIsClosed

Holders == [k \in Keys |-> {t \in Tasks : Holds(t, k)}]

Locks == INSTANCE HashLocks WITH holders <- Holders

\* The manager's steps are acquisitions of free keys, releases and stutters.
ImplementsLocks == Locks!Spec
=============================================================================
