----------------------------- MODULE HashLocks -----------------------------
(***************************************************************************)
(* What MutexManager promises: a key has at most one holder, whoever       *)
(* acquires it finds it free, and a task gives back all its keys at once,  *)
(* when it closes the channel it claimed them with.                        *)
(***************************************************************************)
CONSTANTS Tasks, Keys

VARIABLE holders    \* key -> the tasks that hold it

Init == holders = [k \in Keys |-> {}]

Acquire(t, k) ==
  /\ holders[k] = {}
  /\ holders' = [holders EXCEPT ![k] = {t}]

Release(t) == holders' = [k \in Keys |-> holders[k] \ {t}]

Next == \E t \in Tasks : Release(t) \/ \E k \in Keys : Acquire(t, k)

Spec == Init /\ [][Next]_holders
=============================================================================
