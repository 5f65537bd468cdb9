----------------------------- MODULE JobManager -----------------------------
(***************************************************************************)
(* pkg/job: the queue that every long task of the server (scan, generate,  *)
(* clean, import, plugin task, ...) goes through.  One Manager value is    *)
(* shared by the GraphQL resolvers, which add, cancel and list jobs, by    *)
(* the dispatcher goroutine, by one goroutine per dispatched job and by    *)
(* the timers that throttle progress updates.                              *)
(*                                                                         *)
(* Manager.mutex serialises them, so each critical section is one action;  *)
(* the model interleaves the sections, and the steps taken outside them    *)
(* (Cond.Wait, the receive from done, close(done), a context that ends).   *)
(* Jobs are their IDs.  Description, Details and the times are left out.   *)
(***************************************************************************)
EXTENDS Naturals, Sequences, FiniteSets

CONSTANTS
    MaxJobs,        \* bound: how many jobs are ever submitted
    MaxGraveyard,   \* maxGraveyardSize
    Subscribers,    \* the subscriptions that may be made
    ChanCap,        \* capacity of a subscription's channels (100)
    MaxUpdates,     \* bound: progress reports of one job
    API             \* which exported operations the clients call

ASSUME BoundsAssumption ==
    /\ MaxJobs \in Nat
    /\ MaxGraveyard \in Nat \ {0}
    /\ ChanCap \in Nat \ {0}
    /\ MaxUpdates \in Nat

ASSUME APIAssumption ==
    API \subseteq {"Add", "Start", "CancelJob", "CancelAll", "Stop"}

Jobs == 1..MaxJobs

\* "NEW" stands for a job that has not been submitted yet.
Status == {"NEW", "READY", "RUNNING", "STOPPING", "FINISHED", "CANCELLED"}

Live == {"RUNNING", "STOPPING"}
Over == {"FINISHED", "CANCELLED"}

VARIABLES
    queue,          \* Manager.queue
    graveyard,      \* Manager.graveyard
    lastID,         \* Manager.lastID
    stop,           \* Manager.stop: "open", "closed", or "closing" while Stop is under way
    status,         \* Job.Status
    ctxDone,        \* cancelFunc was called: the context of Execute is done
    exec,           \* the goroutine made by dispatch, per job
    dispatcher,     \* where the dispatcher goroutine is
    current,        \* its j, the job whose done channel it waits for

    progress,       \* Job.Progress, as the number of reports made
    notified,       \* the progress last handed to notifyJobUpdate
    throttled,      \* time.Since(lastUpdate) < updateThrottleLimit
    timer,          \* updater.updateTimer # nil
    callbacks,      \* AfterFunc callbacks still to run

    subscriptions,  \* Manager.subscriptions
    subCtx,         \* the context given to Subscribe
    closed,         \* subscriptions whose channels are closed
    newJob, updatedJob, removedJob    \* contents of the channels

jobVars   == <<queue, graveyard, lastID, stop, status, ctxDone, exec,
               dispatcher, current>>
progVars  == <<progress, notified, throttled, timer, callbacks>>
subVars   == <<subscriptions, subCtx, closed>>
chanVars  == <<newJob, updatedJob, removedJob>>
vars      == <<jobVars, progVars, subVars, chanVars>>

Queued == {queue[i] : i \in DOMAIN queue}
Buried == {graveyard[i] : i \in DOMAIN graveyard}

JobCopies == [id : Jobs, status : Status, progress : 0..MaxUpdates]

Init ==
    /\ queue = <<>>
    /\ graveyard = <<>>
    /\ lastID = 0
    /\ stop = "open"
    /\ status = [j \in Jobs |-> "NEW"]
    /\ ctxDone = [j \in Jobs |-> FALSE]
    /\ exec = [j \in Jobs |-> "none"]
    /\ dispatcher = "starting"
    /\ current = 0
    /\ progress = [j \in Jobs |-> 0]
    /\ notified = [j \in Jobs |-> 0]
    /\ throttled = [j \in Jobs |-> FALSE]
    /\ timer = [j \in Jobs |-> FALSE]
    /\ callbacks = [j \in Jobs |-> 0]
    /\ subscriptions = {}
    /\ subCtx = [s \in Subscribers |-> "none"]
    /\ closed = {}
    /\ newJob = [s \in Subscribers |-> <<>>]
    /\ updatedJob = [s \in Subscribers |-> <<>>]
    /\ removedJob = [s \in Subscribers |-> <<>>]

-----------------------------------------------------------------------------
(***************************************************************************)
(* Notifications: select { case ch <- *j: default: } for every             *)
(* subscription.  What does not fit is dropped.                            *)
(***************************************************************************)
JobCopy(j, st, pr) == [id |-> j, status |-> st, progress |-> pr]

Offered(ch, msgs) ==
    LET Fits(q) == IF Len(q) > ChanCap THEN SubSeq(q, 1, ChanCap) ELSE q
    IN  [s \in Subscribers |->
            IF s \in subscriptions THEN Fits(ch[s] \o msgs) ELSE ch[s]]

NotifyNewJob(j) ==
    newJob' = Offered(newJob, <<JobCopy(j, "READY", progress[j])>>)

\* Finished and cancelled jobs are announced by removeJob only.
NotifyJobUpdate(j, st, pr) ==
    updatedJob' = IF st \in Over THEN updatedJob
                                 ELSE Offered(updatedJob, <<JobCopy(j, st, pr)>>)

-----------------------------------------------------------------------------
(***************************************************************************)
(* removeJob, for the queue positions "gone" (one position, none when the  *)
(* job has already left the queue, several in the loop of CancelAll).      *)
(* st gives the statuses that the removed jobs are announced with.         *)
(***************************************************************************)

\* The ways to list a set of positions from the lowest up: there is one.
Ascending(S) ==
    {f \in [1..Cardinality(S) -> S] :
        /\ \A i, k \in DOMAIN f : i < k => f[i] < f[k]
        /\ \A x \in S : \E i \in DOMAIN f : f[i] = x}

Select(q, f) == [i \in DOMAIN f |-> q[f[i]]]

\* Mutant: >= for > in the size check.
NewestButOne(q) ==
    IF Len(q) >= MaxGraveyard THEN SubSeq(q, Len(q) - MaxGraveyard + 2, Len(q)) ELSE q

\* The graveyard keeps the last MaxGraveyard removed jobs.
Newest(q) ==
    IF Len(q) > MaxGraveyard THEN SubSeq(q, Len(q) - MaxGraveyard + 1, Len(q))
                             ELSE q

\* Mutant: the subscriptions are not told.
RemoveJobsSilently(gone, st) ==
    \E stay \in Ascending(DOMAIN queue \ gone), leave \in Ascending(gone) :
        /\ queue' = Select(queue, stay)
        /\ graveyard' = Newest(graveyard \o Select(queue, leave))
        /\ UNCHANGED removedJob

RemoveJobs(gone, st) ==
    \E stay \in Ascending(DOMAIN queue \ gone), leave \in Ascending(gone) :
        LET removed == Select(queue, leave)
            copies  == [i \in DOMAIN removed |->
                          JobCopy(removed[i], st[removed[i]],
                                  progress[removed[i]])]
        IN  /\ queue' = Select(queue, stay)
            /\ graveyard' = Newest(graveyard \o removed)
            /\ removedJob' = Offered(removedJob, copies)

-----------------------------------------------------------------------------
(* The dispatcher goroutine.                                               *)

\* Mutant: any ready job.
IsReady(q, i) == status[q[i]] = "READY"

IsFirstReady(q, i) ==
    /\ status[q[i]] = "READY"
    /\ \A k \in 1..(i - 1) : status[q[k]] # "READY"

\* dispatch: the goroutine it starts is exec[j].
Dispatch(j) ==
    /\ status' = [status EXCEPT ![j] = "RUNNING"]
    /\ exec' = [exec EXCEPT ![j] = "executing"]
    /\ NotifyJobUpdate(j, "RUNNING", progress[j])

\* The top of the dispatcher's loop, up to the next release of the mutex:
\* dispatch the first ready job of q, or Wait when there is none.
ServeOrWait(q) ==
    \/ \E i \in DOMAIN q :
        /\ IsFirstReady(q, i)
        /\ Dispatch(q[i])
        /\ dispatcher' = "running"
        /\ current' = q[i]
    \/ /\ \A i \in DOMAIN q : status[q[i]] # "READY"
       /\ dispatcher' = "waiting"
       /\ current' = 0
       /\ UNCHANGED <<status, exec, updatedJob>>

DispatcherStart ==
    /\ dispatcher = "starting"
    /\ ServeOrWait(queue)
    /\ UNCHANGED <<queue, graveyard, lastID, stop, ctxDone, newJob, removedJob>>
    /\ UNCHANGED <<progVars, subVars>>

\* Wait returns after a Broadcast; the stop channel is looked at only here.
DispatcherWake ==
    /\ dispatcher = "woken"
    /\ \/ /\ stop = "closed"
          /\ dispatcher' = "returned"
          /\ UNCHANGED <<status, exec, current, updatedJob>>
       \/ /\ stop # "closed"
          /\ ServeOrWait(queue)
    /\ UNCHANGED <<queue, graveyard, lastID, stop, ctxDone, newJob, removedJob>>
    /\ UNCHANGED <<progVars, subVars>>

\* Mutants: the dispatcher does not wait for done; does not remove the job.
DispatcherDoneEarly ==
    /\ dispatcher = "running"
    /\ RemoveJobs({i \in DOMAIN queue : queue[i] = current}, status)
    /\ ServeOrWait(queue')
    /\ UNCHANGED <<lastID, stop, ctxDone, newJob, progVars, subVars>>

DispatcherDoneKeeps ==
    /\ dispatcher = "running"
    /\ exec[current] = "done"
    /\ ServeOrWait(queue)
    /\ UNCHANGED <<queue, graveyard, lastID, stop, ctxDone, newJob, removedJob>>
    /\ UNCHANGED <<progVars, subVars>>

\* <-done, removeJob(j) and the next turn of the loop.
DispatcherDone ==
    /\ dispatcher = "running"
    /\ exec[current] = "done"
    /\ RemoveJobs({i \in DOMAIN queue : queue[i] = current}, status)
    /\ ServeOrWait(queue')
    /\ UNCHANGED <<lastID, stop, ctxDone, newJob>>
    /\ UNCHANGED <<progVars, subVars>>

-----------------------------------------------------------------------------
(* The goroutine of a dispatched job.                                      *)

\* Execute returns; onJobFinish.
JobFinish(j) ==
    /\ exec[j] = "executing"
    /\ exec' = [exec EXCEPT ![j] = "finished"]
    /\ status' = [status EXCEPT ![j] =
                    IF status[j] = "STOPPING" THEN "CANCELLED" ELSE "FINISHED"]
    /\ UNCHANGED <<queue, graveyard, lastID, stop, ctxDone, dispatcher, current>>
    /\ UNCHANGED <<progVars, subVars, chanVars>>

CloseDone(j) ==
    /\ exec[j] = "finished"
    /\ exec' = [exec EXCEPT ![j] = "done"]
    /\ UNCHANGED <<queue, graveyard, lastID, stop, status, ctxDone, dispatcher,
                   current>>
    /\ UNCHANGED <<progVars, subVars, chanVars>>

-----------------------------------------------------------------------------
(***************************************************************************)
(* Progress reports.  Execute, and goroutines that outlive it, report      *)
(* through Progress.updated.  Whether the throttle interval is over and    *)
(* when a timer's callback gets the mutex is left to chance.               *)
(***************************************************************************)

\* updater.notifyUpdate
NotifyUpdate(j, pr) ==
    /\ NotifyJobUpdate(j, status[j], pr)
    /\ notified' = [notified EXCEPT ![j] = pr]
    /\ throttled' = [throttled EXCEPT ![j] = TRUE]
    /\ timer' = [timer EXCEPT ![j] = FALSE]

\* Mutant: a throttled report is dropped, no timer is armed for it.
UpdateProgressDrops(j) ==
    /\ exec[j] # "none"
    /\ progress[j] < MaxUpdates
    /\ progress' = [progress EXCEPT ![j] = @ + 1]
    /\ \/ throttled[j] /\ UNCHANGED <<timer, callbacks, notified, throttled, updatedJob>>
       \/ ~throttled[j] /\ NotifyUpdate(j, progress[j] + 1) /\ UNCHANGED callbacks
    /\ UNCHANGED <<jobVars, subVars, newJob, removedJob>>

UpdateProgress(j) ==
    /\ exec[j] # "none"
    /\ progress[j] < MaxUpdates
    /\ progress' = [progress EXCEPT ![j] = @ + 1]
    /\ \/ /\ throttled[j]
          /\ timer' = [timer EXCEPT ![j] = TRUE]
          /\ callbacks' = [callbacks EXCEPT ![j] = IF timer[j] THEN @ ELSE @ + 1]
          /\ UNCHANGED <<notified, throttled, updatedJob>>
       \/ /\ ~throttled[j]
          /\ NotifyUpdate(j, progress[j] + 1)
          /\ UNCHANGED callbacks
    /\ UNCHANGED <<jobVars, subVars, newJob, removedJob>>

TimerCallback(j) ==
    /\ callbacks[j] > 0
    /\ callbacks' = [callbacks EXCEPT ![j] = @ - 1]
    /\ NotifyUpdate(j, progress[j])
    /\ UNCHANGED <<jobVars, subVars, progress, newJob, removedJob>>

\* updateThrottleLimit passes since lastUpdate.
IntervalEnds(j) ==
    /\ throttled[j]
    /\ throttled' = [throttled EXCEPT ![j] = FALSE]
    /\ UNCHANGED <<progress, notified, timer, callbacks>>
    /\ UNCHANGED <<jobVars, subVars, chanVars>>

-----------------------------------------------------------------------------
(* The exported operations.                                                *)

\* Mutant: the length is looked at before the append.
AddOffByOne ==
    /\ "Add" \in API
    /\ lastID < MaxJobs
    /\ lastID' = lastID + 1
    /\ status' = [status EXCEPT ![lastID'] = "READY"]
    /\ queue' = Append(queue, lastID')
    /\ dispatcher' = IF Len(queue) = 1 /\ dispatcher = "waiting"
                     THEN "woken" ELSE dispatcher
    /\ NotifyNewJob(lastID')
    /\ UNCHANGED <<graveyard, stop, ctxDone, exec, current, updatedJob, removedJob>>
    /\ UNCHANGED <<progVars, subVars>>

Add ==
    /\ "Add" \in API
    /\ lastID < MaxJobs
    /\ lastID' = lastID + 1
    /\ status' = [status EXCEPT ![lastID'] = "READY"]
    /\ queue' = Append(queue, lastID')
    /\ dispatcher' = IF Len(queue') = 1 /\ dispatcher = "waiting"
                     THEN "woken" ELSE dispatcher
    /\ NotifyNewJob(lastID')
    /\ UNCHANGED <<graveyard, stop, ctxDone, exec, current, updatedJob, removedJob>>
    /\ UNCHANGED <<progVars, subVars>>

\* Start: dispatched at once; no NewJob message, and nobody waits for done.
Start ==
    /\ "Start" \in API
    /\ lastID < MaxJobs
    /\ lastID' = lastID + 1
    /\ queue' = Append(queue, lastID')
    /\ Dispatch(lastID')
    /\ UNCHANGED <<graveyard, stop, ctxDone, dispatcher, current, newJob, removedJob>>
    /\ UNCHANGED <<progVars, subVars>>

\* Job.cancel: the status it leaves.
AfterCancel(st) ==
    CASE st = "READY"   -> "CANCELLED"
      [] st = "RUNNING" -> "STOPPING"
      [] OTHER          -> st

\* Job.cancel on the jobs S; cancelFunc is nil until the job is dispatched.
Cancel(S) ==
    /\ status' = [j \in Jobs |-> IF j \in S THEN AfterCancel(status[j]) ELSE status[j]]
    /\ ctxDone' = [j \in Jobs |-> ctxDone[j] \/ (j \in S /\ exec[j] # "none")]

CancelJob(j) ==
    /\ "CancelJob" \in API
    /\ j \in Queued
    /\ Cancel({j})
    /\ RemoveJobs({i \in DOMAIN queue : queue[i] = j /\ status'[j] = "CANCELLED"}, status')
    /\ UNCHANGED <<lastID, stop, exec, dispatcher, current, newJob, updatedJob>>
    /\ UNCHANGED <<progVars, subVars>>

(***************************************************************************)
(* The loop of CancelAll and Stop:                                         *)
(*                                                                         *)
(*     for _, j := range m.queue {                                         *)
(*         j.cancel()                                                      *)
(*         if j.Status == StatusCancelled { m.removeJob(j) }               *)
(*     }                                                                   *)
(*                                                                         *)
(* The range runs over the slice as it was, but removeJob shifts the same  *)
(* array down by one, so the element after a removed one is passed over.   *)
(* RangeLoop[i] is the state after i iterations: the array (of positions   *)
(* the jobs had before), len(m.queue), and the positions reached.          *)
(***************************************************************************)
Goes(p) == AfterCancel(status[queue[p]]) = "CANCELLED"

\* append(m.queue[:i], m.queue[i+1:]...), where i is the only element of at.
ShiftDown(array, at, len) ==
    [p \in DOMAIN array |->
        IF \E i \in at : i <= p /\ p < len THEN array[p + 1] ELSE array[p]]

RangeLoop[i \in 0..Len(queue)] ==
    IF i = 0
    THEN [array |-> [p \in DOMAIN queue |-> p], len |-> Len(queue), reached |-> {}]
    ELSE LET s  == RangeLoop[i - 1]
             at == {k \in 1..s.len : s.array[k] = s.array[i] /\ Goes(s.array[i])}
         IN  [array   |-> ShiftDown(s.array, at, s.len),
              len     |-> s.len - Cardinality(at),
              reached |-> s.reached \cup {s.array[i]}]

Reached == {p \in DOMAIN queue : p \in RangeLoop[Len(queue)].reached}

CancelEach ==
    /\ Cancel({queue[p] : p \in Reached})
    /\ RemoveJobs({p \in Reached : status'[queue[p]] = "CANCELLED"}, status')

CancelAll ==
    /\ "CancelAll" \in API
    /\ CancelEach
    /\ UNCHANGED <<lastID, stop, exec, dispatcher, current, newJob, updatedJob>>
    /\ UNCHANGED <<progVars, subVars>>

\* CancelAll, then close(m.stop) with the mutex unlocked.  Nothing wakes the dispatcher.
\* Bound: one call, as a second one panics.
Stop ==
    /\ "Stop" \in API
    /\ stop = "open"
    /\ CancelEach
    /\ stop' = "closing"
    /\ UNCHANGED <<lastID, exec, dispatcher, current, newJob, updatedJob>>
    /\ UNCHANGED <<progVars, subVars>>

CloseStop ==
    /\ stop = "closing"
    /\ stop' = "closed"
    /\ UNCHANGED <<queue, graveyard, lastID, status, ctxDone, exec, dispatcher, current>>
    /\ UNCHANGED <<progVars, subVars, chanVars>>

-----------------------------------------------------------------------------
(* Subscriptions.                                                          *)

Subscribe(s) ==
    /\ subCtx[s] = "none"
    /\ subCtx' = [subCtx EXCEPT ![s] = "live"]
    /\ subscriptions' = subscriptions \cup {s}
    /\ UNCHANGED <<closed, jobVars, progVars, chanVars>>

\* The client goes away: the context given to Subscribe is done.
SubscriberLeaves(s) ==
    /\ subCtx[s] = "live"
    /\ subCtx' = [subCtx EXCEPT ![s] = "done"]
    /\ UNCHANGED <<closed, subscriptions, jobVars, progVars, chanVars>>

\* The goroutine that Subscribe left waiting for ctx.Done().
Unsubscribe(s) ==
    /\ subCtx[s] = "done"
    /\ s \notin closed
    /\ closed' = closed \cup {s}
    /\ subscriptions' = subscriptions \ {s}
    /\ UNCHANGED <<subCtx, jobVars, progVars, chanVars>>

\* The subscriber takes one message from any of its three channels.
Receive(s) ==
    \/ /\ newJob[s] # <<>>
       /\ newJob' = [newJob EXCEPT ![s] = Tail(@)]
       /\ UNCHANGED <<updatedJob, removedJob, jobVars, progVars, subVars>>
    \/ /\ updatedJob[s] # <<>>
       /\ updatedJob' = [updatedJob EXCEPT ![s] = Tail(@)]
       /\ UNCHANGED <<newJob, removedJob, jobVars, progVars, subVars>>
    \/ /\ removedJob[s] # <<>>
       /\ removedJob' = [removedJob EXCEPT ![s] = Tail(@)]
       /\ UNCHANGED <<newJob, updatedJob, jobVars, progVars, subVars>>

-----------------------------------------------------------------------------
Dispatcher == DispatcherStart \/ DispatcherWake \/ DispatcherDone

Next ==
    \/ Dispatcher
    \/ \E j \in Jobs : \/ JobFinish(j) \/ CloseDone(j)
                       \/ UpdateProgress(j) \/ TimerCallback(j) \/ IntervalEnds(j)
                       \/ CancelJob(j)
    \/ Add \/ Start \/ CancelAll \/ Stop \/ CloseStop
    \/ \E s \in Subscribers : \/ Subscribe(s) \/ SubscriberLeaves(s)
                              \/ Unsubscribe(s) \/ Receive(s)

(***************************************************************************)
(* Fairness.  Goroutines that can run do run, and sync.Mutex starves       *)
(* nobody; every Execute is assumed to return.  Clients owe nothing.       *)
(***************************************************************************)
Fairness ==
    /\ WF_vars(Dispatcher)
    /\ \A j \in Jobs : WF_vars(JobFinish(j)) /\ WF_vars(CloseDone(j))
    /\ \A j \in Jobs : WF_vars(TimerCallback(j))
    /\ \A s \in Subscribers : WF_vars(Unsubscribe(s))

Spec == Init /\ [][Next]_vars /\ Fairness

-----------------------------------------------------------------------------
(***************************************************************************)
(* Properties.                                                             *)
(***************************************************************************)

JobsTypeOK ==
    /\ queue \in Seq(Jobs)
    /\ graveyard \in Seq(Jobs)
    /\ lastID \in 0..MaxJobs
    /\ stop \in {"open", "closing", "closed"}
    /\ status \in [Jobs -> Status]
    /\ ctxDone \in [Jobs -> BOOLEAN]
    /\ exec \in [Jobs -> {"none", "executing", "finished", "done"}]
    /\ dispatcher \in {"starting", "waiting", "woken", "running", "returned"}
    /\ current \in 0..MaxJobs

ProgressTypeOK ==
    /\ progress \in [Jobs -> 0..MaxUpdates]
    /\ notified \in [Jobs -> 0..MaxUpdates]
    /\ throttled \in [Jobs -> BOOLEAN]
    /\ timer \in [Jobs -> BOOLEAN]
    /\ callbacks \in [Jobs -> Nat]

SubscriptionsTypeOK ==
    /\ subscriptions \subseteq Subscribers
    /\ subCtx \in [Subscribers -> {"none", "live", "done"}]
    /\ closed \subseteq Subscribers

ChannelsTypeOK ==
    /\ newJob \in [Subscribers -> Seq(JobCopies)]
    /\ updatedJob \in [Subscribers -> Seq(JobCopies)]
    /\ removedJob \in [Subscribers -> Seq(JobCopies)]

\* The state of the manager, of the goroutines and of the channels is well
\* formed; the queue and the graveyard list known jobs.
TypeOK == JobsTypeOK /\ ProgressTypeOK /\ SubscriptionsTypeOK /\ ChannelsTypeOK

\* manager.go:12: "Jobs are executed one at a time".  Between dispatch and
\* onJobFinish there is at most one job, and the dispatcher waits for it.
OneAtATime ==
    \A j \in Jobs : status[j] \in Live =>
        /\ dispatcher = "running"
        /\ current = j

\* manager.go:131 "wait until we have something to process".  Add broadcasts
\* only when the queue was empty, so the dispatcher must never be left in Wait
\* by a queue that holds a ready job.
NoLostWakeup ==
    dispatcher = "waiting" => \A j \in Queued : status[j] # "READY"

\* What makes OneAtATime and NoLostWakeup inductive when Start is not called.
\* The goroutine of a job runs exactly while the job is shown as live;
\* the queue holds jobs in the order of their IDs, and all those that are
\* ready; a job in it that is not ready is the one the dispatcher waits for,
\* which is why an empty queue is all that Add has to look for.
ExecMatchesStatus ==
    \A j \in Jobs : /\ status[j] \in Live <=> exec[j] = "executing"
                    /\ status[j] \in {"NEW", "READY"} => exec[j] = "none"

IDsInOrder ==
    /\ \A i, k \in DOMAIN queue : i < k => queue[i] < queue[k]
    /\ \A j \in Jobs : j > lastID <=> status[j] = "NEW"

ReadyAreQueued ==
    /\ \A j \in Jobs : status[j] = "READY" => j \in Queued
    /\ \A j \in Queued : \/ status[j] = "READY"
                         \/ dispatcher = "running" /\ current = j /\ status[j] # "NEW"

WaitsOnEmptyQueue == dispatcher = "waiting" => queue = <<>>

QueueInv ==
    OneAtATime /\ ExecMatchesStatus /\ IDsInOrder /\ ReadyAreQueued /\ WaitsOnEmptyQueue

\* GetJob looks in the queue, then in the graveyard: a submitted job is in
\* exactly one of them, once, until the graveyard had to make room.
NoJobVanishes ==
    /\ \A i, k \in DOMAIN queue : i # k => queue[i] # queue[k]
    /\ \A i, k \in DOMAIN graveyard : i # k => graveyard[i] # graveyard[k]
    /\ Queued \cap Buried = {}
    /\ Len(graveyard) <= MaxGraveyard
    /\ \A j \in 1..lastID : j \notin Queued \cup Buried => Len(graveyard) = MaxGraveyard

\* Every job leaves the queue in the end, executed or cancelled.
EveryJobLeaves == \A j \in Jobs : (j \in Queued) ~> (j \notin Queued)

Promise == INSTANCE JobQueue WITH
    issued  <- lastID,
    waiting <- {j \in Jobs : status[j] = "READY"},
    active  <- {j \in Jobs : status[j] \in Live},
    over    <- {j \in Jobs : status[j] \in Over}

\* Without Start and Stop, which the application never calls, the manager
\* implements the job queue it promises, with its liveness.
ImplementsJobQueue == Promise!Spec

\* The messages that a step puts on the channel ch of subscription s.
Sent(ch, chNext, s) ==
    {chNext[s][i] : i \in (DOMAIN chNext[s]) \ (DOMAIN ch[s])}

\* removeJob tells every subscription of a departure, unless its channel is
\* full; dispatcher and CancelJob may both try to remove a job, and it is
\* announced only by the one that did.
DepartureAnnounced ==
    [][\A s \in subscriptions :
        /\ \A m \in Sent(removedJob, removedJob', s) :
            /\ m.id \in Queued \ Queued'
            /\ m.status \in Over
        /\ \A j \in Queued \ Queued' :
            \/ \E m \in Sent(removedJob, removedJob', s) : m.id = j
            \/ Len(removedJob'[s]) = ChanCap]_vars

\* Throttling may delay a progress report and never loses the last one: while
\* subscribers have not been told of it, a callback that will is on its way.
LastProgressPending ==
    \A j \in Jobs : notified[j] # progress[j] => timer[j] /\ callbacks[j] > 0

-----------------------------------------------------------------------------
(* What a comment of manager.go says, and the code does not do.            *)

\* manager.go:268 "CancelAll cancels all of the jobs in the queue. This is the
\* same as calling CancelJob on all jobs in the queue."
CancelAllCancelsAll ==
    [][CancelAll => \A j \in Queued : status'[j] \notin {"READY", "RUNNING"}]_vars

=============================================================================
