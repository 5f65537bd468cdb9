-------------------------- MODULE JobManagerProofs --------------------------
(***************************************************************************)
(* Theorems about JobManager, for any number of jobs, progress reports and *)
(* subscriptions, and any capacity of the channels and the graveyard.      *)
(***************************************************************************)
EXTENDS JobManager, FiniteSetTheorems, SequenceTheorems, TLAPS

-----------------------------------------------------------------------------
(* The operators on sequences and channels.                                *)

\* Picking positions of a sequence gives a sequence over the same set.
LEMMA SelectSeqType ==
    ASSUME NEW T, NEW q \in Seq(T), NEW S \in SUBSET DOMAIN q,
           NEW f \in Ascending(S)
    PROVE  /\ Select(q, f) \in Seq(T)
           /\ DOMAIN Select(q, f) = DOMAIN f
           /\ DOMAIN f \subseteq Nat
           /\ \A i \in DOMAIN f : f[i] \in S /\ Select(q, f)[i] = q[f[i]]
  <1>1. Len(q) \in Nat /\ DOMAIN q = 1..Len(q) /\ q \in [1..Len(q) -> T]
    BY LenProperties
  <1>2. Cardinality(S) \in Nat
    <2>1. IsFiniteSet(1..Len(q))
      BY <1>1, FS_Interval
    <2>2. IsFiniteSet(S)
      BY <1>1, <2>1, FS_Subset
    <2> QED
      BY <2>2, FS_CardinalityType
  <1>3. f \in [1..Cardinality(S) -> S]
    BY DEF Ascending
  <1>4. Select(q, f) \in [1..Cardinality(S) -> T]
    BY <1>1, <1>3 DEF Select
  <1>5. Select(q, f) \in Seq(T)
    BY <1>2, <1>4
  <1> QED
    BY <1>2, <1>3, <1>5 DEF Select

\* Offering messages to the subscriptions keeps channels channels.
LEMMA OfferedType ==
    ASSUME NEW ch \in [Subscribers -> Seq(JobCopies)], NEW msgs \in Seq(JobCopies)
    PROVE  Offered(ch, msgs) \in [Subscribers -> Seq(JobCopies)]
  <1> DEFINE Fits(q) == IF Len(q) > ChanCap THEN SubSeq(q, 1, ChanCap) ELSE q
  <1>1. ASSUME NEW q \in Seq(JobCopies)
        PROVE  Fits(q) \in Seq(JobCopies)
    <2>1. CASE Len(q) > ChanCap
      <3>1. \A i \in 1..ChanCap : q[i] \in JobCopies
        BY <2>1, ElementOfSeq, LenProperties, BoundsAssumption
      <3>2. SubSeq(q, 1, ChanCap) \in Seq(JobCopies)
        BY <3>1, SubSeqProperties, BoundsAssumption
      <3> QED
        BY <2>1, <3>2
    <2> QED
      BY <2>1
  <1>2. ASSUME NEW s \in Subscribers
        PROVE  Fits(ch[s] \o msgs) \in Seq(JobCopies)
    BY <1>1, ConcatProperties
  <1> HIDE DEF Fits
  <1>3. [s \in Subscribers |-> IF s \in subscriptions THEN Fits(ch[s] \o msgs) ELSE ch[s]]
            \in [Subscribers -> Seq(JobCopies)]
    BY <1>2
  <1> QED
    BY <1>3 DEF Offered, Fits

\* A copy of a job is a message.
LEMMA JobCopyType ==
    ASSUME NEW j \in Jobs, NEW st \in Status, NEW pr \in 0..MaxUpdates
    PROVE  /\ JobCopy(j, st, pr) \in JobCopies
           /\ <<JobCopy(j, st, pr)>> \in Seq(JobCopies)
  <1>1. JobCopy(j, st, pr) \in JobCopies
    BY DEF JobCopy, JobCopies
  <1> HIDE DEF JobCopy, JobCopies
  <1> QED
    BY <1>1

\* The graveyard is cut to its newest jobs.
LEMMA NewestType ==
    ASSUME NEW q \in Seq(Jobs)
    PROVE  Newest(q) \in Seq(Jobs)
  <1>1. CASE Len(q) > MaxGraveyard
    <2>1. Len(q) \in Nat
      BY LenProperties
    <2>2. Len(q) - MaxGraveyard + 1 \in 1..Len(q)
      BY <1>1, <2>1, BoundsAssumption
    <2>3. \A i \in (Len(q) - MaxGraveyard + 1)..Len(q) : q[i] \in Jobs
      BY <2>1, <2>2, ElementOfSeq
    <2>4. SubSeq(q, Len(q) - MaxGraveyard + 1, Len(q)) \in Seq(Jobs)
      BY <2>1, <2>2, <2>3, SubSeqProperties
    <2> QED
      BY <1>1, <2>4 DEF Newest
  <1> QED
    BY <1>1 DEF Newest

\* removeJob keeps the queue, the graveyard and the channels well formed, and
\* leaves in the queue what was there at the positions that stay.
LEMMA RemoveJobsType ==
    ASSUME TypeOK, NEW gone \in SUBSET DOMAIN queue, NEW st \in [Jobs -> Status],
           RemoveJobs(gone, st)
    PROVE  /\ queue' \in Seq(Jobs)
           /\ graveyard' \in Seq(Jobs)
           /\ removedJob' \in [Subscribers -> Seq(JobCopies)]
  <1> DEFINE copies(removed) ==
               [i \in DOMAIN removed |->
                   JobCopy(removed[i], st[removed[i]], progress[removed[i]])]
  <1>1. PICK stay \in Ascending(DOMAIN queue \ gone), leave \in Ascending(gone) :
               /\ queue' = Select(queue, stay)
               /\ graveyard' = Newest(graveyard \o Select(queue, leave))
               /\ removedJob' = Offered(removedJob, copies(Select(queue, leave)))
    BY DEF RemoveJobs
  <1>2. queue \in Seq(Jobs) /\ graveyard \in Seq(Jobs)
    BY DEF TypeOK, JobsTypeOK
  <1>3. queue' \in Seq(Jobs)
    BY <1>1, <1>2, SelectSeqType
  <1>4. Select(queue, leave) \in Seq(Jobs)
    BY <1>1, <1>2, SelectSeqType
  <1>5. graveyard' \in Seq(Jobs)
    BY <1>1, <1>2, <1>4, ConcatProperties, NewestType
  <1>6. ASSUME NEW removed \in Seq(Jobs)
        PROVE  copies(removed) \in Seq(JobCopies)
    <2>1. Len(removed) \in Nat /\ removed \in [1..Len(removed) -> Jobs]
      BY LenProperties
    <2>2. \A i \in 1..Len(removed) :
             JobCopy(removed[i], st[removed[i]], progress[removed[i]]) \in JobCopies
      BY <2>1, JobCopyType DEF TypeOK, ProgressTypeOK
    <2>3. copies(removed) \in [1..Len(removed) -> JobCopies]
      BY <2>1, <2>2
    <2> QED
      BY <2>1, <2>3
  <1>7. removedJob' \in [Subscribers -> Seq(JobCopies)]
    BY <1>1, <1>4, <1>6, OfferedType DEF TypeOK, ChannelsTypeOK
  <1> QED
    BY <1>3, <1>5, <1>7

-----------------------------------------------------------------------------
(* Type correctness.                                                       *)

LEMMA NotifyJobUpdateType ==
    ASSUME TypeOK, NEW j \in Jobs, NEW st \in Status, NEW pr \in 0..MaxUpdates,
           NotifyJobUpdate(j, st, pr)
    PROVE  updatedJob' \in [Subscribers -> Seq(JobCopies)]
  BY JobCopyType, OfferedType DEF NotifyJobUpdate, TypeOK, ChannelsTypeOK

LEMMA DispatchType ==
    ASSUME TypeOK, NEW j \in Jobs, Dispatch(j)
    PROVE  /\ status' \in [Jobs -> Status]
           /\ exec' \in [Jobs -> {"none", "executing", "finished", "done"}]
           /\ updatedJob' \in [Subscribers -> Seq(JobCopies)]
  <1>1. progress[j] \in 0..MaxUpdates
    BY DEF TypeOK, ProgressTypeOK
  <1>2. updatedJob' \in [Subscribers -> Seq(JobCopies)]
    BY <1>1, NotifyJobUpdateType DEF Dispatch, Status
  <1> QED
    BY <1>2 DEF Dispatch, TypeOK, JobsTypeOK, Status

LEMMA ServeOrWaitType ==
    ASSUME TypeOK, NEW q \in Seq(Jobs), ServeOrWait(q)
    PROVE  /\ status' \in [Jobs -> Status]
           /\ exec' \in [Jobs -> {"none", "executing", "finished", "done"}]
           /\ updatedJob' \in [Subscribers -> Seq(JobCopies)]
           /\ dispatcher' \in {"waiting", "running"}
           /\ current' \in 0..MaxJobs
  <1>1. CASE \E i \in DOMAIN q : /\ Dispatch(q[i])
                                 /\ dispatcher' = "running"
                                 /\ current' = q[i]
    <2>1. PICK i \in DOMAIN q : /\ Dispatch(q[i])
                                /\ dispatcher' = "running"
                                /\ current' = q[i]
      BY <1>1
    <2>2. q[i] \in Jobs
      BY ElementOfSeq, LenProperties
    <2>3. q[i] \in 0..MaxJobs
      BY <2>2, BoundsAssumption DEF Jobs
    <2> QED
      BY <2>1, <2>2, <2>3, DispatchType
  <1>2. CASE /\ dispatcher' = "waiting"
             /\ current' = 0
             /\ UNCHANGED <<status, exec, updatedJob>>
    BY <1>2, BoundsAssumption DEF TypeOK, JobsTypeOK, ChannelsTypeOK
  <1> QED
    BY <1>1, <1>2 DEF ServeOrWait

LEMMA CancelType ==
    ASSUME TypeOK, NEW S, Cancel(S)
    PROVE  /\ status' \in [Jobs -> Status]
           /\ ctxDone' \in [Jobs -> BOOLEAN]
  <1>1. \A st \in Status : AfterCancel(st) \in Status
    BY DEF AfterCancel, Status
  <1>2. \A j \in Jobs : status[j] \in Status
    BY DEF TypeOK, JobsTypeOK
  <1> QED
    BY <1>1, <1>2 DEF Cancel

LEMMA CancelEachType ==
    ASSUME TypeOK, CancelEach
    PROVE  /\ status' \in [Jobs -> Status]
           /\ ctxDone' \in [Jobs -> BOOLEAN]
           /\ queue' \in Seq(Jobs)
           /\ graveyard' \in Seq(Jobs)
           /\ removedJob' \in [Subscribers -> Seq(JobCopies)]
  <1>1. PICK V \in SUBSET DOMAIN queue :
               /\ Cancel({queue[p] : p \in V})
               /\ RemoveJobs({p \in V : status'[queue[p]] = "CANCELLED"}, status')
    BY DEF CancelEach, Reached
  <1>2. {p \in V : status'[queue[p]] = "CANCELLED"} \in SUBSET DOMAIN queue
    OBVIOUS
  <1>3. status' \in [Jobs -> Status] /\ ctxDone' \in [Jobs -> BOOLEAN]
    BY <1>1, CancelType
  <1> QED
    BY <1>1, <1>2, <1>3, RemoveJobsType

LEMMA NotifyUpdateType ==
    ASSUME TypeOK, NEW j \in Jobs, NEW pr \in 0..MaxUpdates, NotifyUpdate(j, pr)
    PROVE  /\ updatedJob' \in [Subscribers -> Seq(JobCopies)]
           /\ notified' \in [Jobs -> 0..MaxUpdates]
           /\ throttled' \in [Jobs -> BOOLEAN]
           /\ timer' \in [Jobs -> BOOLEAN]
  <1>1. status[j] \in Status
    BY DEF TypeOK, JobsTypeOK
  <1>2. updatedJob' \in [Subscribers -> Seq(JobCopies)]
    BY <1>1, NotifyJobUpdateType DEF NotifyUpdate
  <1> QED
    BY <1>2 DEF NotifyUpdate, TypeOK, ProgressTypeOK

LEMMA TypeInit == Init => TypeOK
  <1> SUFFICES ASSUME Init PROVE TypeOK
    OBVIOUS
  <1>1. JobsTypeOK
    <2>1. queue \in Seq(Jobs) /\ graveyard \in Seq(Jobs)
      BY EmptySeq DEF Init
    <2>2. lastID \in 0..MaxJobs /\ current \in 0..MaxJobs
      BY BoundsAssumption DEF Init
    <2> QED
      BY <2>1, <2>2 DEF Init, JobsTypeOK, Status
  <1>2. ProgressTypeOK
    BY BoundsAssumption DEF Init, ProgressTypeOK
  <1>3. SubscriptionsTypeOK
    BY DEF Init, SubscriptionsTypeOK
  <1>4. ChannelsTypeOK
    BY DEF Init, ChannelsTypeOK
  <1> QED
    BY <1>1, <1>2, <1>3, <1>4 DEF TypeOK

LEMMA TypeStep == TypeOK /\ [Next]_vars => TypeOK'
  <1> SUFFICES ASSUME TypeOK, [Next]_vars PROVE TypeOK'
    OBVIOUS
  <1> USE DEF TypeOK
  <1>1. CASE DispatcherStart
    <2>1. ServeOrWait(queue) /\ queue \in Seq(Jobs)
      BY <1>1 DEF DispatcherStart, JobsTypeOK
    <2> HIDE DEF TypeOK
    <2> QED
      BY <1>1, <2>1, ServeOrWaitType
      DEF DispatcherStart, TypeOK, JobsTypeOK, ProgressTypeOK, SubscriptionsTypeOK,
          ChannelsTypeOK, progVars, subVars
  <1>2. CASE DispatcherWake
    <2>1. CASE stop = "closed"
      BY <1>2, <2>1
      DEF DispatcherWake, JobsTypeOK, ProgressTypeOK, SubscriptionsTypeOK,
          ChannelsTypeOK, progVars, subVars
    <2>2. CASE stop # "closed"
      <3>1. ServeOrWait(queue) /\ queue \in Seq(Jobs)
        BY <1>2, <2>2 DEF DispatcherWake, JobsTypeOK
      <3> HIDE DEF TypeOK
      <3> QED
        BY <1>2, <3>1, ServeOrWaitType
        DEF DispatcherWake, TypeOK, JobsTypeOK, ProgressTypeOK, SubscriptionsTypeOK,
            ChannelsTypeOK, progVars, subVars
    <2> QED
      BY <2>1, <2>2
  <1>3. CASE DispatcherDone
    <2>1. /\ queue' \in Seq(Jobs)
          /\ graveyard' \in Seq(Jobs)
          /\ removedJob' \in [Subscribers -> Seq(JobCopies)]
      <3>1. status \in [Jobs -> Status]
        BY DEF JobsTypeOK
      <3>2. {i \in DOMAIN queue : queue[i] = current} \in SUBSET DOMAIN queue
        OBVIOUS
      <3> HIDE DEF TypeOK
      <3> QED
        BY <1>3, <3>1, <3>2, RemoveJobsType DEF DispatcherDone
    <2> HIDE DEF TypeOK
    <2> QED
      BY <1>3, <2>1, ServeOrWaitType
      DEF DispatcherDone, TypeOK, JobsTypeOK, ProgressTypeOK, SubscriptionsTypeOK,
          ChannelsTypeOK, progVars, subVars
  <1>4. ASSUME NEW j \in Jobs, JobFinish(j) PROVE TypeOK'
    BY <1>4
    DEF JobFinish, JobsTypeOK, ProgressTypeOK, SubscriptionsTypeOK, ChannelsTypeOK,
        Status, progVars, subVars, chanVars
  <1>5. ASSUME NEW j \in Jobs, CloseDone(j) PROVE TypeOK'
    BY <1>5
    DEF CloseDone, JobsTypeOK, ProgressTypeOK, SubscriptionsTypeOK, ChannelsTypeOK,
        progVars, subVars, chanVars
  <1>6. ASSUME NEW j \in Jobs, UpdateProgress(j) PROVE TypeOK'
    <2>1. progress' \in [Jobs -> 0..MaxUpdates] /\ progress[j] + 1 \in 0..MaxUpdates
      <3>1. progress[j] \in 0..MaxUpdates /\ progress[j] < MaxUpdates
        BY <1>6 DEF UpdateProgress, ProgressTypeOK
      <3>2. progress[j] + 1 \in 0..MaxUpdates
        BY <3>1, BoundsAssumption
      <3>3. progress' = [progress EXCEPT ![j] = @ + 1]
        BY <1>6 DEF UpdateProgress
      <3> QED
        BY <3>2, <3>3 DEF ProgressTypeOK
    <2>2. CASE /\ timer' = [timer EXCEPT ![j] = TRUE]
               /\ callbacks' = [callbacks EXCEPT ![j] = IF timer[j] THEN @ ELSE @ + 1]
               /\ UNCHANGED <<notified, throttled, updatedJob>>
      BY <1>6, <2>1, <2>2
      DEF UpdateProgress, JobsTypeOK, ProgressTypeOK, SubscriptionsTypeOK,
          ChannelsTypeOK, jobVars, subVars
    <2>3. CASE NotifyUpdate(j, progress[j] + 1) /\ UNCHANGED callbacks
      <3> HIDE DEF TypeOK
      <3>1. /\ updatedJob' \in [Subscribers -> Seq(JobCopies)]
            /\ notified' \in [Jobs -> 0..MaxUpdates]
            /\ throttled' \in [Jobs -> BOOLEAN]
            /\ timer' \in [Jobs -> BOOLEAN]
        BY <2>1, <2>3, NotifyUpdateType
      <3> QED
        BY <1>6, <2>1, <2>3, <3>1
        DEF UpdateProgress, TypeOK, JobsTypeOK, ProgressTypeOK, SubscriptionsTypeOK,
            ChannelsTypeOK, jobVars, subVars
    <2> QED
      BY <1>6, <2>2, <2>3 DEF UpdateProgress
  <1>7. ASSUME NEW j \in Jobs, TimerCallback(j) PROVE TypeOK'
    <2>1. progress[j] \in 0..MaxUpdates /\ callbacks' \in [Jobs -> Nat]
      BY <1>7 DEF TimerCallback, ProgressTypeOK
    <2> HIDE DEF TypeOK
    <2>2. /\ updatedJob' \in [Subscribers -> Seq(JobCopies)]
          /\ notified' \in [Jobs -> 0..MaxUpdates]
          /\ throttled' \in [Jobs -> BOOLEAN]
          /\ timer' \in [Jobs -> BOOLEAN]
      BY <1>7, <2>1, NotifyUpdateType DEF TimerCallback
    <2> QED
      BY <1>7, <2>1, <2>2
      DEF TimerCallback, TypeOK, JobsTypeOK, ProgressTypeOK, SubscriptionsTypeOK,
          ChannelsTypeOK, jobVars, subVars
  <1>8. ASSUME NEW j \in Jobs, IntervalEnds(j) PROVE TypeOK'
    BY <1>8
    DEF IntervalEnds, JobsTypeOK, ProgressTypeOK, SubscriptionsTypeOK, ChannelsTypeOK,
        jobVars, subVars, chanVars
  <1>9. ASSUME NEW j \in Jobs, CancelJob(j) PROVE TypeOK'
    <2> HIDE DEF TypeOK
    <2>1. status' \in [Jobs -> Status] /\ ctxDone' \in [Jobs -> BOOLEAN]
      BY <1>9, CancelType DEF CancelJob
    <2>2. {i \in DOMAIN queue : queue[i] = j /\ status'[j] = "CANCELLED"}
             \in SUBSET DOMAIN queue
      OBVIOUS
    <2>3. /\ queue' \in Seq(Jobs)
          /\ graveyard' \in Seq(Jobs)
          /\ removedJob' \in [Subscribers -> Seq(JobCopies)]
      BY <1>9, <2>1, <2>2, RemoveJobsType DEF CancelJob
    <2> QED
      BY <1>9, <2>1, <2>3
      DEF CancelJob, TypeOK, JobsTypeOK, ProgressTypeOK, SubscriptionsTypeOK,
          ChannelsTypeOK, progVars, subVars
  <1>10. CASE Add
    <2>1. lastID' \in Jobs /\ lastID' \in 0..MaxJobs
      BY <1>10, BoundsAssumption DEF Add, JobsTypeOK, Jobs
    <2>2. progress[lastID'] \in 0..MaxUpdates
      BY <2>1 DEF ProgressTypeOK
    <2>3. newJob' \in [Subscribers -> Seq(JobCopies)]
      BY <1>10, <2>1, <2>2, JobCopyType, OfferedType
      DEF Add, NotifyNewJob, ChannelsTypeOK, Status
    <2>4. queue' \in Seq(Jobs)
      BY <1>10, <2>1 DEF Add, JobsTypeOK
    <2> QED
      BY <1>10, <2>1, <2>3, <2>4
      DEF Add, JobsTypeOK, ProgressTypeOK, SubscriptionsTypeOK, ChannelsTypeOK, Status,
          progVars, subVars
  <1>11. CASE Start
    <2>1. lastID' \in Jobs /\ lastID' \in 0..MaxJobs
      BY <1>11, BoundsAssumption DEF Start, JobsTypeOK, Jobs
    <2>2. queue' \in Seq(Jobs)
      BY <1>11, <2>1 DEF Start, JobsTypeOK
    <2> HIDE DEF TypeOK
    <2>3. /\ status' \in [Jobs -> Status]
          /\ exec' \in [Jobs -> {"none", "executing", "finished", "done"}]
          /\ updatedJob' \in [Subscribers -> Seq(JobCopies)]
      BY <1>11, <2>1, DispatchType DEF Start
    <2> QED
      BY <1>11, <2>1, <2>2, <2>3
      DEF Start, TypeOK, JobsTypeOK, ProgressTypeOK, SubscriptionsTypeOK,
          ChannelsTypeOK, progVars, subVars
  <1>12. CASE CancelAll
    <2> HIDE DEF TypeOK
    <2> QED
      BY <1>12, CancelEachType
      DEF CancelAll, TypeOK, JobsTypeOK, ProgressTypeOK, SubscriptionsTypeOK,
          ChannelsTypeOK, progVars, subVars
  <1>13. CASE Stop
    <2> HIDE DEF TypeOK
    <2> QED
      BY <1>13, CancelEachType
      DEF Stop, TypeOK, JobsTypeOK, ProgressTypeOK, SubscriptionsTypeOK,
          ChannelsTypeOK, progVars, subVars
  <1>14. ASSUME NEW s \in Subscribers,
                Subscribe(s) \/ SubscriberLeaves(s) \/ Unsubscribe(s)
         PROVE  TypeOK'
    BY <1>14
    DEF Subscribe, SubscriberLeaves, Unsubscribe, JobsTypeOK, ProgressTypeOK,
        SubscriptionsTypeOK, ChannelsTypeOK, jobVars, progVars, chanVars
  <1>15. ASSUME NEW s \in Subscribers, Receive(s) PROVE TypeOK'
    <2>1. \A q \in Seq(JobCopies) : q # <<>> => Tail(q) \in Seq(JobCopies)
      BY HeadTailProperties
    <2>2. ChannelsTypeOK'
      BY <1>15, <2>1 DEF Receive, ChannelsTypeOK
    <2> QED
      BY <1>15, <2>2
      DEF Receive, JobsTypeOK, ProgressTypeOK, SubscriptionsTypeOK, jobVars, progVars,
          subVars
  <1>16. CASE UNCHANGED vars
    BY <1>16
    DEF vars, jobVars, progVars, subVars, chanVars, JobsTypeOK, ProgressTypeOK,
        SubscriptionsTypeOK, ChannelsTypeOK
  <1>17. CASE CloseStop
    BY <1>17
    DEF CloseStop, JobsTypeOK, ProgressTypeOK, SubscriptionsTypeOK,
        ChannelsTypeOK, progVars, subVars, chanVars
  <1> QED
    BY <1>1, <1>2, <1>3, <1>4, <1>5, <1>6, <1>7, <1>8, <1>9, <1>10, <1>11, <1>12,
       <1>13, <1>14, <1>15, <1>16, <1>17
    DEF Next, Dispatcher

\* In every reachable state the manager, its goroutines and its channels are
\* well formed, whichever operations the clients call (manager.go:13-25).
THEOREM Typing == Spec => []TypeOK
  BY TypeInit, TypeStep, PTL DEF Spec

-----------------------------------------------------------------------------
(***************************************************************************)
(* One job at a time, and no lost wake-up, when the clients do not call    *)
(* Start.  QueueInv is the inductive invariant.                            *)
(***************************************************************************)

\* removeJob leaves in the queue the jobs at the positions that stay, in
\* their order.
LEMMA RemoveJobsQueue ==
    ASSUME TypeOK, NEW gone \in SUBSET DOMAIN queue, NEW st, RemoveJobs(gone, st),
           \A i, k \in DOMAIN queue : i < k => queue[i] < queue[k]
    PROVE  /\ Queued' = {queue[i] : i \in DOMAIN queue \ gone}
           /\ \A i, k \in DOMAIN queue' : i < k => queue'[i] < queue'[k]
  <1>1. PICK stay \in Ascending(DOMAIN queue \ gone) : queue' = Select(queue, stay)
    BY DEF RemoveJobs
  <1>2. queue \in Seq(Jobs)
    BY DEF TypeOK, JobsTypeOK
  <1>3. /\ DOMAIN queue' = DOMAIN stay
        /\ DOMAIN stay \subseteq Nat
        /\ \A i \in DOMAIN stay : stay[i] \in DOMAIN queue \ gone /\ queue'[i] = queue[stay[i]]
    BY <1>1, <1>2, SelectSeqType
  <1>4. /\ \A i, k \in DOMAIN stay : i < k => stay[i] < stay[k]
        /\ \A x \in DOMAIN queue \ gone : \E i \in DOMAIN stay : stay[i] = x
    BY DEF Ascending
  <1>5. Queued' = {queue[i] : i \in DOMAIN queue \ gone}
    BY <1>3, <1>4 DEF Queued
  <1> QED
    BY <1>3, <1>4, <1>5

\* A turn of the dispatcher's loop on the queue q' that is left to it: when no
\* job is live and all the jobs in q' are ready, one is dispatched or q' is empty.
LEMMA ServeOrWaitInv ==
    ASSUME TypeOK, ExecMatchesStatus, queue' \in Seq(Jobs), lastID' = lastID,
           \A j \in Jobs : status[j] \notin Live,
           \A i, k \in DOMAIN queue' : i < k => queue'[i] < queue'[k],
           \A j \in Jobs : j > lastID <=> status[j] = "NEW",
           \A j \in Jobs : status[j] = "READY" => j \in Queued',
           \A j \in Queued' : status[j] = "READY",
           ServeOrWait(queue')
    PROVE  QueueInv'
  <1>1. CASE \E i \in DOMAIN queue' : /\ IsFirstReady(queue', i)
                                      /\ Dispatch(queue'[i])
                                      /\ dispatcher' = "running"
                                      /\ current' = queue'[i]
    <2>1. PICK i \in DOMAIN queue' : /\ status[queue'[i]] = "READY"
                                     /\ Dispatch(queue'[i])
                                     /\ dispatcher' = "running"
                                     /\ current' = queue'[i]
      BY <1>1 DEF IsFirstReady
    <2>2. PICK j \in Jobs : j = queue'[i]
      BY ElementOfSeq, LenProperties
    <2>3. /\ status' = [status EXCEPT ![j] = "RUNNING"]
          /\ exec' = [exec EXCEPT ![j] = "executing"]
      BY <2>1, <2>2 DEF Dispatch
    <2>4. \A k \in Jobs : /\ status'[k] = IF k = j THEN "RUNNING" ELSE status[k]
                          /\ exec'[k] = IF k = j THEN "executing" ELSE exec[k]
      BY <2>3 DEF TypeOK, JobsTypeOK
    <2>5. OneAtATime' /\ ExecMatchesStatus'
      BY <2>1, <2>2, <2>4 DEF OneAtATime, ExecMatchesStatus, Live
    <2>6. IDsInOrder'
      BY <2>1, <2>2, <2>4 DEF IDsInOrder
    <2>7. ReadyAreQueued'
      <3>1. \A k \in Queued' : k \in Jobs
        BY ElementOfSeq, LenProperties DEF Queued
      <3> QED
        BY <2>1, <2>2, <2>4, <3>1 DEF ReadyAreQueued
    <2> QED
      BY <2>1, <2>5, <2>6, <2>7 DEF QueueInv, WaitsOnEmptyQueue
  <1>2. CASE /\ \A i \in DOMAIN queue' : status[queue'[i]] # "READY"
             /\ dispatcher' = "waiting"
             /\ UNCHANGED <<status, exec>>
    <2>1. Queued' = {}
      BY <1>2 DEF Queued
    <2>2. queue' = <<>>
      BY <2>1, EmptySeq, LenProperties DEF Queued
    <2> QED
      BY <1>2, <2>1, <2>2
      DEF QueueInv, OneAtATime, ExecMatchesStatus, IDsInOrder, ReadyAreQueued,
          WaitsOnEmptyQueue
  <1> QED
    BY <1>1, <1>2 DEF ServeOrWait

\* Cancelling some queued jobs and removing those that are cancelled.
LEMMA CancelInv ==
    ASSUME TypeOK, QueueInv, NEW V \in SUBSET DOMAIN queue,
           Cancel({queue[p] : p \in V}),
           RemoveJobs({p \in V : status'[queue[p]] = "CANCELLED"}, status'),
           UNCHANGED <<lastID, exec, dispatcher, current>>
    PROVE  QueueInv'
  <1> DEFINE S == {queue[p] : p \in V}
             gone == {p \in V : status'[queue[p]] = "CANCELLED"}
  <1>1. queue \in Seq(Jobs) /\ status \in [Jobs -> Status]
    BY DEF TypeOK, JobsTypeOK
  <1>2. \A j \in Jobs : status'[j] = IF j \in S THEN AfterCancel(status[j]) ELSE status[j]
    BY DEF Cancel
  <1>3. \A i \in DOMAIN queue : queue[i] \in Jobs
    BY <1>1, ElementOfSeq, LenProperties
  <1>4. /\ Queued' = {queue[i] : i \in DOMAIN queue \ gone}
        /\ \A i, k \in DOMAIN queue' : i < k => queue'[i] < queue'[k]
    <2>1. gone \in SUBSET DOMAIN queue
      OBVIOUS
    <2> QED
      BY <2>1, RemoveJobsQueue DEF QueueInv, IDsInOrder
  <1>5. OneAtATime' /\ ExecMatchesStatus'
    BY <1>2, <1>1 DEF QueueInv, OneAtATime, ExecMatchesStatus, AfterCancel, Live, Status
  <1>6. IDsInOrder'
    BY <1>2, <1>4, <1>1 DEF QueueInv, IDsInOrder, AfterCancel, Status
  <1>7. ReadyAreQueued'
    <2>1. ASSUME NEW j \in Jobs, status'[j] = "READY"
          PROVE  j \in Queued'
      <3>1. status[j] = "READY"
        BY <1>1, <1>2, <2>1 DEF AfterCancel, Status
      <3>2. PICK i \in DOMAIN queue : queue[i] = j
        BY <3>1 DEF QueueInv, ReadyAreQueued, Queued
      <3>3. i \notin gone
        BY <2>1, <3>2
      <3> QED
        BY <1>4, <3>2, <3>3
    <2>2. ASSUME NEW j \in Queued'
          PROVE  \/ status'[j] = "READY"
                 \/ dispatcher' = "running" /\ current' = j /\ status'[j] # "NEW"
      <3>1. PICK i \in DOMAIN queue \ gone : queue[i] = j
        BY <1>4
      <3>2. \/ status[j] = "READY"
            \/ dispatcher = "running" /\ current = j /\ status[j] # "NEW"
        BY <3>1 DEF QueueInv, ReadyAreQueued, Queued
      <3>3. CASE status[j] = "READY"
        <4>1. CASE j \in S
          <5>1. status'[j] = "CANCELLED"
            BY <1>2, <1>3, <3>1, <3>3, <4>1 DEF AfterCancel
          <5>2. PICK p \in V : queue[p] = j
            BY <4>1
          <5>3. p = i
            <6>1. p \in Nat /\ i \in Nat
              BY <1>1, LenProperties
            <6>2. queue[p] \in Nat /\ queue[i] \in Nat
              BY <1>3 DEF Jobs
            <6> QED
              BY <3>1, <5>2, <6>1, <6>2 DEF QueueInv, IDsInOrder
          <5> QED
            BY <3>1, <5>1, <5>2, <5>3
        <4>2. CASE j \notin S
          BY <1>2, <1>3, <3>1, <3>3, <4>2
        <4> QED
          BY <4>1, <4>2
      <3>4. CASE dispatcher = "running" /\ current = j /\ status[j] # "NEW"
        BY <1>1, <1>2, <1>3, <3>1, <3>4 DEF AfterCancel, Status
      <3> QED
        BY <3>2, <3>3, <3>4
    <2> QED
      BY <2>1, <2>2 DEF ReadyAreQueued
  <1>8. WaitsOnEmptyQueue'
    <2>1. ASSUME queue = <<>> PROVE queue' = <<>>
      <3>1. Queued' = {}
        BY <1>4, <2>1, EmptySeq, LenProperties
      <3>2. queue' \in Seq(Jobs)
        BY <1>1, CancelType, RemoveJobsType
      <3>3. DOMAIN queue' = {}
        BY <3>1 DEF Queued
      <3>4. DOMAIN queue' = 1..Len(queue') /\ Len(queue') \in Nat
        BY <3>2, LenProperties
      <3> QED
        BY <3>2, <3>3, <3>4, EmptySeq
    <2> QED
      BY <2>1 DEF QueueInv, WaitsOnEmptyQueue
  <1> QED
    BY <1>5, <1>6, <1>7, <1>8 DEF QueueInv

LEMMA QueueInvInit == Init => QueueInv
  BY DEF Init, QueueInv, OneAtATime, ExecMatchesStatus, IDsInOrder, ReadyAreQueued,
         WaitsOnEmptyQueue, Live, Jobs, Queued

\* No job is live while the dispatcher waits for none that still runs.
LEMMA NothingLive ==
    ASSUME QueueInv, dispatcher = "running" => exec[current] = "done"
    PROVE  \A j \in Jobs : status[j] \notin Live
  BY DEF QueueInv, OneAtATime, ExecMatchesStatus

LEMMA QueueInvStep ==
    ASSUME "Start" \notin API
    PROVE  TypeOK /\ TypeOK' /\ QueueInv /\ [Next]_vars => QueueInv'
  <1> SUFFICES ASSUME TypeOK, TypeOK', QueueInv, [Next]_vars PROVE QueueInv'
    OBVIOUS
  <1> USE DEF QueueInv
  <1>0. UNCHANGED jobVars => QueueInv'
    BY DEF jobVars, OneAtATime, ExecMatchesStatus, IDsInOrder, ReadyAreQueued,
           WaitsOnEmptyQueue, Queued
  <1>1. ASSUME dispatcher # "running", ServeOrWait(queue), UNCHANGED <<queue, lastID>>
        PROVE  QueueInv'
    <2>1. \A j \in Jobs : status[j] \notin Live
      BY <1>1, NothingLive
    <2>2. Queued' = Queued
      BY <1>1 DEF Queued
    <2>3. queue' \in Seq(Jobs) /\ ServeOrWait(queue')
      BY <1>1 DEF TypeOK, JobsTypeOK
    <2> QED
      BY <1>1, <2>1, <2>2, <2>3, ServeOrWaitInv DEF IDsInOrder, ReadyAreQueued
  <1>2. CASE DispatcherStart
    BY <1>1, <1>2 DEF DispatcherStart
  <1>3. CASE DispatcherWake
    <2>1. CASE stop # "closed"
      BY <1>1, <1>3, <2>1 DEF DispatcherWake
    <2>2. CASE stop = "closed"
      <3>1. /\ dispatcher = "woken"
            /\ dispatcher' = "returned"
            /\ UNCHANGED <<queue, lastID, status, exec, current>>
        BY <1>3, <2>2 DEF DispatcherWake
      <3> QED
        BY <3>1 DEF OneAtATime, ExecMatchesStatus, IDsInOrder, ReadyAreQueued,
                    WaitsOnEmptyQueue, Queued
    <2> QED
      BY <2>1, <2>2
  <1>4. CASE DispatcherDone
    <2> DEFINE gone == {i \in DOMAIN queue : queue[i] = current}
    <2>1. /\ dispatcher = "running" /\ exec[current] = "done"
          /\ RemoveJobs(gone, status)
          /\ ServeOrWait(queue')
          /\ lastID' = lastID
      BY <1>4 DEF DispatcherDone
    <2>2. \A j \in Jobs : status[j] \notin Live
      BY <2>1, NothingLive
    <2>3. /\ Queued' = {queue[i] : i \in DOMAIN queue \ gone}
          /\ \A i, k \in DOMAIN queue' : i < k => queue'[i] < queue'[k]
      <3>1. gone \in SUBSET DOMAIN queue
        OBVIOUS
      <3> QED
        BY <2>1, <3>1, RemoveJobsQueue DEF IDsInOrder
    <2>4. \A j \in Queued' : status[j] = "READY"
      BY <2>3 DEF ReadyAreQueued, Queued
    <2>5. ASSUME NEW j \in Jobs, status[j] = "READY"
          PROVE  j \in Queued'
      <3>1. PICK i \in DOMAIN queue : queue[i] = j
        BY <2>5 DEF ReadyAreQueued, Queued
      <3>2. j # current
        BY <2>1, <2>5 DEF ExecMatchesStatus
      <3> QED
        BY <2>3, <3>1, <3>2
    <2>6. queue' \in Seq(Jobs)
      BY DEF TypeOK, JobsTypeOK
    <2> HIDE DEF QueueInv
    <2> QED
      BY <2>1, <2>2, <2>3, <2>4, <2>5, <2>6, ServeOrWaitInv DEF QueueInv, IDsInOrder
  <1>5. ASSUME NEW j \in Jobs, JobFinish(j) PROVE QueueInv'
    <2>1. /\ exec[j] = "executing"
          /\ UNCHANGED <<queue, lastID, dispatcher, current>>
          /\ \A k \in Jobs : exec'[k] = IF k = j THEN "finished" ELSE exec[k]
          /\ \A k \in Jobs : k # j => status'[k] = status[k]
          /\ status'[j] \in Over
      BY <1>5 DEF JobFinish, TypeOK, JobsTypeOK, Over
    <2>2. status[j] \in Live
      BY <2>1 DEF ExecMatchesStatus
    <2>3. dispatcher = "running" /\ current = j
      BY <2>2 DEF OneAtATime
    <2>4. OneAtATime' /\ ExecMatchesStatus'
      BY <2>1 DEF OneAtATime, ExecMatchesStatus, Live, Over
    <2>5. IDsInOrder'
      BY <2>1, <2>2 DEF IDsInOrder, Live, Over
    <2>6. ReadyAreQueued'
      <3>1. Queued' = Queued /\ Queued \subseteq Jobs
        BY <2>1, ElementOfSeq, LenProperties DEF Queued, TypeOK, JobsTypeOK
      <3>2. \A k \in Jobs : status'[k] = "READY" => status[k] = "READY"
        BY <2>1 DEF Over
      <3>3. \A k \in Queued : k # j => status'[k] = status[k]
        BY <2>1, <3>1
      <3>4. status'[j] # "NEW"
        BY <2>1 DEF Over
      <3> QED
        BY <2>1, <2>3, <3>1, <3>2, <3>3, <3>4 DEF ReadyAreQueued
    <2> QED
      BY <2>1, <2>4, <2>5, <2>6 DEF WaitsOnEmptyQueue
  <1>6. ASSUME NEW j \in Jobs, CloseDone(j) PROVE QueueInv'
    <2>1. /\ exec[j] = "finished"
          /\ UNCHANGED <<queue, lastID, status, dispatcher, current>>
          /\ \A k \in Jobs : exec'[k] = IF k = j THEN "done" ELSE exec[k]
      BY <1>6 DEF CloseDone, TypeOK, JobsTypeOK
    <2> QED
      BY <2>1 DEF OneAtATime, ExecMatchesStatus, IDsInOrder, ReadyAreQueued,
                  WaitsOnEmptyQueue, Queued
  <1>7. ASSUME NEW j \in Jobs, CancelJob(j) PROVE QueueInv'
    <2> DEFINE V == {i \in DOMAIN queue : queue[i] = j}
    <2>1. {queue[p] : p \in V} = {j}
      BY <1>7 DEF CancelJob, Queued
    <2>2. {i \in DOMAIN queue : queue[i] = j /\ status'[j] = "CANCELLED"}
             = {p \in V : status'[queue[p]] = "CANCELLED"}
      OBVIOUS
    <2>3. /\ Cancel({queue[p] : p \in V})
          /\ RemoveJobs({p \in V : status'[queue[p]] = "CANCELLED"}, status')
          /\ UNCHANGED <<lastID, exec, dispatcher, current>>
      <3>1. Cancel({queue[p] : p \in V})
        BY <1>7, <2>1 DEF CancelJob
      <3>2. RemoveJobs({p \in V : status'[queue[p]] = "CANCELLED"}, status')
        BY <1>7, <2>2 DEF CancelJob
      <3> QED
        BY <1>7, <3>1, <3>2 DEF CancelJob
    <2>4. V \in SUBSET DOMAIN queue
      OBVIOUS
    <2> HIDE DEF QueueInv, V
    <2> QED
      BY <2>3, <2>4, CancelInv
  <1>8. CASE CancelAll \/ Stop
    <2>1. CancelEach /\ UNCHANGED <<lastID, exec, dispatcher, current>>
      BY <1>8 DEF CancelAll, Stop
    <2>2. PICK V \in SUBSET DOMAIN queue :
                 /\ Cancel({queue[p] : p \in V})
                 /\ RemoveJobs({p \in V : status'[queue[p]] = "CANCELLED"}, status')
      BY <2>1 DEF CancelEach, Reached
    <2> HIDE DEF QueueInv
    <2> QED
      BY <2>1, <2>2, CancelInv
  <1>9. CASE Add
    <2>1. /\ lastID' = lastID + 1 /\ lastID' \in Jobs
          /\ queue' = Append(queue, lastID')
          /\ \A k \in Jobs : status'[k] = IF k = lastID' THEN "READY" ELSE status[k]
          /\ UNCHANGED <<exec, current>>
          /\ dispatcher' = IF Len(queue') = 1 /\ dispatcher = "waiting"
                           THEN "woken" ELSE dispatcher
      BY <1>9, BoundsAssumption DEF Add, TypeOK, JobsTypeOK, Jobs
    <2>2. lastID \in Nat /\ queue \in Seq(Jobs)
      BY BoundsAssumption DEF TypeOK, JobsTypeOK
    <2>3. status[lastID'] = "NEW"
      BY <2>1, <2>2 DEF IDsInOrder
    <2>4. /\ Len(queue') = Len(queue) + 1 /\ Len(queue) \in Nat
          /\ DOMAIN queue = 1..Len(queue) /\ DOMAIN queue' = 1..(Len(queue) + 1)
          /\ \A i \in DOMAIN queue : queue'[i] = queue[i] /\ queue[i] \in Jobs
          /\ queue'[Len(queue) + 1] = lastID'
      BY <2>1, <2>2, LenProperties, ElementOfSeq
    <2>5. Queued' = Queued \cup {lastID'}
      BY <2>4 DEF Queued
    <2>6. \A i \in DOMAIN queue : queue[i] <= lastID
      <3> SUFFICES ASSUME NEW i \in DOMAIN queue PROVE queue[i] <= lastID
        OBVIOUS
      <3>1. status[queue[i]] # "NEW"
        <4>1. queue[i] \in Jobs /\ queue[i] \in Queued
          BY <2>4 DEF Queued
        <4>2. CASE status[queue[i]] = "READY"
          BY <4>2
        <4>3. CASE status[queue[i]] # "READY"
          BY <4>1, <4>3 DEF ReadyAreQueued
        <4> QED
          BY <4>2, <4>3
      <3> QED
        BY <2>2, <2>4, <3>1 DEF IDsInOrder, Jobs
    <2>7. OneAtATime' /\ ExecMatchesStatus'
      BY <2>1, <2>3 DEF OneAtATime, ExecMatchesStatus, Live
    <2>8. IDsInOrder'
      <3>1. \A i, k \in DOMAIN queue' : i < k => queue'[i] < queue'[k]
        BY <2>1, <2>2, <2>4, <2>6 DEF IDsInOrder, Jobs
      <3>2. \A j \in Jobs : j > lastID' <=> status'[j] = "NEW"
        BY <2>1, <2>2, <2>3 DEF IDsInOrder, Jobs
      <3> QED
        BY <3>1, <3>2 DEF IDsInOrder
    <2>9. ReadyAreQueued'
      <3>1. Queued \subseteq Jobs
        BY <2>4 DEF Queued
      <3>2. dispatcher = "running" => dispatcher' = "running"
        BY <2>1
      <3>3. \A k \in Jobs : status'[k] = "NEW" => status[k] = "NEW"
        BY <2>1
      <3> QED
        BY <2>1, <2>5, <3>1, <3>2, <3>3 DEF ReadyAreQueued
    <2>10. WaitsOnEmptyQueue'
      <3>1. CASE dispatcher = "waiting"
        <4>1. Len(queue') = 1
          BY <2>2, <2>4, <3>1, EmptySeq DEF WaitsOnEmptyQueue
        <4> QED
          BY <2>1, <3>1, <4>1 DEF WaitsOnEmptyQueue
      <3>2. CASE dispatcher # "waiting"
        BY <2>1, <3>2 DEF WaitsOnEmptyQueue
      <3> QED
        BY <3>1, <3>2
    <2> QED
      BY <2>7, <2>8, <2>9, <2>10
  <1>10. CASE Start
    BY <1>10 DEF Start
  <1>11. ASSUME NEW j \in Jobs,
                UpdateProgress(j) \/ TimerCallback(j) \/ IntervalEnds(j)
         PROVE  QueueInv'
    BY <1>0, <1>11 DEF UpdateProgress, TimerCallback, IntervalEnds
  <1>12. ASSUME NEW s \in Subscribers,
                Subscribe(s) \/ SubscriberLeaves(s) \/ Unsubscribe(s) \/ Receive(s)
         PROVE  QueueInv'
    BY <1>0, <1>12 DEF Subscribe, SubscriberLeaves, Unsubscribe, Receive
  <1>13. CASE UNCHANGED vars
    BY <1>0, <1>13 DEF vars
  <1>14. CASE CloseStop
    BY <1>14
    DEF CloseStop, OneAtATime, ExecMatchesStatus, IDsInOrder, ReadyAreQueued,
        WaitsOnEmptyQueue, Queued
  <1> QED
    BY <1>2, <1>3, <1>4, <1>5, <1>6, <1>7, <1>8, <1>9, <1>10, <1>11, <1>12, <1>13, <1>14
    DEF Next, Dispatcher

LEMMA QueueInvariance ==
    ASSUME "Start" \notin API
    PROVE  Spec => [](TypeOK /\ QueueInv)
  <1>1. Init => TypeOK /\ QueueInv
    BY TypeInit, QueueInvInit
  <1>2. TypeOK /\ QueueInv /\ [Next]_vars => TypeOK' /\ QueueInv'
    BY TypeStep, QueueInvStep
  <1> QED
    BY <1>1, <1>2, PTL DEF Spec

\* manager.go:12: at most one job executes, the one the dispatcher waits for.
THEOREM RunsOneAtATime ==
    ASSUME "Start" \notin API
    PROVE  Spec => []OneAtATime
  <1>1. QueueInv => OneAtATime
    BY DEF QueueInv
  <1> QED
    BY <1>1, QueueInvariance, PTL

\* manager.go:66 and 131: Add may broadcast for the first job only, and the
\* dispatcher still never waits while a job in the queue is ready.
THEOREM WakeupsAreNotLost ==
    ASSUME "Start" \notin API
    PROVE  Spec => []NoLostWakeup
  <1>1. QueueInv => NoLostWakeup
    BY DEF QueueInv, WaitsOnEmptyQueue, NoLostWakeup, Queued
  <1> QED
    BY <1>1, QueueInvariance, PTL

-----------------------------------------------------------------------------
(***************************************************************************)
(* The last progress report, whichever operations the clients call.        *)
(***************************************************************************)

\* A timer that is armed has a callback to come; that one resets it.
TimersHaveCallbacks == \A j \in Jobs : timer[j] => callbacks[j] > 0

ProgressInv == LastProgressPending /\ TimersHaveCallbacks

LEMMA ProgressInvStep == TypeOK /\ ProgressInv /\ [Next]_vars => ProgressInv'
  <1> SUFFICES ASSUME TypeOK, ProgressInv, [Next]_vars PROVE ProgressInv'
    OBVIOUS
  <1>0. UNCHANGED progVars => ProgressInv'
    BY DEF ProgressInv, LastProgressPending, TimersHaveCallbacks, progVars
  <1>1. ASSUME NEW j \in Jobs, UpdateProgress(j) PROVE ProgressInv'
    <2>1. CASE /\ timer' = [timer EXCEPT ![j] = TRUE]
               /\ callbacks' = [callbacks EXCEPT ![j] = IF timer[j] THEN @ ELSE @ + 1]
               /\ UNCHANGED notified
      <3>1. callbacks[j] \in Nat /\ (timer[j] => callbacks[j] > 0)
        BY DEF TypeOK, ProgressTypeOK, ProgressInv, TimersHaveCallbacks
      <3>2. timer'[j] /\ callbacks'[j] > 0
        BY <2>1, <3>1 DEF TypeOK, ProgressTypeOK
      <3>3. \A k \in Jobs \ {j} : /\ timer'[k] = timer[k] /\ callbacks'[k] = callbacks[k]
                                  /\ progress'[k] = progress[k]
        BY <1>1, <2>1 DEF UpdateProgress, TypeOK, ProgressTypeOK
      <3> QED
        BY <2>1, <3>2, <3>3 DEF ProgressInv, LastProgressPending, TimersHaveCallbacks
    <2>2. CASE NotifyUpdate(j, progress[j] + 1) /\ UNCHANGED callbacks
      BY <1>1, <2>2
      DEF UpdateProgress, NotifyUpdate, ProgressInv, LastProgressPending,
          TimersHaveCallbacks, TypeOK, ProgressTypeOK
    <2> QED
      BY <1>1, <2>1, <2>2 DEF UpdateProgress
  <1>2. ASSUME NEW j \in Jobs, TimerCallback(j) PROVE ProgressInv'
    BY <1>2
    DEF TimerCallback, NotifyUpdate, ProgressInv, LastProgressPending,
        TimersHaveCallbacks, TypeOK, ProgressTypeOK
  <1>3. ASSUME NEW j \in Jobs, IntervalEnds(j) PROVE ProgressInv'
    BY <1>3 DEF IntervalEnds, ProgressInv, LastProgressPending, TimersHaveCallbacks
  <1>4. ASSUME NEW j \in Jobs, JobFinish(j) \/ CloseDone(j) \/ CancelJob(j)
        PROVE  ProgressInv'
    BY <1>0, <1>4 DEF JobFinish, CloseDone, CancelJob
  <1>5. CASE Dispatcher
    BY <1>0, <1>5 DEF Dispatcher, DispatcherStart, DispatcherWake, DispatcherDone
  <1>6. CASE Add \/ Start \/ CancelAll \/ Stop \/ CloseStop
    BY <1>0, <1>6 DEF Add, Start, CancelAll, Stop, CloseStop
  <1>7. ASSUME NEW s \in Subscribers,
               Subscribe(s) \/ SubscriberLeaves(s) \/ Unsubscribe(s) \/ Receive(s)
        PROVE  ProgressInv'
    BY <1>0, <1>7 DEF Subscribe, SubscriberLeaves, Unsubscribe, Receive
  <1>8. CASE UNCHANGED vars
    BY <1>0, <1>8 DEF vars
  <1> QED
    BY <1>1, <1>2, <1>3, <1>4, <1>5, <1>6, <1>7, <1>8 DEF Next

\* progress.go: however reports, timers and their callbacks are interleaved, a
\* report that subscribers were not told of has a callback coming that tells.
THEOREM LastReportIsTold == Spec => []LastProgressPending
  <1>1. Init => ProgressInv
    BY DEF Init, ProgressInv, LastProgressPending, TimersHaveCallbacks
  <1>2. ProgressInv => LastProgressPending
    BY DEF ProgressInv
  <1> QED
    BY <1>1, <1>2, ProgressInvStep, Typing, PTL DEF Spec

-----------------------------------------------------------------------------
(***************************************************************************)
(* Where jobs are: in the queue or the graveyard, whichever operations the *)
(* clients call.  No ID is used twice because both hold only IDs that have *)
(* been handed out.                                                        *)
(***************************************************************************)
KnownJobs ==
    /\ \A j \in Queued \cup Buried : j <= lastID
    /\ \A j \in Jobs : j > lastID => exec[j] = "none"

Distinct(q) == \A i, k \in DOMAIN q : i # k => q[i] # q[k]
Elements(q) == {q[i] : i \in DOMAIN q}

\* Picking some positions of a sequence picks its elements there, once each.
LEMMA SelectDistinct ==
    ASSUME NEW q \in Seq(Jobs), Distinct(q), NEW S \in SUBSET DOMAIN q,
           NEW f \in Ascending(S)
    PROVE  /\ Distinct(Select(q, f))
           /\ Elements(Select(q, f)) = {q[i] : i \in S}
  <1>1. /\ DOMAIN Select(q, f) = DOMAIN f
        /\ DOMAIN f \subseteq Nat
        /\ \A i \in DOMAIN f : f[i] \in S /\ Select(q, f)[i] = q[f[i]]
    BY SelectSeqType
  <1>2. /\ \A i, k \in DOMAIN f : i < k => f[i] < f[k]
        /\ \A x \in S : \E i \in DOMAIN f : f[i] = x
    BY DEF Ascending
  <1>3. S \subseteq Nat
    BY LenProperties
  <1>4. \A i, k \in DOMAIN f : i # k => f[i] # f[k]
    BY <1>1, <1>2, <1>3
  <1> QED
    BY <1>1, <1>2, <1>4 DEF Distinct, Elements

\* Two sequences without a common element, one after the other.
LEMMA ConcatDistinct ==
    ASSUME NEW p \in Seq(Jobs), NEW q \in Seq(Jobs), Distinct(p), Distinct(q),
           Elements(p) \cap Elements(q) = {}
    PROVE  /\ Distinct(p \o q)
           /\ Elements(p \o q) = Elements(p) \cup Elements(q)
  <1>1. /\ p \o q \in Seq(Jobs) /\ Len(p) \in Nat /\ Len(q) \in Nat
        /\ Len(p \o q) = Len(p) + Len(q)
        /\ \A i \in 1..(Len(p) + Len(q)) :
             (p \o q)[i] = IF i <= Len(p) THEN p[i] ELSE q[i - Len(p)]
    BY ConcatProperties, LenProperties
  <1>2. /\ DOMAIN (p \o q) = 1..(Len(p) + Len(q))
        /\ DOMAIN p = 1..Len(p) /\ DOMAIN q = 1..Len(q)
    BY <1>1, LenProperties
  <1>3. \A i \in DOMAIN p : (p \o q)[i] = p[i] /\ i \in DOMAIN (p \o q)
    BY <1>1, <1>2
  <1>4. \A i \in DOMAIN q : (p \o q)[i + Len(p)] = q[i] /\ i + Len(p) \in DOMAIN (p \o q)
    BY <1>1, <1>2
  <1>5. \A i \in DOMAIN (p \o q) :
           \/ i \in DOMAIN p /\ (p \o q)[i] = p[i]
           \/ i - Len(p) \in DOMAIN q /\ i > Len(p) /\ (p \o q)[i] = q[i - Len(p)]
    BY <1>1, <1>2
  <1>6. Elements(p \o q) = Elements(p) \cup Elements(q)
    <2>1. Elements(p \o q) \subseteq Elements(p) \cup Elements(q)
      BY <1>5 DEF Elements
    <2>2. Elements(p) \subseteq Elements(p \o q)
      BY <1>3 DEF Elements
    <2>3. ASSUME NEW i \in DOMAIN q PROVE q[i] \in Elements(p \o q)
      BY <1>4 DEF Elements
    <2>4. Elements(q) \subseteq Elements(p \o q)
      BY <2>3 DEF Elements
    <2> QED
      BY <2>1, <2>2, <2>4
  <1>7. ASSUME NEW i \in DOMAIN (p \o q), NEW k \in DOMAIN (p \o q), i < k
        PROVE  (p \o q)[i] # (p \o q)[k]
    <2>0. i \in Nat /\ k \in Nat
      BY <1>1, <1>2
    <2>1. CASE k <= Len(p)
      BY <1>1, <1>2, <1>7, <2>0, <2>1 DEF Distinct
    <2>2. CASE i > Len(p)
      <3>1. /\ i - Len(p) \in DOMAIN q /\ k - Len(p) \in DOMAIN q
            /\ i - Len(p) # k - Len(p)
        BY <1>1, <1>2, <1>7, <2>0, <2>2
      <3>2. (p \o q)[i] = q[i - Len(p)] /\ (p \o q)[k] = q[k - Len(p)]
        BY <1>1, <1>2, <1>7, <2>0, <2>2
      <3> QED
        BY <3>1, <3>2 DEF Distinct
    <2>3. CASE i <= Len(p) /\ k > Len(p)
      <3>1. /\ i \in DOMAIN p /\ (p \o q)[i] = p[i]
            /\ k - Len(p) \in DOMAIN q /\ (p \o q)[k] = q[k - Len(p)]
        BY <1>1, <1>2, <2>0, <2>3
      <3> QED
        BY <3>1 DEF Elements
    <2> QED
      BY <1>1, <2>0, <2>1, <2>2, <2>3
  <1>8. DOMAIN (p \o q) \subseteq Nat
    BY <1>1, <1>2
  <1>9. \A i, k \in DOMAIN (p \o q) : i # k => i < k \/ k < i
    BY <1>8
  <1>10. Distinct(p \o q)
    BY <1>7, <1>9 DEF Distinct
  <1> QED
    BY <1>6, <1>10

\* What is left of a graveyard that was cut: all of it, or as much as fits.
LEMMA NewestKeeps ==
    ASSUME NEW q \in Seq(Jobs), Distinct(q)
    PROVE  /\ Distinct(Newest(q))
           /\ Elements(Newest(q)) \subseteq Elements(q)
           /\ Len(Newest(q)) <= MaxGraveyard
           /\ Newest(q) # q => Len(Newest(q)) = MaxGraveyard
           /\ Len(q) >= MaxGraveyard => Len(Newest(q)) = MaxGraveyard
  <1>0. Len(q) \in Nat /\ MaxGraveyard \in Nat \ {0} /\ DOMAIN q = 1..Len(q)
    BY LenProperties, BoundsAssumption
  <1>1. CASE Len(q) > MaxGraveyard
    <2>0. Newest(q) = SubSeq(q, Len(q) - MaxGraveyard + 1, Len(q))
      BY <1>1 DEF Newest
    <2>1. PICK m \in 1..Len(q) : /\ m = Len(q) - MaxGraveyard + 1
                                 /\ Newest(q) = SubSeq(q, m, Len(q))
      <3>1. Len(q) - MaxGraveyard + 1 \in 1..Len(q)
        BY <1>0, <1>1
      <3> QED
        BY <2>0, <3>1
    <2>2. \A i \in m..Len(q) : q[i] \in Jobs
      BY <1>0, <2>1, ElementOfSeq
    <2>3. /\ Len(Newest(q)) = Len(q) - m + 1
          /\ Newest(q) \in Seq(Jobs)
          /\ \A i \in 1..(Len(q) - m + 1) : Newest(q)[i] = q[m + i - 1]
      <3>1. m \in 1..(Len(q) + 1) /\ m \in Int
        BY <1>0, <2>1
      <3> QED
        BY <1>0, <2>1, <2>2, <3>1, SubSeqProperties
    <2>4. Len(Newest(q)) = MaxGraveyard /\ DOMAIN Newest(q) = 1..MaxGraveyard
      BY <1>0, <2>1, <2>3, LenProperties
    <2>5. \A i \in DOMAIN Newest(q) : m + i - 1 \in DOMAIN q /\ Newest(q)[i] = q[m + i - 1]
      BY <1>0, <2>1, <2>3, <2>4
    <2>6. \A i, k \in DOMAIN Newest(q) : i # k => m + i - 1 # m + k - 1
      BY <1>0, <2>1, <2>4
    <2>7. Distinct(Newest(q))
      BY <2>5, <2>6 DEF Distinct
    <2>8. Elements(Newest(q)) \subseteq Elements(q)
      BY <2>5 DEF Elements
    <2> QED
      BY <1>0, <2>4, <2>7, <2>8
  <1>2. CASE Len(q) <= MaxGraveyard
    <2>1. Newest(q) = q
      BY <1>0, <1>2 DEF Newest
    <2>2. Distinct(Newest(q)) /\ Elements(Newest(q)) \subseteq Elements(q)
      BY <2>1
    <2>3. Len(q) >= MaxGraveyard => Len(q) = MaxGraveyard
      <3>1. Len(q) \in Nat /\ MaxGraveyard \in Nat
        BY <1>0
      <3> HIDE DEF Newest
      <3> QED
        BY <1>2, <3>1
    <2>4. Len(Newest(q)) <= MaxGraveyard
      BY <1>2, <2>1
    <2>5. Len(q) >= MaxGraveyard => Len(Newest(q)) = MaxGraveyard
      BY <2>1, <2>3
    <2> QED
      BY <2>1, <2>2, <2>4, <2>5
  <1> QED
    BY <1>0, <1>1, <1>2

\* removeJob takes jobs from the queue and puts them in the graveyard.
LEMMA RemoveJobsPlaces ==
    ASSUME TypeOK, NoJobVanishes, NEW gone \in SUBSET DOMAIN queue, NEW st,
           RemoveJobs(gone, st), lastID' = lastID
    PROVE  /\ NoJobVanishes'
           /\ Queued' = {queue[i] : i \in DOMAIN queue \ gone}
           /\ Buried' \subseteq Buried \cup Queued
  <1>1. PICK stay \in Ascending(DOMAIN queue \ gone), leave \in Ascending(gone) :
               /\ queue' = Select(queue, stay)
               /\ graveyard' = Newest(graveyard \o Select(queue, leave))
    BY DEF RemoveJobs
  <1> DEFINE removed == Select(queue, leave)
             all == graveyard \o removed
  <1>2. /\ queue \in Seq(Jobs) /\ graveyard \in Seq(Jobs)
        /\ Distinct(queue) /\ Distinct(graveyard)
        /\ Elements(queue) = Queued /\ Elements(graveyard) = Buried
    BY DEF TypeOK, JobsTypeOK, NoJobVanishes, Distinct, Elements, Queued, Buried
  <1>3. /\ Distinct(queue')
        /\ Elements(queue') = {queue[i] : i \in DOMAIN queue \ gone}
    BY <1>1, <1>2, SelectDistinct
  <1>4. /\ removed \in Seq(Jobs) /\ Distinct(removed)
        /\ Elements(removed) = {queue[i] : i \in gone}
    BY <1>1, <1>2, SelectDistinct, SelectSeqType
  <1>5. Elements(graveyard) \cap Elements(removed) = {}
    BY <1>2, <1>4 DEF NoJobVanishes, Queued
  <1>6. /\ all \in Seq(Jobs) /\ Distinct(all)
        /\ Elements(all) = Buried \cup {queue[i] : i \in gone}
        /\ Len(all) >= Len(graveyard)
    <2>1. Len(all) = Len(graveyard) + Len(removed) /\ all \in Seq(Jobs)
      BY <1>2, <1>4, ConcatProperties
    <2>2. Len(graveyard) \in Nat /\ Len(removed) \in Nat
      BY <1>2, <1>4, LenProperties
    <2>3. Len(all) >= Len(graveyard)
      BY <2>1, <2>2
    <2> HIDE DEF removed
    <2> QED
      BY <1>2, <1>4, <1>5, <2>1, <2>3, ConcatDistinct
  <1>7. /\ Distinct(graveyard')
        /\ Elements(graveyard') \subseteq Elements(all)
        /\ Len(graveyard') <= MaxGraveyard
        /\ graveyard' # all => Len(graveyard') = MaxGraveyard
        /\ Len(all) >= MaxGraveyard => Len(graveyard') = MaxGraveyard
    <2> HIDE DEF all
    <2> QED
      BY <1>1, <1>6, NewestKeeps DEF all
  <1>8. /\ Queued' = {queue[i] : i \in DOMAIN queue \ gone}
        /\ Buried' = Elements(graveyard')
    BY <1>3 DEF Queued, Buried, Elements
  <1> HIDE DEF all, removed
  <1>9. Queued' \cap Buried' = {}
    <2>1. ASSUME NEW i \in DOMAIN queue \ gone, NEW k \in gone PROVE queue[i] # queue[k]
      BY <2>1, <1>2 DEF Distinct
    <2> QED
      BY <1>2, <1>6, <1>7, <1>8, <2>1 DEF NoJobVanishes, Queued
  <1>10. ASSUME NEW j \in 1..lastID, j \notin Queued' \cup Buried'
         PROVE  Len(graveyard') = MaxGraveyard
    <2>1. CASE j \in Queued \cup Buried
      <3>1. j \in Elements(all)
        BY <1>6, <1>8, <1>10, <2>1 DEF Queued
      <3> QED
        BY <1>7, <1>8, <1>10, <3>1
    <2>2. CASE j \notin Queued \cup Buried
      <3>1. Len(graveyard) = MaxGraveyard
        BY <2>2 DEF NoJobVanishes
      <3> QED
        BY <1>6, <1>7, <3>1
    <2> QED
      BY <2>1, <2>2
  <1>11. Buried' \subseteq Buried \cup Queued
    BY <1>6, <1>7, <1>8 DEF Queued
  <1>12. NoJobVanishes'
    BY <1>3, <1>7, <1>9, <1>10 DEF NoJobVanishes, Distinct
  <1> QED
    BY <1>8, <1>11, <1>12

\* A job that is handed to the queue has an ID that is in neither.
LEMMA AppendPlaces ==
    ASSUME TypeOK, NoJobVanishes, KnownJobs, lastID < MaxJobs, lastID' = lastID + 1,
           queue' = Append(queue, lastID'), graveyard' = graveyard
    PROVE  /\ NoJobVanishes'
           /\ \A j \in Queued' \cup Buried' : j <= lastID'
  <1>1. lastID \in Nat /\ queue \in Seq(Jobs) /\ lastID' \in Jobs
    BY BoundsAssumption DEF TypeOK, JobsTypeOK, Jobs
  <1>2. /\ Len(queue) \in Nat
        /\ DOMAIN queue = 1..Len(queue) /\ DOMAIN queue' = 1..(Len(queue) + 1)
        /\ \A i \in DOMAIN queue : queue'[i] = queue[i]
        /\ queue'[Len(queue) + 1] = lastID'
    BY <1>1, LenProperties, AppendProperties
  <1>3. \A j \in Queued \cup Buried : j \in Jobs /\ j <= lastID
    <2>1. \A q \in Seq(Jobs) : \A i \in DOMAIN q : q[i] \in Jobs
      BY ElementOfSeq, LenProperties
    <2> QED
      BY <2>1 DEF TypeOK, JobsTypeOK, Queued, Buried, KnownJobs
  <1>4. lastID' \notin Queued \cup Buried
    BY <1>1, <1>3 DEF Jobs
  <1>5. Queued' = Queued \cup {lastID'}
    <2>1. Len(queue) + 1 \in DOMAIN queue'
      BY <1>2
    <2>2. \A i \in DOMAIN queue' : i \in DOMAIN queue \/ i = Len(queue) + 1
      BY <1>2
    <2>3. DOMAIN queue \subseteq DOMAIN queue'
      BY <1>2
    <2> QED
      BY <1>2, <2>1, <2>2, <2>3 DEF Queued
  <1>6. Buried' = Buried
    BY DEF Buried
  <1>7. \A i, k \in DOMAIN queue' : i # k => queue'[i] # queue'[k]
    <2>1. \A i \in DOMAIN queue : queue[i] # lastID'
      BY <1>4 DEF Queued
    <2> QED
      BY <1>2, <2>1 DEF NoJobVanishes
  <1>8. \A j \in 1..lastID' : j \notin Queued' \cup Buried' => Len(graveyard') = MaxGraveyard
    <2>1. \A j \in 1..lastID' : j \in 1..lastID \/ j = lastID'
      BY <1>1
    <2> QED
      BY <1>5, <1>6, <2>1 DEF NoJobVanishes
  <1>9. \A j \in Queued' \cup Buried' : j <= lastID'
    BY <1>1, <1>3, <1>5, <1>6 DEF Jobs
  <1>10. Queued' \cap Buried' = {}
    BY <1>4, <1>5, <1>6 DEF NoJobVanishes
  <1> QED
    BY <1>7, <1>8, <1>9, <1>10 DEF NoJobVanishes

\* What the dispatcher and the clients do to the goroutines of jobs: none is
\* started for a job that was not submitted, and the status of one that ended
\* says so.
EndedJobs == \A j \in Jobs : exec[j] \in {"finished", "done"} => status[j] \in Over

NoExecBefore == \A j \in Jobs : j > lastID => exec[j] = "none"

LEMMA DispatchKeeps ==
    ASSUME TypeOK, EndedJobs, NEW j \in Jobs, Dispatch(j)
    PROVE  /\ EndedJobs'
           /\ \A k \in Jobs \ {j} : exec'[k] = exec[k]
  BY DEF Dispatch, EndedJobs, TypeOK, JobsTypeOK

LEMMA ServeOrWaitKeeps ==
    ASSUME TypeOK, EndedJobs, NoExecBefore, lastID' = lastID, NEW q \in Seq(Jobs),
           \A i \in DOMAIN q : q[i] <= lastID, ServeOrWait(q)
    PROVE  EndedJobs' /\ NoExecBefore'
  <1>0. \A i \in DOMAIN q : q[i] \in Jobs
    BY ElementOfSeq, LenProperties
  <1>1. ASSUME NEW i \in DOMAIN q, Dispatch(q[i])
        PROVE  EndedJobs' /\ NoExecBefore'
    <2>1. EndedJobs' /\ \A k \in Jobs \ {q[i]} : exec'[k] = exec[k]
      BY <1>0, <1>1, DispatchKeeps
    <2>2. \A k \in Jobs : k > lastID => k # q[i]
      <3>1. lastID \in Nat /\ q[i] \in Nat /\ q[i] <= lastID
        BY <1>0, BoundsAssumption DEF TypeOK, JobsTypeOK, Jobs
      <3>2. \A k \in Jobs : k \in Nat
        BY DEF Jobs
      <3> QED
        BY <3>1, <3>2
    <2> QED
      BY <2>1, <2>2 DEF NoExecBefore
  <1>2. CASE UNCHANGED <<status, exec>>
    BY <1>2 DEF EndedJobs, NoExecBefore
  <1> QED
    BY <1>1, <1>2 DEF ServeOrWait

LEMMA CancelKeeps ==
    ASSUME TypeOK, EndedJobs, NEW S, Cancel(S), exec' = exec
    PROVE  EndedJobs'
  BY DEF Cancel, EndedJobs, AfterCancel, Over, TypeOK, JobsTypeOK

JobsInv == NoJobVanishes /\ KnownJobs /\ EndedJobs

LEMMA JobsInvStep == TypeOK /\ TypeOK' /\ JobsInv /\ [Next]_vars => JobsInv'
  <1> SUFFICES ASSUME TypeOK, TypeOK', JobsInv, [Next]_vars PROVE JobsInv'
    OBVIOUS
  <1>a. NoJobVanishes /\ KnownJobs /\ EndedJobs /\ NoExecBefore
    BY DEF JobsInv, KnownJobs, NoExecBefore
  <1>b. queue \in Seq(Jobs) /\ \A i \in DOMAIN queue : queue[i] <= lastID
    BY <1>a DEF KnownJobs, Queued, TypeOK, JobsTypeOK
  <1>0. ASSUME UNCHANGED <<queue, graveyard, lastID>>
        PROVE  NoJobVanishes' /\ \A j \in Queued' \cup Buried' : j <= lastID'
    BY <1>0, <1>a DEF NoJobVanishes, KnownJobs, Queued, Buried
  <1>1. ASSUME UNCHANGED jobVars PROVE JobsInv'
    BY <1>0, <1>1, <1>a DEF JobsInv, KnownJobs, EndedJobs, jobVars
  <1>2. ASSUME NEW gone \in SUBSET DOMAIN queue, NEW st, RemoveJobs(gone, st), lastID' = lastID
        PROVE  /\ NoJobVanishes'
               /\ \A j \in Queued' \cup Buried' : j <= lastID'
               /\ queue' \in Seq(Jobs) /\ \A i \in DOMAIN queue' : queue'[i] <= lastID
    <2>1. /\ NoJobVanishes'
          /\ Queued' = {queue[i] : i \in DOMAIN queue \ gone}
          /\ Buried' \subseteq Buried \cup Queued
      BY <1>2, <1>a, RemoveJobsPlaces
    <2>2. \A j \in Queued' \cup Buried' : j <= lastID
      BY <2>1, <1>a DEF KnownJobs, Queued
    <2>3. queue' \in Seq(Jobs) /\ \A i \in DOMAIN queue' : queue'[i] \in Queued'
      BY DEF TypeOK, JobsTypeOK, Queued
    <2> QED
      BY <1>2, <2>1, <2>2, <2>3
  <1>3. ASSUME ServeOrWait(queue), UNCHANGED <<queue, graveyard, lastID>>
        PROVE  JobsInv'
    BY <1>0, <1>3, <1>a, <1>b, ServeOrWaitKeeps DEF JobsInv, KnownJobs, NoExecBefore
  <1>4. CASE DispatcherStart
    BY <1>3, <1>4 DEF DispatcherStart
  <1>5. CASE DispatcherWake
    <2>1. CASE stop = "closed"
      BY <1>0, <1>5, <1>a, <2>1 DEF DispatcherWake, JobsInv, KnownJobs, EndedJobs
    <2>2. CASE stop # "closed"
      BY <1>3, <1>5, <2>2 DEF DispatcherWake
    <2> QED
      BY <2>1, <2>2
  <1>6. CASE DispatcherDone
    <2> DEFINE gone == {i \in DOMAIN queue : queue[i] = current}
    <2>1. gone \in SUBSET DOMAIN queue
      OBVIOUS
    <2>2. RemoveJobs(gone, status) /\ ServeOrWait(queue') /\ lastID' = lastID
      BY <1>6 DEF DispatcherDone
    <2> HIDE DEF gone
    <2>3. /\ NoJobVanishes'
          /\ \A j \in Queued' \cup Buried' : j <= lastID'
          /\ queue' \in Seq(Jobs) /\ \A i \in DOMAIN queue' : queue'[i] <= lastID
      BY <1>2, <2>1, <2>2
    <2>4. EndedJobs' /\ NoExecBefore'
      BY <1>a, <2>2, <2>3, ServeOrWaitKeeps
    <2> QED
      BY <2>3, <2>4 DEF JobsInv, KnownJobs, NoExecBefore
  <1>7. ASSUME NEW j \in Jobs, JobFinish(j) \/ CloseDone(j) PROVE JobsInv'
    <2>1. exec[j] # "none" /\ exec'[j] # "none" /\ UNCHANGED <<queue, graveyard, lastID>>
      BY <1>7 DEF JobFinish, CloseDone, TypeOK, JobsTypeOK
    <2>2. \A k \in Jobs \ {j} : exec'[k] = exec[k]
      BY <1>7 DEF JobFinish, CloseDone, TypeOK, JobsTypeOK
    <2>3. EndedJobs'
      BY <1>7, <1>a DEF JobFinish, CloseDone, EndedJobs, Over, TypeOK, JobsTypeOK
    <2> QED
      BY <1>0, <1>a, <2>1, <2>2, <2>3 DEF JobsInv, KnownJobs
  <1>8. ASSUME NEW S, NEW gone \in SUBSET DOMAIN queue, Cancel(S),
               RemoveJobs(gone, status'), UNCHANGED <<lastID, exec>>
        PROVE  JobsInv'
    <2>1. /\ NoJobVanishes'
          /\ \A j \in Queued' \cup Buried' : j <= lastID'
      BY <1>2, <1>8
    <2>2. EndedJobs'
      BY <1>8, <1>a, CancelKeeps
    <2> QED
      BY <1>8, <1>a, <2>1, <2>2 DEF JobsInv, KnownJobs
  <1>9. ASSUME NEW j \in Jobs, CancelJob(j) PROVE JobsInv'
    BY <1>8, <1>9 DEF CancelJob
  <1>10. CASE CancelAll \/ Stop
    <2>1. CancelEach /\ UNCHANGED <<lastID, exec>>
      BY <1>10 DEF CancelAll, Stop
    <2>2. {p \in Reached : status'[queue[p]] = "CANCELLED"} \in SUBSET DOMAIN queue
      BY DEF Reached
    <2> QED
      BY <1>8, <2>1, <2>2 DEF CancelEach
  <1>11. CASE Add
    <2>1. NoJobVanishes' /\ \A j \in Queued' \cup Buried' : j <= lastID'
      BY <1>11, <1>a, AppendPlaces DEF Add
    <2>2. lastID' \in Jobs /\ exec' = exec /\ exec[lastID'] = "none"
      BY <1>11, <1>a, BoundsAssumption DEF Add, NoExecBefore, TypeOK, JobsTypeOK, Jobs
    <2>3. EndedJobs'
      BY <1>11, <1>a, <2>2 DEF Add, EndedJobs, TypeOK, JobsTypeOK
    <2>4. NoExecBefore'
      BY <1>11, <1>a, BoundsAssumption DEF Add, NoExecBefore, TypeOK, JobsTypeOK, Jobs
    <2> QED
      BY <2>1, <2>3, <2>4 DEF JobsInv, KnownJobs, NoExecBefore
  <1>12. CASE Start
    <2>1. NoJobVanishes' /\ \A j \in Queued' \cup Buried' : j <= lastID'
      BY <1>12, <1>a, AppendPlaces DEF Start
    <2>2. lastID' \in Jobs /\ lastID' = lastID + 1 /\ lastID \in Nat /\ Dispatch(lastID')
      BY <1>12, BoundsAssumption DEF Start, TypeOK, JobsTypeOK, Jobs
    <2>3. EndedJobs' /\ \A k \in Jobs \ {lastID'} : exec'[k] = exec[k]
      BY <1>a, <2>2, DispatchKeeps
    <2>4. \A k \in Jobs : k > lastID' => k # lastID' /\ k > lastID
      BY <2>2 DEF Jobs
    <2>5. NoExecBefore'
      BY <1>a, <2>3, <2>4 DEF NoExecBefore
    <2> QED
      BY <2>1, <2>3, <2>5 DEF JobsInv, KnownJobs, NoExecBefore
  <1>13. ASSUME NEW j \in Jobs,
                UpdateProgress(j) \/ TimerCallback(j) \/ IntervalEnds(j)
         PROVE  JobsInv'
    BY <1>1, <1>13 DEF UpdateProgress, TimerCallback, IntervalEnds
  <1>14. ASSUME NEW s \in Subscribers,
                Subscribe(s) \/ SubscriberLeaves(s) \/ Unsubscribe(s) \/ Receive(s)
         PROVE  JobsInv'
    BY <1>1, <1>14 DEF Subscribe, SubscriberLeaves, Unsubscribe, Receive
  <1>15. CASE UNCHANGED vars
    BY <1>1, <1>15 DEF vars
  <1>16. CASE CloseStop
    BY <1>0, <1>16, <1>a DEF CloseStop, JobsInv, KnownJobs, EndedJobs
  <1> QED
    BY <1>4, <1>5, <1>6, <1>7, <1>9, <1>10, <1>11, <1>12, <1>13, <1>14, <1>15, <1>16
    DEF Next, Dispatcher

LEMMA JobsInvariance == Spec => [](TypeOK /\ JobsInv)
  <1>1. Init => JobsInv
    <2> SUFFICES ASSUME Init PROVE JobsInv
      OBVIOUS
    <2>1. Queued = {} /\ Buried = {} /\ Len(graveyard) = 0
      BY DEF Init, Queued, Buried
    <2> QED
      BY <2>1, BoundsAssumption DEF Init, JobsInv, NoJobVanishes, KnownJobs, EndedJobs
  <1> QED
    BY <1>1, JobsInvStep, TypeInit, TypeStep, PTL DEF Spec

\* manager.go:289-303: whatever is submitted, started, cancelled and removed,
\* GetJob finds a job in exactly one place, until newer ones took its grave.
THEOREM JobsStayFindable == Spec => []NoJobVanishes
  <1>1. JobsInv => NoJobVanishes
    BY DEF JobsInv
  <1> QED
    BY <1>1, JobsInvariance, PTL

-----------------------------------------------------------------------------
(* Departures and the removedJob channels.                                 *)

\* What offering messages adds to a channel: the messages, as far as they fit.
LEMMA OfferedAdds ==
    ASSUME NEW ch \in [Subscribers -> Seq(JobCopies)], NEW msgs \in Seq(JobCopies),
           NEW s \in Subscribers, s \in subscriptions,
           NEW new, new = Offered(ch, msgs)[s]
    PROVE  /\ \A i \in DOMAIN new \ DOMAIN ch[s] : \E k \in DOMAIN msgs : new[i] = msgs[k]
           /\ \/ Len(new) = ChanCap
              \/ \A k \in DOMAIN msgs : \E i \in DOMAIN new \ DOMAIN ch[s] : new[i] = msgs[k]
  <1> DEFINE all == ch[s] \o msgs
  <1>1. new = IF Len(all) > ChanCap THEN SubSeq(all, 1, ChanCap) ELSE all
    BY DEF Offered
  <1>2. /\ all \in Seq(JobCopies) /\ Len(ch[s]) \in Nat /\ Len(msgs) \in Nat
        /\ Len(all) = Len(ch[s]) + Len(msgs)
        /\ \A i \in 1..(Len(ch[s]) + Len(msgs)) :
             all[i] = IF i <= Len(ch[s]) THEN ch[s][i] ELSE msgs[i - Len(ch[s])]
    BY ConcatProperties, LenProperties
  <1>3. /\ DOMAIN ch[s] = 1..Len(ch[s]) /\ DOMAIN msgs = 1..Len(msgs)
        /\ DOMAIN all = 1..Len(all) /\ ChanCap \in Nat \ {0}
    BY <1>2, LenProperties, BoundsAssumption
  <1> HIDE DEF all
  <1>4. CASE Len(all) > ChanCap
    <2>1. \A i \in 1..ChanCap : all[i] \in JobCopies
      BY <1>2, <1>3, <1>4, ElementOfSeq
    <2>2. /\ Len(new) = ChanCap /\ new \in Seq(JobCopies)
          /\ \A i \in 1..ChanCap : new[i] = all[i]
      BY <1>1, <1>3, <1>4, <2>1, SubSeqProperties
    <2>3. DOMAIN new = 1..ChanCap
      BY <2>2, LenProperties
    <2>4. ASSUME NEW i \in DOMAIN new \ DOMAIN ch[s]
          PROVE  i - Len(ch[s]) \in DOMAIN msgs /\ new[i] = msgs[i - Len(ch[s])]
      BY <1>2, <1>3, <1>4, <2>2, <2>3
    <2> QED
      BY <2>2, <2>4
  <1>5. CASE ~(Len(all) > ChanCap)
    <2>1. new = all
      BY <1>1, <1>5
    <2>2. ASSUME NEW i \in DOMAIN new \ DOMAIN ch[s]
          PROVE  i - Len(ch[s]) \in DOMAIN msgs /\ new[i] = msgs[i - Len(ch[s])]
      BY <1>2, <1>3, <2>1
    <2>3. ASSUME NEW k \in DOMAIN msgs
          PROVE  /\ k + Len(ch[s]) \in DOMAIN new \ DOMAIN ch[s]
                 /\ new[k + Len(ch[s])] = msgs[k]
      BY <1>2, <1>3, <2>1
    <2> QED
      BY <2>2, <2>3
  <1> QED
    BY <1>4, <1>5

DepartureTold(s) ==
    /\ \A m \in Sent(removedJob, removedJob', s) :
        /\ m.id \in Queued \ Queued'
        /\ m.status \in Over
    /\ \A j \in Queued \ Queued' :
        \/ \E m \in Sent(removedJob, removedJob', s) : m.id = j
        \/ Len(removedJob'[s]) = ChanCap

\* removeJob announces the jobs it takes out of the queue, and no others.
LEMMA RemoveJobsAnnounces ==
    ASSUME TypeOK, NoJobVanishes, NEW gone \in SUBSET DOMAIN queue,
           NEW st \in [Jobs -> Status], RemoveJobs(gone, st), lastID' = lastID,
           \A i \in gone : st[queue[i]] \in Over,
           NEW s \in subscriptions
    PROVE  DepartureTold(s)
  <1> DEFINE copies(removed) ==
               [i \in DOMAIN removed |->
                   JobCopy(removed[i], st[removed[i]], progress[removed[i]])]
  <1>1. PICK leave \in Ascending(gone) :
               removedJob' = Offered(removedJob, copies(Select(queue, leave)))
    BY DEF RemoveJobs
  <1>2. queue \in Seq(Jobs) /\ Distinct(queue) /\ s \in Subscribers
    BY DEF TypeOK, JobsTypeOK, SubscriptionsTypeOK, NoJobVanishes, Distinct
  <1>3. PICK removed \in Seq(Jobs) :
               /\ removed = Select(queue, leave)
               /\ \A i \in DOMAIN removed : \E p \in gone : removed[i] = queue[p]
               /\ \A p \in gone : \E i \in DOMAIN removed : removed[i] = queue[p]
    <2>1. Select(queue, leave) \in Seq(Jobs)
      BY <1>2, SelectSeqType
    <2>2. Elements(Select(queue, leave)) = {queue[i] : i \in gone}
      BY <1>2, SelectDistinct
    <2> QED
      BY <2>1, <2>2 DEF Elements
  <1>4. Queued \ Queued' = {queue[p] : p \in gone}
    <2>1. Queued' = {queue[i] : i \in DOMAIN queue \ gone}
      BY RemoveJobsPlaces
    <2>2. ASSUME NEW i \in DOMAIN queue \ gone, NEW p \in gone PROVE queue[i] # queue[p]
      BY <2>2, <1>2 DEF Distinct
    <2> QED
      BY <2>1, <2>2 DEF Queued
  <1>5. /\ copies(removed) \in Seq(JobCopies)
        /\ DOMAIN copies(removed) = DOMAIN removed
        /\ \A i \in DOMAIN removed : /\ copies(removed)[i].id = removed[i]
                                     /\ copies(removed)[i].status = st[removed[i]]
    <2>1. Len(removed) \in Nat /\ removed \in [1..Len(removed) -> Jobs]
      BY <1>3, LenProperties
    <2>2. \A i \in 1..Len(removed) :
             JobCopy(removed[i], st[removed[i]], progress[removed[i]]) \in JobCopies
      BY <2>1, JobCopyType DEF TypeOK, ProgressTypeOK
    <2>3. copies(removed) \in [1..Len(removed) -> JobCopies]
      BY <2>1, <2>2
    <2> QED
      BY <2>1, <2>3 DEF JobCopy
  <1>6. PICK c \in Seq(JobCopies) : c = copies(removed)
    BY <1>5
  <1> HIDE DEF copies
  <1>7. /\ \A i \in DOMAIN removedJob'[s] \ DOMAIN removedJob[s] :
             \E k \in DOMAIN c : removedJob'[s][i] = c[k]
        /\ \/ Len(removedJob'[s]) = ChanCap
           \/ \A k \in DOMAIN c :
                \E i \in DOMAIN removedJob'[s] \ DOMAIN removedJob[s] : removedJob'[s][i] = c[k]
    <2>1. removedJob' = Offered(removedJob, c)
      BY <1>1, <1>3, <1>6
    <2>2. removedJob \in [Subscribers -> Seq(JobCopies)]
      BY DEF TypeOK, ChannelsTypeOK
    <2>3. c \in Seq(JobCopies) /\ removedJob'[s] = Offered(removedJob, c)[s]
      BY <1>6, <2>1
    <2>4. ASSUME NEW new, new = Offered(removedJob, c)[s]
          PROVE  /\ \A i \in DOMAIN new \ DOMAIN removedJob[s] : \E k \in DOMAIN c : new[i] = c[k]
                 /\ \/ Len(new) = ChanCap
                    \/ \A k \in DOMAIN c :
                         \E i \in DOMAIN new \ DOMAIN removedJob[s] : new[i] = c[k]
      <3>1. s \in Subscribers /\ s \in subscriptions
        BY <1>2
      <3> QED
        BY <3>1, <2>2, <2>3, <2>4, OfferedAdds
    <2> QED
      BY <2>3, <2>4
  <1>8. ASSUME NEW m \in Sent(removedJob, removedJob', s)
        PROVE  m.id \in Queued \ Queued' /\ m.status \in Over
    <2>1. PICK k \in DOMAIN removed : m = c[k]
      BY <1>5, <1>6, <1>7 DEF Sent
    <2>2. PICK p \in gone : removed[k] = queue[p]
      BY <1>3
    <2> QED
      BY <1>4, <1>5, <1>6, <2>1, <2>2
  <1>9. ASSUME NEW j \in Queued \ Queued', Len(removedJob'[s]) # ChanCap
        PROVE  \E m \in Sent(removedJob, removedJob', s) : m.id = j
    <2>1. PICK k \in DOMAIN removed : removed[k] = j
      BY <1>3, <1>4
    <2>2. PICK i \in DOMAIN removedJob'[s] \ DOMAIN removedJob[s] : removedJob'[s][i] = c[k]
      BY <1>5, <1>6, <1>7, <1>9
    <2> QED
      BY <1>5, <1>6, <2>1, <2>2 DEF Sent
  <1> QED
    BY <1>8, <1>9 DEF DepartureTold

LEMMA StepAnnounces ==
    ASSUME TypeOK, TypeOK', JobsInv, [Next]_vars, NEW s \in subscriptions
    PROVE  DepartureTold(s)
  <1>1. ASSUME removedJob' = removedJob, Queued \subseteq Queued' PROVE DepartureTold(s)
    BY <1>1 DEF DepartureTold, Sent
  <1>2. UNCHANGED queue => Queued' = Queued
    BY DEF Queued
  <1>3. CASE DispatcherStart \/ DispatcherWake
    BY <1>1, <1>2, <1>3 DEF DispatcherStart, DispatcherWake
  <1>4. CASE DispatcherDone
    <2> DEFINE gone == {i \in DOMAIN queue : queue[i] = current}
    <2>1. \A i \in gone : status[queue[i]] \in Over
      <3>1. \A i \in DOMAIN queue : queue[i] \in Jobs
        BY ElementOfSeq, LenProperties DEF TypeOK, JobsTypeOK
      <3> QED
        BY <1>4, <3>1 DEF DispatcherDone, JobsInv, EndedJobs
    <2>2. RemoveJobs(gone, status) /\ lastID' = lastID /\ status \in [Jobs -> Status]
      BY <1>4 DEF DispatcherDone, TypeOK, JobsTypeOK
    <2>3. gone \in SUBSET DOMAIN queue
      OBVIOUS
    <2> HIDE DEF gone
    <2> QED
      BY <2>1, <2>2, <2>3, RemoveJobsAnnounces DEF JobsInv
  <1>5. ASSUME NEW gone \in SUBSET DOMAIN queue, RemoveJobs(gone, status'), lastID' = lastID,
               \A i \in gone : status'[queue[i]] = "CANCELLED"
        PROVE  DepartureTold(s)
    <2>1. status' \in [Jobs -> Status] /\ \A i \in gone : status'[queue[i]] \in Over
      BY <1>5 DEF TypeOK, JobsTypeOK, Over
    <2> QED
      BY <1>5, <2>1, RemoveJobsAnnounces DEF JobsInv
  <1>6. ASSUME NEW j \in Jobs, CancelJob(j) PROVE DepartureTold(s)
    <2>1. RemoveJobs({i \in DOMAIN queue : queue[i] = j /\ status'[j] = "CANCELLED"}, status')
            /\ lastID' = lastID
      BY <1>6 DEF CancelJob
    <2>2. \A i \in {i \in DOMAIN queue : queue[i] = j /\ status'[j] = "CANCELLED"} :
             status'[queue[i]] = "CANCELLED"
      OBVIOUS
    <2> QED
      BY <1>5, <2>1, <2>2
  <1>7. CASE CancelAll \/ Stop
    <2>1. CancelEach /\ lastID' = lastID
      BY <1>7 DEF CancelAll, Stop
    <2>2. {p \in Reached : status'[queue[p]] = "CANCELLED"} \in SUBSET DOMAIN queue
      BY DEF Reached
    <2> QED
      BY <1>5, <2>1, <2>2 DEF CancelEach
  <1>8. CASE Add \/ Start
    <2>1. queue \in Seq(Jobs) /\ queue' = Append(queue, lastID') /\ removedJob' = removedJob
      BY <1>8 DEF Add, Start, TypeOK, JobsTypeOK
    <2>2. lastID' \in Jobs
      BY <1>8, BoundsAssumption DEF Add, Start, TypeOK, JobsTypeOK, Jobs
    <2>3. \A i \in DOMAIN queue : i \in DOMAIN queue' /\ queue'[i] = queue[i]
      BY <2>1, <2>2, AppendProperties, LenProperties
    <2> QED
      BY <1>1, <2>1, <2>3 DEF Queued
  <1>9. ASSUME NEW u \in Subscribers, Receive(u) PROVE DepartureTold(s)
    <2>1. Queued' = Queued
      BY <1>2, <1>9 DEF Receive, jobVars
    <2>2. CASE removedJob' = removedJob
      BY <1>1, <2>1, <2>2
    <2>3. CASE removedJob[u] # <<>> /\ removedJob' = [removedJob EXCEPT ![u] = Tail(@)]
      <3>1. s \in Subscribers /\ removedJob \in [Subscribers -> Seq(JobCopies)]
        BY DEF TypeOK, SubscriptionsTypeOK, ChannelsTypeOK
      <3>2. \A q \in Seq(JobCopies) : q # <<>> => DOMAIN Tail(q) \subseteq DOMAIN q
        <4>1. ASSUME NEW q \in Seq(JobCopies), q # <<>>
              PROVE  DOMAIN Tail(q) \subseteq DOMAIN q
          <5>1. Tail(q) \in Seq(JobCopies) /\ Len(Tail(q)) = Len(q) - 1 /\ Len(q) \in Nat
            BY <4>1, HeadTailProperties, LenProperties
          <5>2. DOMAIN Tail(q) = 1..(Len(q) - 1) /\ DOMAIN q = 1..Len(q)
            BY <5>1, LenProperties
          <5> QED
            BY <5>1, <5>2
        <4> QED
          BY <4>1
      <3>3. DOMAIN removedJob'[s] \subseteq DOMAIN removedJob[s]
        BY <2>3, <3>1, <3>2
      <3> QED
        BY <2>1, <3>3 DEF DepartureTold, Sent
    <2> QED
      BY <1>9, <2>2, <2>3 DEF Receive
  <1>10. CASE UNCHANGED <<jobVars, chanVars>>
    BY <1>1, <1>2, <1>10 DEF jobVars, chanVars
  <1>11. ASSUME NEW j \in Jobs, JobFinish(j) \/ CloseDone(j)
         PROVE  DepartureTold(s)
    BY <1>1, <1>2, <1>11 DEF JobFinish, CloseDone, chanVars
  <1>12. ASSUME NEW j \in Jobs, UpdateProgress(j) \/ TimerCallback(j) \/ IntervalEnds(j)
         PROVE  DepartureTold(s)
    BY <1>1, <1>2, <1>12 DEF UpdateProgress, TimerCallback, IntervalEnds, jobVars, chanVars
  <1>13. ASSUME NEW u \in Subscribers, Subscribe(u) \/ SubscriberLeaves(u) \/ Unsubscribe(u)
         PROVE  DepartureTold(s)
    BY <1>10, <1>13 DEF Subscribe, SubscriberLeaves, Unsubscribe
  <1>14. CASE CloseStop
    BY <1>1, <1>14 DEF CloseStop, Queued, chanVars
  <1> QED
    BY <1>3, <1>4, <1>6, <1>7, <1>8, <1>9, <1>10, <1>11, <1>12, <1>13, <1>14
    DEF Next, Dispatcher, vars

\* manager.go:200-234: every subscription learns of every job that leaves the
\* queue, once and with the status it ended with, as long as it has room.
THEOREM DeparturesAreTold == Spec => DepartureAnnounced
  <1>1. TypeOK /\ TypeOK' /\ JobsInv /\ [Next]_vars =>
          [\A s \in subscriptions :
              /\ \A m \in Sent(removedJob, removedJob', s) :
                  /\ m.id \in Queued \ Queued'
                  /\ m.status \in Over
              /\ \A j \in Queued \ Queued' :
                  \/ \E m \in Sent(removedJob, removedJob', s) : m.id = j
                  \/ Len(removedJob'[s]) = ChanCap]_vars
    <2>1. TypeOK /\ TypeOK' /\ JobsInv /\ [Next]_vars =>
            \A s \in subscriptions : DepartureTold(s)
      BY StepAnnounces
    <2> QED
      BY <2>1 DEF DepartureTold
  <1> QED
    BY <1>1, JobsInvariance, PTL DEF Spec, DepartureAnnounced

-----------------------------------------------------------------------------
(***************************************************************************)
(* The safety part of ImplementsJobQueue: without Start, every run of the  *)
(* manager is a run of the job queue it promises.                          *)
(***************************************************************************)
Waiting == {j \in Jobs : status[j] = "READY"}
Active  == {j \in Jobs : status[j] \in Live}
Ended   == {j \in Jobs : status[j] \in Over}

\* A step that leaves the statuses and the last ID as they are.
LEMMA SameStatusStutters ==
    ASSUME status' = status, lastID' = lastID
    PROVE  UNCHANGED Promise!vars
  BY DEF Promise!vars

\* A turn of the dispatcher's loop begins the oldest waiting job, if any.
LEMMA ServeOrWaitImplements ==
    ASSUME TypeOK, TypeOK', QueueInv', ServeOrWait(queue'), lastID' = lastID,
           \A j \in Jobs : status[j] \notin Live
    PROVE  [Promise!Next]_(Promise!vars)
  <1>1. /\ queue' \in Seq(Jobs) /\ status \in [Jobs -> Status]
        /\ \A i \in DOMAIN queue' : queue'[i] \in Jobs
        /\ DOMAIN queue' \subseteq Nat
    BY ElementOfSeq, LenProperties DEF TypeOK, JobsTypeOK
  <1>2. CASE status' = status
    BY <1>2, SameStatusStutters
  <1>3. ASSUME NEW i \in DOMAIN queue', IsFirstReady(queue', i), Dispatch(queue'[i])
        PROVE  Promise!Begin
    <2> DEFINE j == queue'[i]
    <2>1. j \in Jobs /\ status[j] = "READY" /\ status' = [status EXCEPT ![j] = "RUNNING"]
      BY <1>1, <1>3 DEF IsFirstReady, Dispatch
    <2>2. \A k \in Jobs : status'[k] = IF k = j THEN "RUNNING" ELSE status[k]
      BY <1>1, <2>1
    <2>3. ASSUME NEW k \in Waiting PROVE j <= k
      <3>1. k \in Jobs /\ status[k] = "READY"
        BY DEF Waiting
      <3>2. CASE k = j
        BY <3>1, <3>2 DEF Jobs
      <3>3. CASE k # j
        <4>1. PICK l \in DOMAIN queue' : queue'[l] = k
          BY <2>2, <3>1, <3>3 DEF QueueInv, ReadyAreQueued, Queued
        <4>2. l > i
          BY <1>1, <1>3, <3>1, <3>3, <4>1, LenProperties DEF IsFirstReady
        <4> QED
          BY <1>1, <3>1, <4>1, <4>2 DEF QueueInv, IDsInOrder, Jobs
      <3> QED
        BY <3>2, <3>3
    <2>4. Active = {} /\ Active' = {j} /\ Waiting' = Waiting \ {j} /\ Ended' = Ended
      BY <2>1, <2>2 DEF Active, Waiting, Ended, Live, Over
    <2>5. j \in Waiting
      BY <2>1 DEF Waiting
    <2> QED
      BY <2>3, <2>4, <2>5, Zenon DEF Promise!Begin, Active, Waiting, Ended
  <1> QED
    BY <1>2, <1>3 DEF ServeOrWait, Promise!Next

\* The job that ends is the one that is active.
LEMMA FinishImplements ==
    ASSUME TypeOK, QueueInv, NEW j \in Jobs, JobFinish(j)
    PROVE  Promise!End
  <1>1. status[j] \in Live /\ \A k \in Jobs : status[k] \in Live => k = j
    BY DEF JobFinish, QueueInv, ExecMatchesStatus, OneAtATime
  <1>2. /\ \A k \in Jobs \ {j} : status'[k] = status[k]
        /\ status'[j] \in Over
    BY DEF JobFinish, TypeOK, JobsTypeOK, Over
  <1>3. Active = {j} /\ Active' = {} /\ Ended' = Ended \cup {j} /\ Waiting' = Waiting
    BY <1>1, <1>2 DEF Active, Waiting, Ended, Live, Over
  <1> QED
    BY <1>3 DEF JobFinish, Promise!End, Active, Waiting, Ended

\* Cancelling withdraws the jobs that were ready, and those only.
LEMMA CancelImplements ==
    ASSUME TypeOK, NEW S \in SUBSET Jobs, Cancel(S), lastID' = lastID
    PROVE  [Promise!Next]_(Promise!vars)
  <1> DEFINE gone == {j \in S : status[j] = "READY"}
  <1>1. \A j \in Jobs : status'[j] = IF j \in S THEN AfterCancel(status[j]) ELSE status[j]
    BY DEF Cancel
  <1>2. \A j \in Jobs : status[j] \in Status
    BY DEF TypeOK, JobsTypeOK
  <1>3. /\ Active' = Active /\ Waiting' = Waiting \ gone /\ Ended' = Ended \cup gone
        /\ gone \in SUBSET Waiting
    BY <1>1, <1>2 DEF AfterCancel, Active, Waiting, Ended, Live, Over, Status
  <1>4. CASE gone = {}
    <2>1. Active' = Active /\ Waiting' = Waiting /\ Ended' = Ended
      BY <1>3, <1>4
    <2> QED
      BY <2>1 DEF Promise!vars, Active, Waiting, Ended
  <1>5. CASE gone # {}
    BY <1>3, <1>5 DEF Promise!Next, Promise!Withdraw, Active, Waiting, Ended
  <1> QED
    BY <1>4, <1>5

\* Add hands out the next ID to a job that was new.
LEMMA AddImplements ==
    ASSUME TypeOK, QueueInv, Add
    PROVE  Promise!Enqueue
  <1>1. /\ lastID' = lastID + 1 /\ lastID \in Nat /\ lastID < MaxJobs /\ lastID' \in Jobs
        /\ status \in [Jobs -> Status]
    BY BoundsAssumption DEF Add, TypeOK, JobsTypeOK, Jobs
  <1>2. status[lastID'] = "NEW"
    BY <1>1 DEF QueueInv, IDsInOrder
  <1>3. \A j \in Jobs : status'[j] = IF j = lastID' THEN "READY" ELSE status[j]
    BY <1>1 DEF Add
  <1>4. Active' = Active /\ Waiting' = Waiting \cup {lastID + 1} /\ Ended' = Ended
    BY <1>1, <1>2, <1>3 DEF Active, Waiting, Ended, Live, Over
  <1> QED
    BY <1>1, <1>4 DEF Promise!Enqueue, Active, Waiting, Ended

LEMMA StepImplements ==
    ASSUME "Start" \notin API, TypeOK, TypeOK', QueueInv, QueueInv', [Next]_vars
    PROVE  [Promise!Next]_(Promise!vars)
  <1>1. CASE DispatcherStart \/ DispatcherWake
    <2>1. (dispatcher # "running" => \A j \in Jobs : status[j] \notin Live)
            /\ lastID' = lastID /\ queue' = queue
      BY <1>1, NothingLive DEF DispatcherStart, DispatcherWake
    <2> QED
      BY <1>1, <2>1, ServeOrWaitImplements, SameStatusStutters
      DEF DispatcherStart, DispatcherWake
  <1>2. CASE DispatcherDone
    <2>1. \A j \in Jobs : status[j] \notin Live
      BY <1>2, NothingLive DEF DispatcherDone
    <2> QED
      BY <1>2, <2>1, ServeOrWaitImplements DEF DispatcherDone
  <1>3. ASSUME NEW j \in Jobs, JobFinish(j)
        PROVE  [Promise!Next]_(Promise!vars)
    BY <1>3, FinishImplements DEF Promise!Next
  <1>4. ASSUME NEW j \in Jobs, CancelJob(j)
        PROVE  [Promise!Next]_(Promise!vars)
    BY <1>4, CancelImplements DEF CancelJob
  <1>5. CASE CancelAll \/ Stop
    <2>1. {queue[p] : p \in Reached} \in SUBSET Jobs
      BY ElementOfSeq, LenProperties DEF Reached, TypeOK, JobsTypeOK
    <2> QED
      BY <1>5, <2>1, CancelImplements DEF CancelAll, Stop, CancelEach
  <1>6. CASE Add
    BY <1>6, AddImplements DEF Promise!Next
  <1>7. CASE UNCHANGED jobVars
    BY <1>7, SameStatusStutters DEF jobVars
  <1>8. ASSUME NEW j \in Jobs,
               CloseDone(j) \/ UpdateProgress(j) \/ TimerCallback(j) \/ IntervalEnds(j)
        PROVE  [Promise!Next]_(Promise!vars)
    BY <1>7, <1>8, SameStatusStutters
    DEF CloseDone, UpdateProgress, TimerCallback, IntervalEnds
  <1>9. ASSUME NEW s \in Subscribers,
               Subscribe(s) \/ SubscriberLeaves(s) \/ Unsubscribe(s) \/ Receive(s)
        PROVE  [Promise!Next]_(Promise!vars)
    BY <1>7, <1>9 DEF Subscribe, SubscriberLeaves, Unsubscribe, Receive
  <1>10. CASE CloseStop
    BY <1>10, SameStatusStutters DEF CloseStop
  <1> QED
    BY <1>1, <1>2, <1>3, <1>4, <1>5, <1>6, <1>7, <1>8, <1>9, <1>10
    DEF Next, Dispatcher, Start, vars

\* manager.go:12: IDs in order, one job at a time and the oldest first, and a
\* job that is cancelled before it began never runs.
THEOREM ImplementsTheQueue ==
    ASSUME "Start" \notin API
    PROVE  Spec => Promise!Init /\ [][Promise!Next]_(Promise!vars)
  <1>1. Init => Promise!Init
    BY DEF Init, Promise!Init, Live, Over
  <1>2. TypeOK /\ TypeOK' /\ QueueInv /\ QueueInv' /\ [Next]_vars =>
          [Promise!Next]_(Promise!vars)
    BY StepImplements
  <1> QED
    BY <1>1, <1>2, QueueInvariance, PTL DEF Spec

=============================================================================
