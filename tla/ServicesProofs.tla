----------------------------- MODULE ServicesProofs -----------------------------
(***************************************************************************)
(* What is proved of the services beside the job manager.  Of DLNA, for    *)
(* any clients, durations and instants: the timers agree with the state of *)
(* the service, an announced end is on its way, and clients are let in as  *)
(* granted.  Of downloads and readers of files: what is handed out is      *)
(* looked after.  Of the server's start, set-up and migrations: users'     *)
(* data is kept.                                                           *)
(***************************************************************************)
EXTENDS Services, FiniteSetTheorems, SequenceTheorems, TLAPS

\* A time is announced by a timer.
TimesHaveTimers ==
  /\ stopTimer = NoTimer => stopTime = NoTime
  /\ startTimer = NoTimer => startTime = NoTime

\* TimersMatch and EndIsComing need each other and TimesHaveTimers: Stop
\* clears the announced end only where it finds a timer.
ServiceInv == TypeOK /\ TimersMatch /\ EndIsComing /\ TimesHaveTimers

USE DEF serviceVars, timerVars, whitelistVars

LEMMA ServiceInitial == Init => ServiceInv
<1> SUFFICES ASSUME Init PROVE ServiceInv
  OBVIOUS
<1>1. WhitelistTypeOK
  BY DEF Init, WhitelistInit, WhitelistTypeOK
<1>2. 0 \in Times /\ 0 \in 0..MaxFired
  BY WhitelistAssumption, DlnaAssumption DEF Times
<1>3. TypeOK
  BY <1>1, <1>2 DEF Init, TypeOK
<1> QED
  BY <1>3, DlnaAssumption
  DEF Init, ServiceInv, TimersMatch, EndIsComing, TimesHaveTimers

LEMMA UntilType ==
  ASSUME TypeOK, NEW d \in Durations \cup {NoDuration}, InReach(d)
  PROVE  /\ Until(d) \in Times \cup {Forever}
         /\ d # NoDuration => now + d \in Times
BY WhitelistAssumption DEF TypeOK, Until, InReach, Times

Servers == {"closed", "launched", "opened", "serving", "stuck", "crashed"}

\* Start and Stop, called by a user or by a timer's goroutine.
LEMMA StartKeeps ==
  ASSUME ServiceInv, NEW d, d # NoDuration => now + d \in Times, Start(d)
  PROVE  /\ running' = TRUE /\ promised' \in BOOLEAN /\ server' \in Servers
         /\ stopTimer' \in Times \cup {NoTimer, Idle}
         /\ startTimer' = NoTimer /\ startTime' = NoTime
         /\ stopTime' \in Times \cup {NoTime}
         /\ stopTimer' = NoTimer => stopTime' = NoTime
         /\ stopTime' # NoTime =>
              stopTimer' = stopTime' \/ (firedStop > 0 /\ d = NoDuration)
<1>1. startTimer' = NoTimer /\ startTime' = NoTime /\ server' \in Servers
  BY DEF Servers, TypeOK, Start, StartServer, ServiceInv, TimersMatch, TimesHaveTimers
<1>2. CASE d = NoDuration
  BY <1>1, <1>2
  DEF Start, StartServer, ServiceInv, TypeOK, EndIsComing, TimesHaveTimers
<1>3. CASE d # NoDuration
  BY <1>1, <1>3, DlnaAssumption DEF Start, StartServer, ArmStop, Times
<1> QED
  BY <1>2, <1>3

LEMMA StopKeeps ==
  ASSUME ServiceInv, NEW d, d # NoDuration => now + d \in Times, Stop(d)
  PROVE  /\ running' = FALSE /\ promised' = FALSE /\ server' \in Servers
         /\ stopTimer' = NoTimer /\ stopTime' = NoTime
         /\ startTimer' \in Times \cup {NoTimer, Idle}
         /\ startTime' \in Times \cup {NoTime}
         /\ startTimer' = NoTimer => startTime' = NoTime
<1>1. /\ running' = FALSE /\ promised' = FALSE /\ server' \in Servers
      /\ stopTimer' = NoTimer /\ stopTime' = NoTime
  BY DEF Servers, Stop, StopServer, ServiceInv, TimersMatch, TimesHaveTimers
<1>2. CASE d = NoDuration
  BY <1>1, <1>2 DEF Stop, ServiceInv, TypeOK, TimesHaveTimers
<1>3. CASE d # NoDuration
  BY <1>1, <1>3, DlnaAssumption DEF Stop, ArmStart, ServiceInv, TypeOK, Times
<1> QED
  BY <1>2, <1>3

LEMMA UserStartsKeeps ==
  ASSUME ServiceInv, NEW d \in Durations \cup {NoDuration}, UserStarts(d)
  PROVE  ServiceInv'
<1>1. CASE UNCHANGED vars
  BY <1>1 DEF vars, ServiceInv, TypeOK, WhitelistTypeOK, TimersMatch,
              EndIsComing, TimesHaveTimers
<1>2. CASE Start(d) /\ UNCHANGED <<firedStop, firedStart>>
  <2>1. d # NoDuration => now + d \in Times
    BY UntilType DEF UserStarts, ServiceInv
  <2>2. TypeOK'
    BY <1>2, <2>1, StartKeeps, Zenon
    DEF UserStarts, ServiceInv, TypeOK, WhitelistTypeOK, Servers
  <2> QED
    BY <1>2, <2>1, <2>2, StartKeeps
    DEF ServiceInv, TimersMatch, EndIsComing, TimesHaveTimers
<1> QED
  BY <1>1, <1>2 DEF UserStarts, SetupFails, vars

\* Stop does not return.
LEMMA StuckStopKeeps ==
  ASSUME ServiceInv, server' \in Servers,
         UNCHANGED <<now, whitelistVars, running, promised, timerVars, firedStop,
                     firedStart>>
  PROVE  ServiceInv'
BY DEF ServiceInv, TypeOK, WhitelistTypeOK, TimersMatch, EndIsComing,
       TimesHaveTimers, Servers

LEMMA UserStopsKeeps ==
  ASSUME ServiceInv, NEW d \in Durations \cup {NoDuration}, UserStops(d)
  PROVE  ServiceInv'
<1>1. CASE Stop(d)
  <2>1. d # NoDuration => now + d \in Times
    BY UntilType DEF UserStops, ServiceInv
  <2>2. TypeOK'
    BY <1>1, <2>1, StopKeeps
    DEF UserStops, ServiceInv, TypeOK, WhitelistTypeOK, Servers
  <2> QED
    BY <1>1, <2>1, <2>2, StopKeeps
    DEF UserStops, ServiceInv, TimersMatch, EndIsComing, TimesHaveTimers
<1>2. CASE ~Stop(d)
  BY <1>2, StuckStopKeeps DEF UserStops, StopHangs, StopPanics, Servers
<1> QED
  BY <1>1, <1>2

LEMMA FiringKeeps ==
  ASSUME ServiceInv, FireStop \/ FireStart PROVE ServiceInv'
<1>1. CASE FireStop
  <2>1. running /\ firedStop' > 0 /\ firedStop' \in 0..MaxFired
    BY <1>1, DlnaAssumption
    DEF FireStop, Due, ServiceInv, TypeOK, TimersMatch, Times
  <2>2. TypeOK'
    BY <1>1, <2>1 DEF FireStop, ServiceInv, TypeOK, WhitelistTypeOK
  <2> QED
    BY <1>1, <2>1, <2>2, DlnaAssumption
    DEF FireStop, ServiceInv, TimersMatch, EndIsComing, TimesHaveTimers
<1>2. CASE FireStart
  <2>1. ~running /\ firedStart' \in 0..MaxFired
    BY <1>2, DlnaAssumption
    DEF FireStart, Due, ServiceInv, TypeOK, TimersMatch, Times
  <2>2. TypeOK'
    BY <1>2, <2>1 DEF FireStart, ServiceInv, TypeOK, WhitelistTypeOK
  <2> QED
    BY <1>2, <2>1, <2>2, DlnaAssumption
    DEF FireStart, ServiceInv, TimersMatch, EndIsComing, TimesHaveTimers
<1> QED
  BY <1>1, <1>2

LEMMA StopCallbackKeeps ==
  ASSUME ServiceInv, StopCallback PROVE ServiceInv'
<1>1. CASE Stop(NoDuration) /\ firedStop' = firedStop - 1
  <2>1. firedStop' \in 0..MaxFired
    BY <1>1, DlnaAssumption DEF StopCallback, ServiceInv, TypeOK
  <2>2. TypeOK'
    BY <1>1, <2>1, StopKeeps
    DEF StopCallback, ServiceInv, TypeOK, WhitelistTypeOK, Servers
  <2> QED
    BY <1>1, <2>2, StopKeeps
    DEF ServiceInv, TimersMatch, EndIsComing, TimesHaveTimers
<1>2. CASE ~(Stop(NoDuration) /\ firedStop' = firedStop - 1)
  BY <1>2, StuckStopKeeps DEF StopCallback, StopHangs, StopPanics, Servers
<1> QED
  BY <1>1, <1>2

LEMMA StartCallbackKeeps ==
  ASSUME ServiceInv, StartCallback PROVE ServiceInv'
<1>1. firedStart' \in 0..MaxFired
  BY DlnaAssumption DEF StartCallback, ServiceInv, TypeOK
<1>2. CASE Start(NoDuration)
  <2>1. TypeOK'
    BY <1>1, <1>2, StartKeeps, Zenon
    DEF StartCallback, ServiceInv, TypeOK, WhitelistTypeOK, Servers
  <2> QED
    BY <1>2, <2>1, StartKeeps
    DEF StartCallback, ServiceInv, TimersMatch, EndIsComing, TimesHaveTimers
<1>3. CASE UNCHANGED <<running, promised, timerVars, server>>
  BY <1>1, <1>3
  DEF StartCallback, ServiceInv, TypeOK, WhitelistTypeOK, TimersMatch,
      EndIsComing, TimesHaveTimers
<1> QED
  BY <1>2, <1>3 DEF StartCallback

\* The whitelist's operations keep its type and touch no timer.
LEMMA WhitelistKeepsType ==
  ASSUME TypeOK, WhitelistNext \/ AskStatus
  PROVE  WhitelistTypeOK' /\ UNCHANGED now
<1> USE DEF TypeOK, WhitelistTypeOK
<1>1. WithoutExpired \in [Patterns -> Times \cup {Absent, Forever}]
  BY DEF WithoutExpired
<1>2. CASE AskStatus \/ \E a \in Addresses : Request(a)
  BY <1>1, <1>2 DEF AskStatus, Request
<1>3. CASE \E p \in Patterns : RemovePattern(p)
  BY <1>3 DEF RemovePattern
<1>4. ASSUME NEW p \in Patterns, NEW d \in Durations \cup {NoDuration},
             AllowPattern(p, d)
      PROVE  WhitelistTypeOK' /\ UNCHANGED now
  <2>1. Until(d) \in Times \cup {Forever}
    BY <1>4, UntilType DEF AllowPattern
  <2> QED
    BY <1>4, <2>1 DEF AllowPattern
<1> QED
  BY <1>2, <1>3, <1>4 DEF WhitelistNext

LEMMA ServiceStep == ServiceInv /\ [Next]_vars => ServiceInv'
<1> SUFFICES ASSUME ServiceInv, [Next]_vars PROVE ServiceInv'
  OBVIOUS
<1>1. CASE Tick
  BY <1>1, WhitelistAssumption
  DEF Tick, ServiceInv, TypeOK, WhitelistTypeOK, Times, TimersMatch,
      EndIsComing, TimesHaveTimers
<1>2. CASE (WhitelistNext \/ AskStatus) /\ UNCHANGED serviceVars
  <2>1. WhitelistTypeOK' /\ UNCHANGED now
    BY <1>2, WhitelistKeepsType DEF ServiceInv
  <2> QED
    BY <1>2, <2>1 DEF ServiceInv, TypeOK, TimersMatch, EndIsComing, TimesHaveTimers
<1>3. CASE Serve \/ UNCHANGED vars
  BY <1>3, StuckStopKeeps DEF Serve, vars, ServiceInv, TypeOK, Servers
<1> QED
  BY <1>1, <1>2, <1>3, UserStartsKeeps, UserStopsKeeps, FiringKeeps,
     StopCallbackKeeps, StartCallbackKeeps DEF Next

\* An entry is the grant, or it is gone because the grant has ended.  A cleared
\* entry stays true to its grant since time only goes on.
EntriesAreGrants == \A p \in Patterns :
  temp[p] = granted[p] \/ (temp[p] = Absent /\ Expired(granted[p]))

LEMMA EntriesInitial == Init => EntriesAreGrants
BY DEF Init, WhitelistInit, EntriesAreGrants

LEMMA WhitelistKeepsEntries ==
  ASSUME TypeOK, EntriesAreGrants, WhitelistNext \/ AskStatus
  PROVE  EntriesAreGrants'
<1> USE DEF EntriesAreGrants, TypeOK, WhitelistTypeOK
<1>1. ASSUME NEW p \in Patterns
      PROVE  \/ WithoutExpired[p] = granted[p]
             \/ WithoutExpired[p] = Absent /\ Expired(granted[p])
  <2>1. WithoutExpired[p] = IF Expired(temp[p]) THEN Absent ELSE temp[p]
    BY DEF WithoutExpired
  <2>2. temp[p] = granted[p] \/ (temp[p] = Absent /\ Expired(granted[p]))
    OBVIOUS
  <2>3. CASE Expired(temp[p])
    BY <2>1, <2>2, <2>3
  <2>4. CASE ~Expired(temp[p])
    BY <2>1, <2>2, <2>4
  <2> QED
    BY <2>3, <2>4
<1>2. CASE AskStatus \/ \E a \in Addresses : Request(a)
  <2>1. /\ UNCHANGED <<now, granted>>
        /\ temp' = temp \/ temp' = WithoutExpired
    BY <1>2 DEF AskStatus, Request
  <2> QED
    BY <1>1, <2>1 DEF Expired
<1>3. ASSUME NEW q \in Patterns, NEW until,
             temp' = [temp EXCEPT ![q] = until],
             granted' = [granted EXCEPT ![q] = until],
             UNCHANGED now
      PROVE  EntriesAreGrants'
  BY <1>3 DEF Expired
<1> QED
  BY <1>2, <1>3 DEF WhitelistNext, RemovePattern, AllowPattern

LEMMA EntriesStep ==
  TypeOK /\ EntriesAreGrants /\ [Next]_vars => EntriesAreGrants'
<1> SUFFICES ASSUME TypeOK, EntriesAreGrants, [Next]_vars
             PROVE  EntriesAreGrants'
  OBVIOUS
<1>1. CASE UNCHANGED <<temp, granted>> /\ now' \in Int /\ now' >= now
  <2> SUFFICES ASSUME NEW p \in Patterns, Expired(granted[p])
               PROVE  now' > granted[p]
    BY <1>1 DEF EntriesAreGrants, Expired
  <2>1. granted[p] \in Times
    BY DEF Expired, TypeOK, WhitelistTypeOK
  <2>2. now \in Int /\ granted[p] \in Int
    BY <2>1, WhitelistAssumption DEF TypeOK, Times
  <2> QED
    BY <1>1, <2>1, <2>2 DEF Expired
<1>2. CASE WhitelistNext \/ AskStatus
  BY <1>2, WhitelistKeepsEntries
<1>3. now \in Int
  BY WhitelistAssumption DEF TypeOK, Times
<1> QED
  BY <1>1, <1>2, <1>3
  DEF Next, vars, Tick, Serve, FireStop, FireStart, StopCallback, StartCallback,
      UserStarts, UserStops

LEMMA EntriesDecide ==
  ASSUME TypeOK, EntriesAreGrants PROVE GrantsHold
<1>1. ASSUME NEW p \in Patterns
      PROVE  (temp[p] # Absent /\ ~Expired(temp[p])) <=>
               \/ granted[p] = Forever
               \/ granted[p] # Absent /\ granted[p] # Forever /\ now <= granted[p]
  <2>1. /\ temp[p] = granted[p] \/ (temp[p] = Absent /\ Expired(granted[p]))
        /\ granted[p] \in Times \cup {Absent, Forever}
    BY DEF EntriesAreGrants, TypeOK, WhitelistTypeOK
  <2>2. CASE granted[p] \in Times
    <3>1. now \in Int /\ granted[p] \in Int
      BY <2>2, WhitelistAssumption DEF TypeOK, Times
    <3> QED
      BY <2>1, <3>1, WhitelistAssumption DEF Expired
  <2>3. CASE granted[p] \in {Absent, Forever}
    BY <2>1, <2>3, WhitelistAssumption DEF Expired
  <2> QED
    BY <2>1, <2>2, <2>3
<1>2. ASSUME NEW a \in Addresses PROVE {a, Wildcard} \subseteq Patterns
  BY DEF Patterns
<1> QED
  BY <1>1, <1>2, Zenon DEF GrantsHold, IpAllowed

(***************************************************************************)
(* A running service has no timer that would start it, a stopped one none  *)
(* that would stop it, whatever timers fire late (service.go:203-207,      *)
(* 244-248).                                                               *)
(***************************************************************************)
THEOREM TimersFollowService == Spec => []TimersMatch
<1> QED
  BY ServiceInitial, ServiceStep, PTL DEF Spec, ServiceInv

(***************************************************************************)
(* The end that Status announces has a timer or a callback that will bring *)
(* it (service.go:219-223).                                                *)
(***************************************************************************)
THEOREM AnnouncedEndIsComing == Spec => []EndIsComing
<1> QED
  BY ServiceInitial, ServiceStep, PTL DEF Spec, ServiceInv

(***************************************************************************)
(* A client is let in exactly while the configuration or a grant says so,  *)
(* whenever the list is cleared up (whitelist.go:89-125).                  *)
(***************************************************************************)
THEOREM ClientsAreLetInAsGranted == Spec => []GrantsHold
<1>1. Init => TypeOK /\ EntriesAreGrants
  BY ServiceInitial, EntriesInitial DEF ServiceInv
<1>2. ServiceInv => TypeOK
  BY DEF ServiceInv
<1>3. TypeOK /\ EntriesAreGrants => GrantsHold
  BY EntriesDecide
<1> QED
  BY <1>1, <1>2, <1>3, ServiceInitial, ServiceStep, EntriesStep, PTL DEF Spec

-----------------------------------------------------------------------------
(***************************************************************************)
(* Downloads.  A file's counter is the number of requests it serves; all   *)
(* of them that did not come after the last one before it keep the file,   *)
(* and the remover at its wait.                                            *)
(***************************************************************************)
Waiters(f, requests) == {c \in Clients : requests[c].file = f}

RequestType ==
  [at : {"idle", "not found", "found", "serving", "served", "missing", "gone"},
   file : Files \cup {None}, late : BOOLEAN, done : BOOLEAN]

DownloadsType ==
  /\ store \in [Keys -> Files \cup {None}] /\ onDisk \subseteq Files
  /\ wg \in [Files -> Nat]
  /\ remover \in [Files -> {"none", "sleeping", "waiting", "released", "removing", "removed"}]
  /\ request \in [Clients -> RequestType]
  /\ stuck \in BOOLEAN /\ panicked \in BOOLEAN

InTime(c) == request[c].file # None /\ ~request[c].late =>
  request[c].file \in onDisk /\ remover[request[c].file] \in {"sleeping", "waiting"}

Asked(c) ==
  /\ request[c].at = "idle" => request[c].file = None
  /\ request[c].at = "found" /\ ~request[c].done => request[c].file # None

Kept(k) == store[k] # None => store[k] \in onDisk /\ remover[store[k]] # "removed"

Counted(f) == wg[f] = Cardinality(Waiters(f, request))

DownloadsInv ==
  /\ DownloadsType
  /\ \A c \in Clients : InTime(c) /\ Asked(c)
  /\ \A k \in Keys : Kept(k)
  /\ \A f \in Files : Counted(f)
  /\ FoundIsServed

LEMMA DownloadsInitial == DownloadsInit => DownloadsInv
<1> SUFFICES ASSUME DownloadsInit PROVE DownloadsInv
  OBVIOUS
<1>1. DownloadsType
  BY DEF DownloadsInit, DownloadsType, NoRequest, RequestType
<1>2. \A f \in Files : Waiters(f, request) = {}
  BY DownloadAssumption DEF DownloadsInit, Waiters, NoRequest
<1>3. \A f \in Files : Counted(f)
  BY <1>2, FS_EmptySet DEF Counted, DownloadsInit
<1> QED
  BY <1>1, <1>3
  DEF DownloadsInv, InTime, Asked, Kept, FoundIsServed, DownloadsInit, NoRequest

LEMMA WaitersFinite ==
  \A f, requests : IsFiniteSet(Waiters(f, requests)) /\ Cardinality(Waiters(f, requests)) \in Nat
<1> SUFFICES ASSUME NEW f, NEW requests
             PROVE  IsFiniteSet(Waiters(f, requests)) /\ Cardinality(Waiters(f, requests)) \in Nat
  OBVIOUS
<1>1. Waiters(f, requests) \in SUBSET Clients
  BY DEF Waiters
<1>2. IsFiniteSet(Waiters(f, requests))
  BY <1>1, DownloadAssumption, FS_Subset
<1> QED
  BY <1>2, FS_CardinalityType

\* Requests and their goroutines count for the same files.
LEMMA SameWaiters ==
  ASSUME NEW f, \A c \in Clients : request'[c].file = request[c].file
  PROVE  Waiters(f, request') = Waiters(f, request)
BY DEF Waiters

LEMMA RegisteringKeeps ==
  ASSUME DownloadsInv, (\E f \in Files : RegisterFile(f)) \/ RegisterFails
  PROVE  DownloadsInv'
<1>1. UNCHANGED <<wg, remover, request, panicked>> /\ onDisk \subseteq onDisk'
  BY DEF RegisterFile, RegisterFails
<1>2. DownloadsType'
  BY DEF RegisterFile, RegisterFails, DownloadsInv, DownloadsType
<1>3. ASSUME NEW k \in Keys PROVE Kept(k)'
  BY <1>3 DEF RegisterFile, RegisterFails, DownloadsInv, DownloadsType, Kept
<1> QED
  BY <1>1, <1>2, <1>3 DEF DownloadsInv, InTime, Asked, Counted, FoundIsServed

LEMMA ServingKeeps ==
  ASSUME DownloadsInv, NEW c \in Clients, NEW k \in Keys, ServeFound(c, k)
  PROVE  DownloadsInv'
<1>0. /\ UNCHANGED <<store, onDisk, stuck, panicked>> /\ ~panicked
      /\ request[c].at = "idle" /\ request[c].file = None
      /\ request[c] \in RequestType
  BY DEF ServeFound, Free, DownloadsInv, DownloadsType, Asked
<1>1. CASE store[k] = None
  <2>1. request' = [request EXCEPT ![c].at = "not found"] /\ UNCHANGED <<wg, remover>>
    BY <1>1 DEF ServeFound
  <2>2. DownloadsType'
    BY <1>0, <2>1 DEF DownloadsInv, DownloadsType, RequestType
  <2>3. \A d \in Clients : /\ request'[d].file = request[d].file
                           /\ request'[d].late = request[d].late
                           /\ request'[d].done = request[d].done
                           /\ request'[d].at = IF d = c THEN "not found" ELSE request[d].at
    BY <2>1 DEF DownloadsInv, DownloadsType, RequestType
  <2>4. \A f \in Files : Waiters(f, request') = Waiters(f, request)
    BY <2>3, SameWaiters
  <2>5. ASSUME NEW d \in Clients PROVE InTime(d)' /\ Asked(d)'
    <3>1. InTime(d)'
      <4>1. /\ InTime(d) /\ onDisk' = onDisk /\ remover' = remover
            /\ request'[d].file = request[d].file /\ request'[d].late = request[d].late
        BY <1>0, <2>1, <2>3 DEF DownloadsInv
      <4> QED
        BY <4>1, Zenon DEF InTime
    <3>2. Asked(d)'
      BY <1>0, <2>3 DEF DownloadsInv, Asked
    <3> QED
      BY <3>1, <3>2
  <2>6. FoundIsServed'
    BY <1>0, <2>3 DEF DownloadsInv, FoundIsServed
  <2> QED
    BY <1>0, <2>1, <2>2, <2>4, <2>5, <2>6 DEF DownloadsInv, Kept, Counted
<1>2. ASSUME NEW f \in Files, store[k] = f PROVE DownloadsInv'
  <2>1. f # None
    BY DownloadAssumption
  <2>2. /\ request' = [request EXCEPT ![c] =
             [at |-> "found", file |-> f, late |-> Leaving(f), done |-> FALSE]]
        /\ wg' = [wg EXCEPT ![f] = @ + 1]
        /\ remover' = IF remover[f] = "none"
                      THEN [remover EXCEPT ![f] = "sleeping"] ELSE remover
    BY <1>2, <2>1 DEF ServeFound
  <2>3. DownloadsType'
    <3>1. [at |-> "found", file |-> f, late |-> Leaving(f), done |-> FALSE] \in RequestType
      BY DEF RequestType, Leaving
    <3> QED
      BY <1>0, <2>2, <3>1 DEF DownloadsInv, DownloadsType
  <2>4. /\ request'[c] = [at |-> "found", file |-> f, late |-> Leaving(f), done |-> FALSE]
        /\ \A d \in Clients \ {c} : request'[d] = request[d]
    BY <2>2 DEF DownloadsInv, DownloadsType
  <2>5. \A g \in Files : Counted(g)'
    <3>1. ASSUME NEW g \in Files, g # f PROVE Waiters(g, request') = Waiters(g, request)
      BY <1>0, <2>4, <3>1, DownloadAssumption DEF Waiters
    <3>2. Waiters(f, request') = Waiters(f, request) \cup {c} /\ c \notin Waiters(f, request)
      BY <1>0, <2>1, <2>4 DEF Waiters
    <3>3. Cardinality(Waiters(f, request')) = Cardinality(Waiters(f, request)) + 1
      BY <3>2, WaitersFinite, FS_AddElement
    <3> QED
      BY <2>2, <3>1, <3>3 DEF DownloadsInv, DownloadsType, Counted
  <2>6. f \in onDisk /\ remover[f] # "removed"
    BY <1>2, <2>1 DEF DownloadsInv, Kept
  <2>7. /\ ~Leaving(f) => remover'[f] \in {"sleeping", "waiting"}
        /\ \A g \in Files : remover'[g] = remover[g] \/ (g = f /\ remover'[g] = "sleeping")
    BY <2>2, <2>6 DEF DownloadsInv, DownloadsType, Leaving
  <2>8. ASSUME NEW d \in Clients PROVE InTime(d)' /\ Asked(d)'
    <3>1. CASE d = c
      BY <1>0, <2>1, <2>4, <2>6, <2>7, <3>1 DEF InTime, Asked
    <3>2. CASE d # c
      <4>1. InTime(d) /\ Asked(d) /\ request'[d] = request[d] /\ request[d] \in RequestType
        BY <2>4, <3>2 DEF DownloadsInv, DownloadsType
      <4> QED
        BY <1>0, <2>7, <4>1 DEF InTime, Asked, RequestType
    <3> QED
      BY <3>1, <3>2
  <2>9. \A l \in Keys : Kept(l)'
    BY <1>0, <2>7 DEF DownloadsInv, DownloadsType, Kept
  <2>10. FoundIsServed'
    BY <1>0, <2>4 DEF DownloadsInv, FoundIsServed
  <2> QED
    BY <2>3, <2>5, <2>8, <2>9, <2>10 DEF DownloadsInv
<1> QED
  BY <1>1, <1>2 DEF DownloadsInv, DownloadsType

LEMMA ReadingKeeps ==
  ASSUME DownloadsInv, NEW c \in Clients, Open(c) \/ Finish(c)
  PROVE  DownloadsInv'
<1>0. /\ UNCHANGED <<store, onDisk, wg, remover, stuck, panicked>> /\ ~panicked
      /\ InTime(c) /\ Asked(c) /\ request[c] \in RequestType
      /\ request \in [Clients -> RequestType]
  BY DEF Open, Finish, DownloadsInv, DownloadsType
<1>1. \A d \in Clients \ {c} : request'[d] = request[d]
  BY <1>0 DEF Open, Finish
<1>2. /\ request'[c].file = request[c].file /\ request'[c].late = request[c].late
      /\ request'[c] \in RequestType /\ request'[c].at # "idle"
  <2>1. CASE Open(c)
    <3>1. PICK a \in {"gone", "serving", "missing"} : request' = [request EXCEPT ![c].at = a]
      BY <2>1, Zenon DEF Open
    <3> QED
      BY <1>0, <3>1 DEF RequestType
  <2>2. CASE Finish(c)
    <3>1. /\ request[c].at \in {"found", "serving", "missing"}
          /\ request' = [request EXCEPT ![c].at = IF @ = "serving" THEN "served" ELSE @,
                                        ![c].done = TRUE]
      BY <2>2 DEF Finish
    <3>2. request'[c] = [at |-> IF request[c].at = "serving" THEN "served" ELSE request[c].at,
                         file |-> request[c].file, late |-> request[c].late, done |-> TRUE]
      BY <1>0, <3>1 DEF RequestType
    <3> QED
      BY <1>0, <3>1, <3>2 DEF RequestType
  <2> QED
    BY <2>1, <2>2
<1>3. /\ request'[c].at = "missing" => request'[c].late
      /\ request'[c].at = "found" => request'[c].done
  <2>1. CASE Open(c)
    BY <1>0, <1>2, <2>1 DEF Open, InTime, Asked, RequestType
  <2>2. CASE Finish(c)
    BY <1>0, <1>2, <2>2 DEF Finish, RequestType, DownloadsInv, FoundIsServed
  <2> QED
    BY <2>1, <2>2
<1>4. request' \in [Clients -> RequestType]
  BY <1>0, <1>2 DEF Open, Finish
<1>5. \A f \in Files : Waiters(f, request') = Waiters(f, request)
  BY <1>1, <1>2, SameWaiters
<1>6. \A d \in Clients : InTime(d)' /\ Asked(d)'
  BY <1>0, <1>1, <1>2, <1>3 DEF DownloadsInv, InTime, Asked
<1>7. FoundIsServed'
  BY <1>0, <1>1, <1>3 DEF DownloadsInv, FoundIsServed
<1> QED
  BY <1>0, <1>4, <1>5, <1>6, <1>7 DEF DownloadsInv, DownloadsType, Kept, Counted

LEMMA NotifyingKeeps ==
  ASSUME DownloadsInv, NEW c \in Clients, Notified(c)
  PROVE  DownloadsInv'
<1> DEFINE f == request[c].file
<1>0. /\ UNCHANGED <<store, onDisk, stuck, panicked>> /\ ~panicked
      /\ request[c].done /\ f # None /\ f \in Files
      /\ request \in [Clients -> RequestType]
  BY DEF Notified, Free, DownloadsInv, DownloadsType, RequestType
<1>1. /\ request' = [request EXCEPT ![c].file = None]
      /\ wg' = [wg EXCEPT ![f] = @ - 1]
      /\ remover' = IF wg'[f] = 0 /\ remover[f] = "waiting"
                    THEN [remover EXCEPT ![f] = "released"] ELSE remover
  BY DEF Notified
<1>2. /\ \A d \in Clients \ {c} : request'[d] = request[d]
      /\ request'[c].file = None /\ request'[c].at = request[c].at
      /\ request'[c].late = request[c].late /\ request'[c].done = request[c].done
      /\ request' \in [Clients -> RequestType]
  BY <1>0, <1>1 DEF RequestType
<1>3. /\ Waiters(f, request') = Waiters(f, request) \ {c} /\ c \in Waiters(f, request)
      /\ \A g \in Files \ {f} : Waiters(g, request') = Waiters(g, request)
  BY <1>0, <1>2, DownloadAssumption DEF Waiters
<1>4. /\ Cardinality(Waiters(f, request')) = wg[f] - 1
      /\ wg[f] - 1 \in Nat
  <2>1. /\ wg[f] = Cardinality(Waiters(f, request)) /\ IsFiniteSet(Waiters(f, request))
        /\ Cardinality(Waiters(f, request)) \in Nat /\ Cardinality(Waiters(f, request')) \in Nat
    BY <1>0, WaitersFinite DEF DownloadsInv, Counted
  <2>2. Cardinality(Waiters(f, request')) = Cardinality(Waiters(f, request)) - 1
    BY <1>3, <2>1, FS_RemoveElement
  <2> QED
    BY <2>1, <2>2
<1>5. wg' \in [Files -> Nat] /\ \A g \in Files : Counted(g)'
  BY <1>0, <1>1, <1>3, <1>4 DEF DownloadsInv, DownloadsType, Counted
<1>6. /\ remover' \in [Files -> {"none", "sleeping", "waiting", "released", "removing", "removed"}]
      /\ \A g \in Files : \/ remover'[g] = remover[g]
                          \/ /\ g = f /\ remover'[g] = "released"
                             /\ Waiters(f, request') = {}
  <2>1. wg'[f] = 0 => Waiters(f, request') = {}
    BY <1>0, <1>5, WaitersFinite, FS_EmptySet DEF Counted
  <2> QED
    BY <1>0, <1>1, <2>1 DEF DownloadsInv, DownloadsType
<1>7. ASSUME NEW d \in Clients PROVE InTime(d)' /\ Asked(d)'
  <2>1. CASE d = c
    BY <1>0, <1>2, <2>1 DEF InTime, Asked, DownloadsInv
  <2>2. CASE d # c
    <3>1. InTime(d) /\ Asked(d) /\ request'[d] = request[d] /\ request[d] \in RequestType
      BY <1>0, <1>2, <2>2 DEF DownloadsInv
    <3>2. request[d].file = f => Waiters(f, request') # {}
      BY <3>1 DEF Waiters
    <3> QED
      BY <1>0, <1>6, <3>1, <3>2 DEF InTime, Asked, RequestType
  <2> QED
    BY <2>1, <2>2
<1>8. \A k \in Keys : Kept(k)'
  BY <1>0, <1>6 DEF DownloadsInv, DownloadsType, Kept
<1>9. FoundIsServed'
  BY <1>0, <1>2 DEF DownloadsInv, FoundIsServed
<1> QED
  BY <1>0, <1>2, <1>5, <1>6, <1>7, <1>8, <1>9 DEF DownloadsInv, DownloadsType

LEMMA CleaningKeeps ==
  ASSUME DownloadsInv, NEW f \in Files, CleanUp(f)
  PROVE  DownloadsInv'
<1>0. UNCHANGED <<wg, request, stuck>> /\ ~panicked
  BY DEF CleanUp, Wake, WaitReturns, RemoveFile, Free
<1>1. \A g \in Files : Counted(g)'
  BY <1>0 DEF DownloadsInv, Counted
<1>2. ASSUME NEW c \in Clients, request[c].file = f, ~request[c].late
      PROVE  remover[f] \in {"sleeping", "waiting"} /\ wg[f] # 0
  <2>1. remover[f] \in {"sleeping", "waiting"}
    BY <1>2, DownloadAssumption DEF DownloadsInv, InTime
  <2>2. Waiters(f, request) # {}
    BY <1>2 DEF Waiters
  <2> QED
    BY <2>1, <2>2, WaitersFinite, FS_EmptySet DEF DownloadsInv, Counted
<1>3. CASE Wake(f)
  <2>1. /\ UNCHANGED <<store, onDisk, panicked>>
        /\ \A g \in Files : \/ remover'[g] = remover[g]
                            \/ /\ g = f /\ remover'[g] = IF wg[f] = 0 THEN "removing" ELSE "waiting"
    BY <1>3 DEF Wake, DownloadsInv, DownloadsType
  <2>2. DownloadsType'
    BY <1>0, <1>3 DEF Wake, DownloadsInv, DownloadsType
  <2>3. ASSUME NEW c \in Clients PROVE InTime(c)' /\ Asked(c)'
    <3>1. InTime(c) /\ Asked(c) /\ request[c].file \in Files \cup {None}
      BY DEF DownloadsInv, DownloadsType, RequestType
    <3> QED
      BY <1>0, <1>2, <2>1, <3>1 DEF InTime, Asked
  <2>4. \A k \in Keys : Kept(k)'
    BY <2>1 DEF DownloadsInv, DownloadsType, Kept
  <2> QED
    BY <1>0, <1>1, <2>1, <2>2, <2>3, <2>4 DEF DownloadsInv, FoundIsServed
<1>4. CASE WaitReturns(f)
  <2>1. /\ UNCHANGED <<store, onDisk>> /\ remover[f] = "released"
        /\ \A g \in Files : remover'[g] = IF g = f THEN "removing" ELSE remover[g]
    BY <1>4 DEF WaitReturns, DownloadsInv, DownloadsType
  <2>2. DownloadsType'
    BY <1>0, <1>4 DEF WaitReturns, DownloadsInv, DownloadsType
  <2>3. ASSUME NEW c \in Clients PROVE InTime(c)' /\ Asked(c)'
    <3>1. InTime(c) /\ Asked(c) /\ request[c].file \in Files \cup {None}
      BY DEF DownloadsInv, DownloadsType, RequestType
    <3> QED
      BY <1>0, <1>2, <2>1, <3>1 DEF InTime, Asked
  <2>4. \A k \in Keys : Kept(k)'
    BY <2>1 DEF DownloadsInv, DownloadsType, Kept
  <2>5. panicked' => \E c \in Clients : request[c].late
    <3>1. ASSUME wg[f] # 0 PROVE \E c \in Clients : request[c].late
      <4>1. Waiters(f, request) # {}
        BY <3>1, WaitersFinite, FS_EmptySet DEF DownloadsInv, Counted
      <4>2. PICK c \in Clients : request[c].file = f
        BY <4>1 DEF Waiters
      <4> QED
        BY <1>2, <2>1, <4>2
    <3> QED
      BY <1>4, <3>1 DEF WaitReturns
  <2> QED
    BY <1>0, <1>1, <2>2, <2>3, <2>4, <2>5 DEF DownloadsInv, FoundIsServed
<1>5. CASE RemoveFile(f)
  <2>1. /\ UNCHANGED panicked /\ onDisk' = onDisk \ {f} /\ remover[f] = "removing"
        /\ store' = [k \in Keys |-> IF store[k] = f THEN None ELSE store[k]]
        /\ \A g \in Files : remover'[g] = IF g = f THEN "removed" ELSE remover[g]
    BY <1>5 DEF RemoveFile, DownloadsInv, DownloadsType
  <2>2. DownloadsType'
    BY <1>0, <1>5 DEF RemoveFile, DownloadsInv, DownloadsType
  <2>3. ASSUME NEW c \in Clients PROVE InTime(c)' /\ Asked(c)'
    <3>1. InTime(c) /\ Asked(c) /\ request[c].file \in Files \cup {None}
      BY DEF DownloadsInv, DownloadsType, RequestType
    <3> QED
      BY <1>0, <1>2, <2>1, <3>1 DEF InTime, Asked
  <2>4. \A k \in Keys : Kept(k)'
    BY <2>1 DEF DownloadsInv, DownloadsType, Kept
  <2> QED
    BY <1>0, <1>1, <2>1, <2>2, <2>3, <2>4 DEF DownloadsInv, FoundIsServed
<1> QED
  BY <1>3, <1>4, <1>5 DEF CleanUp

LEMMA DownloadsStep == DownloadsInv /\ [DownloadsNext]_downloadVars => DownloadsInv'
<1> SUFFICES ASSUME DownloadsInv, [DownloadsNext]_downloadVars PROVE DownloadsInv'
  OBVIOUS
<1>1. CASE UNCHANGED downloadVars
  BY <1>1 DEF downloadVars, DownloadsInv, DownloadsType, InTime, Asked, Kept, Counted,
     FoundIsServed
<1>2. CASE Ask
  BY <1>2, RegisteringKeeps, ServingKeeps DEF Ask
<1>3. CASE \E c \in Clients : GoOn(c)
  BY <1>3, ReadingKeeps, NotifyingKeeps DEF GoOn
<1>4. CASE \E f \in Files : CleanUp(f)
  BY <1>4, CleaningKeeps
<1> QED
  BY <1>1, <1>2, <1>3, <1>4 DEF DownloadsNext

-----------------------------------------------------------------------------
(***************************************************************************)
(* Read locks.  The slice's elements are the waiting contexts, each once;  *)
(* what Cancel does with older slices only ends contexts.                  *)
(***************************************************************************)
Element == Locks \cup {NoLock}

LockInv ==
  /\ arrays \in Seq(Seq(Element)) /\ arrays # <<>>
  /\ len \in 0..Len(Current)
  /\ \A i, j \in 1..len : Current[i] = Current[j] => i = j
  /\ IsFiniteSet(waiting) /\ waiting \subseteq taken /\ taken \subseteq Locks
  /\ ReadersAreListed

\* The slice after a step, by what it was.
Appended(new, l) ==
  /\ new \in Seq(Element) /\ len + 1 <= Len(new) /\ new[len + 1] = l
  /\ \A i \in 1..len : new[i] = Current[i]

LEMMA CurrentSlice ==
  ASSUME LockInv
  PROVE  /\ Current \in Seq(Element) /\ Len(arrays) \in Nat \ {0}
         /\ Len(Current) \in Nat /\ len \in Nat /\ DOMAIN Current = 1..Len(Current)
         /\ \A i \in 1..len : Current[i] \in Element
<1>1. Len(arrays) \in Nat \ {0} /\ Len(arrays) \in 1..Len(arrays)
  BY EmptySeq DEF LockInv
<1>2. Current \in Seq(Element)
  BY <1>1, ElementOfSeq DEF LockInv, Current
<1>3. Len(Current) \in Nat /\ DOMAIN Current = 1..Len(Current)
  BY <1>2, LenProperties
<1>4. len \in Nat /\ len <= Len(Current)
  BY <1>3 DEF LockInv
<1>5. \A i \in 1..len : Current[i] \in Element
  BY <1>2, <1>3, <1>4, ElementOfSeq
<1> QED
  BY <1>1, <1>2, <1>3, <1>4, <1>5

\* The last of the arrays is replaced, or a new one comes after it.
LEMMA ReplaceLast ==
  ASSUME LockInv, NEW new \in Seq(Element),
         arrays' = [arrays EXCEPT ![Len(arrays)] = new] \/ arrays' = Append(arrays, new)
  PROVE  arrays' \in Seq(Seq(Element)) /\ arrays' # <<>> /\ Current' = new
<1>1. Len(arrays) \in Nat \ {0} /\ arrays \in Seq(Seq(Element))
  BY CurrentSlice DEF LockInv
<1>2. CASE arrays' = [arrays EXCEPT ![Len(arrays)] = new]
  <2>1. /\ arrays' \in Seq(Seq(Element)) /\ Len(arrays') = Len(arrays)
        /\ arrays'[Len(arrays)] = new
    BY <1>1, <1>2, ExceptSeq
  <2>2. arrays' # <<>>
    BY <1>1, <2>1, EmptySeq
  <2> QED
    BY <2>1, <2>2 DEF Current
<1>3. CASE arrays' = Append(arrays, new)
  BY <1>1, <1>3, AppendProperties DEF Current
<1> QED
  BY <1>2, <1>3

LEMMA LocksInitial == LocksInit => LockInv
<1> SUFFICES ASSUME LocksInit PROVE LockInv
  OBVIOUS
<1>1. <<>> \in Seq(Element) /\ Len(<<>>) = 0
  BY EmptySeq
<1>2. arrays = << <<>> >> /\ arrays \in Seq(Seq(Element)) /\ Len(arrays) = 1 /\ Current = <<>>
  BY <1>1 DEF LocksInit, Current
<1>3. arrays # <<>>
  BY <1>1, <1>2
<1>4. len = 0 /\ Entries = {} /\ waiting = {} /\ held = {} /\ taken = {}
  BY DEF LocksInit, Entries
<1>5. ReadersAreListed /\ IsFiniteSet(waiting)
  BY <1>4, FS_EmptySet DEF ReadersAreListed
<1> QED
  BY <1>1, <1>2, <1>3, <1>4, <1>5 DEF LockInv

LEMMA ReadLockAppends ==
  ASSUME LockInv, NEW l \in Locks, ReadLock(l)
  PROVE  arrays' \in Seq(Seq(Element)) /\ arrays' # <<>> /\ Appended(Current', l)
<1>0. /\ Current \in Seq(Element) /\ Len(Current) \in Nat /\ len \in 0..Len(Current)
      /\ l \in Element /\ Len(arrays) \in Nat \ {0} /\ arrays \in Seq(Seq(Element))
      /\ \A i \in 1..len : Current[i] \in Element
  BY CurrentSlice DEF LockInv, Element
<1>1. CASE len < Len(Current)
  <2> DEFINE new == [Current EXCEPT ![len + 1] = l]
  <2>1. arrays' = [arrays EXCEPT ![Len(arrays)] = new]
    BY <1>1 DEF ReadLock, Current
  <2>2. new \in Seq(Element) /\ Len(new) = Len(Current)
        /\ \A j \in 1..Len(Current) : new[j] = IF j = len + 1 THEN l ELSE Current[j]
    BY <1>0, <1>1, ExceptSeq
  <2>3. Appended(new, l)
    BY <1>0, <1>1, <2>2 DEF Appended
  <2> HIDE DEF new
  <2> QED
    BY <2>1, <2>2, <2>3, ReplaceLast
<1>2. CASE ~(len < Len(Current))
  <2> DEFINE size == IF len = 0 THEN 1 ELSE 2 * len
             new == [Grown EXCEPT ![len + 1] = l]
  <2>1. arrays' = Append(arrays, new)
    BY <1>2 DEF ReadLock
  <2>2. size \in Nat /\ len + 1 \in 1..size /\ len <= size
    BY <1>0
  <2> HIDE DEF size
  <2>3. Grown = [i \in 1..size |-> IF i <= len THEN Current[i] ELSE NoLock]
    BY DEF Grown, size
  <2>4. Grown \in [1..size -> Element] /\ \A i \in 1..len : Grown[i] = Current[i]
    BY <1>0, <2>2, <2>3 DEF Element
  <2>5. new \in [1..size -> Element]
    BY <1>0, <2>4
  <2>6. new[len + 1] = l /\ \A i \in 1..len : new[i] = Current[i]
    BY <1>0, <2>2, <2>4
  <2> HIDE DEF new
  <2>7. new \in Seq(Element) /\ Len(new) = size
    BY <2>2, <2>5, LenProperties
  <2>8. Appended(new, l)
    BY <1>0, <2>2, <2>6, <2>7 DEF Appended
  <2> QED
    BY <2>1, <2>7, <2>8, ReplaceLast
<1> QED
  BY <1>1, <1>2

LEMMA ReadLockKeeps ==
  ASSUME LockInv, NEW l \in Locks, ReadLock(l)
  PROVE  LockInv'
<1> DEFINE new == Current'
<1>0. /\ arrays' \in Seq(Seq(Element)) /\ arrays' # <<>> /\ Appended(new, l)
      /\ len \in Nat /\ len' = len + 1
      /\ waiting' = waiting \cup {l} /\ held' = held \cup {l} /\ taken' = taken \cup {l}
      /\ l \notin waiting
  BY ReadLockAppends, CurrentSlice DEF ReadLock, LockInv
<1>1. Entries = waiting /\ \A i \in 1..len : Current[i] # l
  BY <1>0 DEF LockInv, ReadersAreListed, Entries
<1> HIDE DEF new
<1>2. len + 1 \in 0..Len(new)
  BY <1>0, LenProperties DEF Appended
<1>3. ASSUME NEW i \in 1..(len + 1), NEW j \in 1..(len + 1), new[i] = new[j] PROVE i = j
  <2>1. \A k \in 1..(len + 1) : k \in 1..len \/ k = len + 1
    BY <1>0
  <2>2. \A k \in 1..len : new[k] = Current[k] /\ new[k] # l
    BY <1>0, <1>1 DEF Appended
  <2>3. new[len + 1] = l
    BY <1>0 DEF Appended
  <2>4. i \in 1..len /\ j \in 1..len => i = j
    BY <1>3, <2>2 DEF LockInv
  <2> QED
    BY <1>3, <2>1, <2>2, <2>3, <2>4
<1>4. {new[i] : i \in 1..(len + 1)} = Entries \cup {l}
  <2>1. \A k \in 1..(len + 1) : k \in 1..len \/ k = len + 1
    BY <1>0
  <2>2. (len + 1) \in 1..(len + 1) /\ \A k \in 1..len : k \in 1..(len + 1)
    BY <1>0
  <2> QED
    BY <1>0, <2>1, <2>2 DEF Appended, Entries
<1>5. Entries' = waiting'
  BY <1>0, <1>1, <1>4 DEF Entries, new
<1>6. /\ IsFiniteSet(waiting') /\ Cardinality(waiting') = Cardinality(waiting) + 1
  BY <1>0, FS_AddElement DEF LockInv
<1>7. ReadersAreListed'
  BY <1>0, <1>5, <1>6 DEF LockInv, ReadersAreListed
<1> QED
  BY <1>0, <1>2, <1>3, <1>6, <1>7 DEF LockInv, new

LEMMA UnlockKeeps ==
  ASSUME LockInv, NEW l \in Locks, WaitAndUnlock(l)
  PROVE  LockInv'
<1>0. /\ l \in waiting \ held /\ waiting' = waiting \ {l} /\ UNCHANGED <<held, taken>>
      /\ l \in Entries /\ Entries = waiting
      /\ Current \in Seq(Element) /\ Len(Current) \in Nat /\ len \in 0..Len(Current) /\ len \in Nat
  BY CurrentSlice DEF WaitAndUnlock, LockInv, ReadersAreListed
<1>1. PICK i \in 1..len : /\ Current[i] = l
                          /\ arrays' = [arrays EXCEPT ![Len(arrays)] = Shifted(@, i)]
                          /\ len' = len - 1
  <2> DEFINE i == CHOOSE j \in 1..len : Current[j] = l
  <2>1. \E j \in 1..len : Current[j] = l
    BY <1>0 DEF Entries
  <2>2. i \in 1..len /\ Current[i] = l
    BY <2>1
  <2>3. arrays' = [arrays EXCEPT ![Len(arrays)] = Shifted(@, i)] /\ len' = len - 1
    BY <1>0 DEF WaitAndUnlock
  <2> QED
    BY <2>2, <2>3
<1> DEFINE new == Shifted(Current, i)
<1>2. new = [j \in 1..Len(Current) |-> IF j \in i..(len - 1) THEN Current[j + 1] ELSE Current[j]]
  BY DEF Shifted
<1>3. \A j \in 1..Len(Current) : Current[j] \in Element
  BY <1>0, ElementOfSeq
<1>4. new \in [1..Len(Current) -> Element]
  BY <1>0, <1>1, <1>2, <1>3
<1>5. \A j \in 1..(len - 1) : new[j] = IF j < i THEN Current[j] ELSE Current[j + 1]
  BY <1>0, <1>1, <1>2
<1>6. arrays' = [arrays EXCEPT ![Len(arrays)] = new]
  BY <1>1 DEF Current
<1> HIDE DEF new
<1>7. new \in Seq(Element) /\ Len(new) = Len(Current)
  BY <1>0, <1>4, LenProperties
<1>8. arrays' \in Seq(Seq(Element)) /\ arrays' # <<>> /\ Current' = new
  BY <1>6, <1>7, ReplaceLast
<1>9. \A j, k \in 1..len : Current[j] = Current[k] => j = k
  BY DEF LockInv
<1>10. ASSUME NEW j \in 1..(len - 1), NEW k \in 1..(len - 1), new[j] = new[k] PROVE j = k
  <2>1. j \in 1..len /\ j + 1 \in 1..len /\ k \in 1..len /\ k + 1 \in 1..len
    BY <1>0
  <2>2. PICK m \in 1..len : new[j] = Current[m] /\ m = IF j < i THEN j ELSE j + 1
    BY <1>5, <2>1
  <2>3. PICK n \in 1..len : new[k] = Current[n] /\ n = IF k < i THEN k ELSE k + 1
    BY <1>5, <2>1
  <2>4. m = n
    BY <1>9, <1>10, <2>2, <2>3
  <2> QED
    BY <1>0, <1>1, <2>2, <2>3, <2>4
<1>11. {new[j] : j \in 1..(len - 1)} = Entries \ {l}
  <2>1. ASSUME NEW j \in 1..(len - 1) PROVE new[j] \in Entries \ {l}
    <3>1. j \in 1..len /\ j + 1 \in 1..len
      BY <1>0
    <3>2. PICK m \in 1..len : new[j] = Current[m] /\ m = IF j < i THEN j ELSE j + 1
      BY <1>5, <3>1
    <3>3. m # i
      BY <1>0, <1>1, <3>2
    <3>4. Current[m] # l
      BY <1>1, <1>9, <3>3
    <3> QED
      BY <3>2, <3>4 DEF Entries
  <2>2. ASSUME NEW e \in Entries \ {l} PROVE \E j \in 1..(len - 1) : new[j] = e
    <3>1. PICK j \in 1..len : Current[j] = e
      BY <2>2 DEF Entries
    <3>2. CASE j < i
      <4>1. j \in 1..(len - 1)
        BY <1>0, <1>1, <3>2
      <4> QED
        BY <1>5, <3>1, <3>2, <4>1
    <3>3. CASE j > i
      <4>1. j - 1 \in 1..(len - 1) /\ ~(j - 1 < i) /\ (j - 1) + 1 = j
        BY <1>0, <1>1, <3>3
      <4>2. new[j - 1] = Current[(j - 1) + 1]
        BY <1>5, <4>1
      <4> QED
        BY <3>1, <4>1, <4>2
    <3> QED
      BY <1>0, <1>1, <2>2, <3>1, <3>2, <3>3
  <2> QED
    BY <2>1, <2>2
<1>12. Entries' = waiting'
  BY <1>0, <1>1, <1>8, <1>11 DEF Entries
<1>13. IsFiniteSet(waiting') /\ Cardinality(waiting') = Cardinality(waiting) - 1
  BY <1>0, FS_RemoveElement DEF LockInv
<1>14. ReadersAreListed'
  BY <1>0, <1>1, <1>12, <1>13 DEF LockInv, ReadersAreListed
<1>15. len' \in 0..Len(Current')
  BY <1>0, <1>1, <1>7, <1>8
<1> QED
  BY <1>0, <1>1, <1>8, <1>10, <1>13, <1>14, <1>15 DEF LockInv

LEMMA LocksStep == LockInv /\ [LocksNext]_lockVars => LockInv'
<1> SUFFICES ASSUME LockInv, [LocksNext]_lockVars PROVE LockInv'
  OBVIOUS
<1>1. ASSUME UNCHANGED <<arrays, len, waiting, taken>>, held' \subseteq held PROVE LockInv'
  BY <1>1 DEF LockInv, Current, Entries, ReadersAreListed
<1>2. CASE \E l \in Locks : ReadLock(l) \/ WaitAndUnlock(l)
  BY <1>2, ReadLockKeeps, UnlockKeeps
<1>3. CASE \E l \in Locks : Release(l)
  BY <1>1, <1>3 DEF Release
<1>4. CASE \E c \in Cancellers : CancelBegin(c) \/ CancelEach(c) \/ CancelEnd(c)
  BY <1>1, <1>4 DEF CancelBegin, CancelEach, CancelEnd
<1>5. CASE UNCHANGED lockVars
  BY <1>1, <1>5 DEF lockVars
<1> QED
  BY <1>2, <1>3, <1>4, <1>5 DEF LocksNext

-----------------------------------------------------------------------------
(***************************************************************************)
(* Whoever finds a download gets it, but for requests in the instant in    *)
(* which the last one before them has ended, and every reader of a file is *)
(* in the list that Cancel goes through: for any number of requests, files *)
(* and readers.                                                            *)
(***************************************************************************)
THEOREM WhatIsHandedOutIsKept == SpecServices => []FilesInHand
<1>1. InitServices => DownloadsInv /\ LockInv
  BY DownloadsInitial, LocksInitial DEF InitServices
<1>2. DownloadsInv /\ LockInv /\ [NextServices]_allVars => DownloadsInv' /\ LockInv'
  <2>1. [NextServices]_allVars => [DownloadsNext]_downloadVars /\ [LocksNext]_lockVars
    BY DEF NextServices, allVars
  <2> QED
    BY <2>1, DownloadsStep, LocksStep
<1>3. DownloadsInv /\ LockInv => FilesInHand
  BY DEF DownloadsInv, LockInv, FilesInHand
<1> QED
  BY <1>1, <1>2, <1>3, PTL DEF SpecServices

-----------------------------------------------------------------------------
(* The database's file.  A migration that has begun and not ended has left *)
(* its mark: it was applied, or it was not.                                *)

FileType == [version : Nat, marked : BOOLEAN, applied : Nat, rows : Nat]
Fits(file) ==
  /\ file \in FileType
  /\ file.marked => file.version >= 1 /\ file.applied \in {file.version - 1, file.version}
  /\ ~file.marked => file.applied = file.version

\* A file that a server would open.
Servable(file) == ~file.marked \/ file.version = AppSchema

FileIn(files, path) == IF path \in DOMAIN files THEN files[path] ELSE NewDatabase

FilesFit(files, saved) ==
  /\ \A path \in DOMAIN files : Fits(files[path])
  /\ \A b \in DOMAIN saved : Fits(saved[b].file)

\* Users have written only to files that a server has opened, and their changes are in them.
ChangesFit(files, written) ==
  \A path \in DOMAIN written :
    /\ written[path] \in Nat
    /\ written[path] <= FileIn(files, path).rows
    /\ FileIn(files, path).version >= 1

KeptIn(file, changes) == file.rows >= changes /\ Servable(file)
KeptBy(saved, b, path, changes) == b \in DOMAIN saved /\ saved[b].of = path /\ KeptIn(saved[b].file, changes)
ChangesKept(files, saved, written) ==
  \A path \in DOMAIN written :
    \/ KeptIn(FileIn(files, path), written[path])
    \/ \E b \in DOMAIN saved : KeptBy(saved, b, path, written[path])

LEMMA FilesThere ==
  /\ \A path : File(path) = FileIn(dbs, path)
  /\ ChangesKept(dbs, backups, wrote) => WrittenIsKept
<1>1. \A path : File(path) = FileIn(dbs, path)
  BY DEF File, FileIn
<1>2. ASSUME ChangesKept(dbs, backups, wrote), NEW path \in DOMAIN wrote
      PROVE  \E file \in {File(path)} \cup {backups[b].file : b \in {n \in DOMAIN backups : backups[n].of = path}} :
               /\ file.rows >= wrote[path]
               /\ ~file.marked \/ file.version = AppSchema
  <2>1. CASE KeptIn(FileIn(dbs, path), wrote[path])
    BY <1>1, <2>1 DEF KeptIn, Servable
  <2>2. CASE \E b \in DOMAIN backups : KeptBy(backups, b, path, wrote[path])
    <3>1. PICK b \in DOMAIN backups : KeptBy(backups, b, path, wrote[path])
      BY <2>2
    <3>2. backups[b].file \in {backups[c].file : c \in {n \in DOMAIN backups : backups[n].of = path}}
      BY <3>1 DEF KeptBy
    <3> QED
      BY <3>1, <3>2 DEF KeptBy, KeptIn, Servable
  <2> QED
    BY <1>2, <2>1, <2>2 DEF ChangesKept
<1> QED
  BY <1>1, <1>2 DEF WrittenIsKept

LEMMA FileFits ==
  ASSUME NEW files, NEW saved, FilesFit(files, saved), NEW path
  PROVE  Fits(FileIn(files, path))
BY DEF FilesFit, FileIn, NewDatabase, Fits, FileType

\* What a file put in its place changes.
LEMMA PutGives ==
  ASSUME NEW path, NEW file, Put(path, file)
  PROVE  /\ DOMAIN dbs' = DOMAIN dbs \cup {path}
         /\ FileIn(dbs', path) = file
         /\ \A p : p # path => FileIn(dbs', p) = FileIn(dbs, p)
BY DEF Put, With, FileIn

\* Where a task can be.  While migrations are made there is no connection.
BootPart == {"existing", "initialize", "validate", "initial", "refresh", "scrapers", "database"}
SetupPart == {"location", "generated", "settings", "write", "initial", "refresh", "scrapers", "database"}
MigrationPart == {"mark", "run", "clean", "reopen"}
Closing == {"none", "post migrate", "serve", "finalize", "remove backup"}

TaskFits(t) ==
  /\ t = [job |-> t.job, at |-> t.at, input |-> t.input]
  /\ \/ t.job = "none" /\ t.at = "none"
     \/ t.job = "boot" /\ t.at \in BootPart \cup MigrationPart \cup {"post migrate", "serve"}
     \/ t.job = "setup" /\ t.at \in SetupPart \cup MigrationPart \cup {"post migrate", "finalize"}
     \/ t.job = "migrate" /\ t.at \in MigrationPart \cup {"backup", "migrations", "restore", "post migrate", "remove backup"}

\* A new system is without a database until it has been set up.
ServerFits(t, connection, new, down) ==
  /\ connection # Closed => t.at \in Closing
  /\ connection # Closed /\ new => t.at \in {"post migrate", "finalize"}
  /\ new => t.job \in {"none", "setup"}
  /\ down => connection = Closed /\ t = NoTask

OpenFits(files, connection) == connection # Closed => FileIn(files, connection).version = AppSchema

\* How the file is found at each step of its migrations.
MigrationFits(t, file) ==
  /\ t.at = "mark" => ~file.marked
  /\ t.at = "run" => file.marked /\ file.applied = file.version - 1
  /\ t.at = "clean" => file.marked /\ file.applied = file.version
  /\ t.at = "reopen" => Servable(file)

\* A database made by a start or by the wizard has nothing of users in it yet.
NewIsEmpty(t, path, written) == t.job \in {"boot", "setup"} /\ t.at \in MigrationPart => path \notin DOMAIN written

BackupIsThere(t, path, saved) ==
  t.job = "migrate" /\ t.at # "backup" => t.input.backup \in DOMAIN saved /\ saved[t.input.backup].of = path

\* What users wrote is in a backup while the database is migrated: in the one made first, or,
\* if that is of a file that was broken before, in an older one.
BackupKeeps(t, path, saved, written) ==
  t.job = "migrate" /\ t.at \in MigrationPart \cup {"migrations", "restore"} /\ path \in DOMAIN written =>
    /\ saved[t.input.backup].file.version >= 1
    /\ saved[t.input.backup].file.rows >= written[path]
    /\ \E b \in DOMAIN saved : KeptBy(saved, b, path, written[path])

\* Once they are made, it is in the database again.
MigratedIsKept(t, path, files, written) ==
  t.job = "migrate" /\ t.at \in {"post migrate", "remove backup"} /\ path \in DOMAIN written =>
    Servable(FileIn(files, path))

FileInv == FilesFit(dbs, backups) /\ ChangesFit(dbs, wrote) /\ ChangesKept(dbs, backups, wrote)
ServerInv == TaskFits(task) /\ ServerFits(task, open, isNewSystem, stage = "down") /\ OpenFits(dbs, open)
MigrationInv ==
  /\ MigrationFits(task, FileIn(dbs, dbPath)) /\ NewIsEmpty(task, dbPath, wrote)
  /\ BackupIsThere(task, dbPath, backups) /\ BackupKeeps(task, dbPath, backups, wrote)
  /\ MigratedIsKept(task, dbPath, dbs, wrote)
DataInv == FileInv /\ ServerInv /\ MigrationInv

LEMMA DataInvKeepsData == DataInv => DataKept
<1> SUFFICES ASSUME DataInv PROVE DataKept
  OBVIOUS
<1>1. WrittenIsKept
  BY FilesThere DEF DataInv, FileInv
<1>2. ASSUME Ready PROVE Whole(File(open)) \/ File(open).marked
  <2>1. Fits(FileIn(dbs, open))
    BY FileFits DEF DataInv, FileInv
  <2>2. FileIn(dbs, open).version = AppSchema
    BY <1>2 DEF DataInv, ServerInv, OpenFits, Ready
  <2>3. ~FileIn(dbs, open).marked => FileIn(dbs, open).applied = AppSchema
    BY <2>1, <2>2 DEF Fits
  <2> QED
    BY <2>3, FilesThere DEF Whole
<1> QED
  BY <1>1, <1>2 DEF DataKept, ServedIsWhole

-----------------------------------------------------------------------------
(* The steps of a task, and those that leave the databases alone. *)

LEMMA TaskOrder ==
  /\ Following("existing") = "initialize" /\ Following("initialize") = "validate"
  /\ Following("validate") = "initial" /\ Following("location") = "generated"
  /\ Following("generated") = "settings" /\ Following("settings") = "write"
  /\ Following("write") = "initial" /\ Following("initial") = "refresh"
  /\ Following("refresh") = "scrapers" /\ Following("scrapers") = "database"
  /\ Following("database") = "post migrate" /\ Following("reopen") = "post migrate"
  /\ Following("backup") = "migrations" /\ Following("mark") = "run" /\ Following("run") = "clean"
  /\ Following("post migrate") = LastSteps[task.job]
<1>1. /\ DOMAIN BootSteps = {"existing", "initialize", "validate"}
      /\ DOMAIN SetupSteps = {"location", "generated", "settings", "write"}
      /\ DOMAIN PostInit = {"initial", "refresh", "scrapers", "database"}
      /\ DOMAIN MigrateSteps = {"backup", "mark", "run", "reopen"}
  BY DEF BootSteps, SetupSteps, PostInit, MigrateSteps
<1>2. /\ Following("existing") = "initialize" /\ Following("initialize") = "validate"
      /\ Following("validate") = "initial"
  BY <1>1 DEF Following, BootSteps
<1>3. /\ Following("location") = "generated" /\ Following("generated") = "settings"
      /\ Following("settings") = "write" /\ Following("write") = "initial"
  BY <1>1 DEF Following, SetupSteps
<1>4. /\ Following("initial") = "refresh" /\ Following("refresh") = "scrapers"
      /\ Following("scrapers") = "database" /\ Following("database") = "post migrate"
  BY <1>1 DEF Following, PostInit
<1>5. /\ Following("backup") = "migrations" /\ Following("mark") = "run" /\ Following("run") = "clean"
      /\ Following("reopen") = "post migrate"
  BY <1>1 DEF Following, MigrateSteps
<1>6. Following("post migrate") = LastSteps[task.job]
  BY <1>1 DEF Following
<1> QED
  BY <1>2, <1>3, <1>4, <1>5, <1>6

LEMMA NoTaskFits == NoTask.job = "none" /\ NoTask.at = "none" /\ TaskFits(NoTask)
BY DEF NoTask, TaskFits

LEMMA GoesToGives ==
  ASSUME TaskFits(task), NEW step, GoesTo(step)
  PROVE  task' = [job |-> task.job, at |-> step, input |-> task.input]
BY DEF TaskFits, GoesTo

LEMMA GivesUpGives ==
  ASSUME TaskFits(task), NEW why, GivesUp(why)
  PROVE  /\ stage' \in {stage, "failed"}
         /\ \/ task' = NoTask
            \/ /\ task.job = "migrate" /\ why = "migration"
               /\ task' = [job |-> task.job, at |-> "restore", input |-> task.input]
BY GoesToGives DEF GivesUp

\* A task that is on its way to a database, or has just begun or ended.
LEMMA OutsideMigrations ==
  ASSUME DataInv, UNCHANGED dbVars, ServerInv',
         task'.at \notin MigrationPart \cup {"migrations", "restore"},
         \/ task'.job # "migrate" \/ task'.at = "backup"
         \/ /\ task.job = "migrate" /\ task.at \in {"post migrate", "remove backup"}
            /\ task'.input = task.input
  PROVE  DataInv'
<1>1. FileInv'
  BY DEF DataInv, FileInv, dbVars
<1>2. MigrationFits(task', FileIn(dbs', dbPath')) /\ NewIsEmpty(task', dbPath', wrote')
  BY DEF MigrationFits, NewIsEmpty, MigrationPart
<1>3. BackupKeeps(task', dbPath', backups', wrote') /\ BackupIsThere(task', dbPath', backups')
  BY DEF BackupKeeps, BackupIsThere, DataInv, MigrationInv, MigrationPart, dbVars
<1>4. MigratedIsKept(task', dbPath', dbs', wrote')
  BY DEF MigratedIsKept, DataInv, MigrationInv, dbVars
<1> QED
  BY <1>1, <1>2, <1>3, <1>4 DEF DataInv, MigrationInv

LEMMA NothingOfIt ==
  ASSUME DataInv, UNCHANGED <<dbVars, task, isNewSystem>>, stage' = "down" => stage = "down"
  PROVE  DataInv'
<1>1. FileInv' /\ MigrationInv'
  BY DEF DataInv, FileInv, MigrationInv, dbVars
<1>2. ServerInv'
  BY DEF DataInv, ServerInv, ServerFits, dbVars
<1> QED
  BY <1>1, <1>2 DEF DataInv

LEMMA BeforeTheDatabase ==
  ASSUME DataInv, task.at \in (BootPart \cup SetupPart) \ {"database"},
         UNCHANGED <<dbVars, isNewSystem>>,
         \/ Proceed /\ UNCHANGED stage
         \/ \E why \in {"configuration", "incomplete", "directory"} : GivesUp(why)
  PROVE  DataInv'
<1>1. TaskFits(task) /\ open = Closed /\ stage # "down"
  <2>1. TaskFits(task) /\ ServerFits(task, open, isNewSystem, stage = "down")
    BY DEF DataInv, ServerInv
  <2>2. task.at \notin Closing /\ task # NoTask
    BY NoTaskFits DEF Closing, BootPart, SetupPart
  <2> QED
    BY <2>1, <2>2 DEF ServerFits
<1>2. CASE Proceed /\ UNCHANGED stage
  <2>1. task' = [job |-> task.job, at |-> Following(task.at), input |-> task.input]
    BY <1>1, <1>2, GoesToGives DEF Proceed
  <2>2. /\ task.job = "boot" => task'.at \in BootPart
        /\ task.job = "setup" => task'.at \in SetupPart
        /\ task.job \in {"boot", "setup"}
    BY <1>1, <2>1, TaskOrder DEF TaskFits, BootPart, SetupPart, MigrationPart
  <2>3. TaskFits(task')
    BY <1>1, <2>1, <2>2 DEF TaskFits
  <2>4. ServerInv'
    BY <1>1, <1>2, <2>1, <2>3 DEF DataInv, ServerInv, ServerFits, OpenFits, dbVars
  <2> QED
    BY <2>1, <2>2, <2>4, OutsideMigrations DEF BootPart, SetupPart, MigrationPart
<1>3. CASE \E why \in {"configuration", "incomplete", "directory"} : GivesUp(why)
  <2>1. task' = NoTask /\ stage' # "down"
    BY <1>1, <1>3, GivesUpGives
  <2>2. ServerInv'
    BY <1>1, <2>1 DEF ServerInv, TaskFits, ServerFits, OpenFits, NoTask, dbVars
  <2> QED
    BY <2>1, <2>2, OutsideMigrations DEF NoTask, MigrationPart
<1> QED
  BY <1>2, <1>3

LEMMA InitializeKeeps == ASSUME DataInv, Initialize PROVE DataInv'
<1>1. UNCHANGED dbVars /\ open = Closed /\ task = NoTask
  BY DEF DataInv, ServerInv, ServerFits, Initialize
<1>2. \/ task' = NoTask /\ stage' = "serving"
      \/ /\ task' = [job |-> "boot", at |-> "existing", input |-> <<>>]
         /\ ~isNewSystem' /\ stage' = "starting"
  BY <1>1 DEF Initialize, ReadConfig, NoTask
<1>3. TaskFits(task') /\ task'.at \in {"none", "existing"} /\ stage' # "down"
  <2>1. CASE task' = NoTask /\ stage' = "serving"
    BY <2>1, NoTaskFits
  <2>2. CASE task' = [job |-> "boot", at |-> "existing", input |-> <<>>] /\ stage' = "starting"
    BY <2>2 DEF TaskFits, BootPart
  <2> QED
    BY <1>2, <2>1, <2>2
<1>4. ~isNewSystem' \/ task'.job = "none"
  BY <1>2, NoTaskFits
<1>5. ServerInv'
  BY <1>1, <1>3, <1>4 DEF ServerInv, ServerFits, OpenFits, dbVars
<1>6. task'.job # "migrate"
  BY <1>2, NoTaskFits
<1> QED
  BY <1>1, <1>3, <1>5, <1>6, OutsideMigrations DEF MigrationPart

LEMMA StartKeepsData ==
  ASSUME DataInv,
         \/ SetsExistingDefaults \/ SetsInitialConfig("initialize") \/ SetsInitialConfig("initial")
         \/ Validate \/ MakesAnew \/ TouchConfig \/ MakeGenerated \/ SetUpSettings \/ WriteSetUp
  PROVE  DataInv'
<1>1. CASE SetsExistingDefaults
  <2>1. UNCHANGED <<dbVars, isNewSystem>> /\ task.at = "existing"
    BY <1>1 DEF SetsExistingDefaults, SetExistingSystemDefaults, Upcoming
  <2>2. (Proceed /\ UNCHANGED stage) \/ GivesUp("configuration")
    BY <1>1 DEF SetsExistingDefaults
  <2> QED
    BY <2>1, <2>2, BeforeTheDatabase DEF BootPart
<1>2. ASSUME NEW step \in {"initialize", "initial"}, SetsInitialConfig(step) PROVE DataInv'
  <2>1. UNCHANGED <<dbVars, isNewSystem>> /\ task.at = step
    BY <1>2 DEF SetsInitialConfig, SetInitialConfig, Upcoming
  <2>2. (Proceed /\ UNCHANGED stage) \/ GivesUp("configuration")
    BY <1>2 DEF SetsInitialConfig
  <2> QED
    BY <2>1, <2>2, BeforeTheDatabase DEF BootPart
<1>3. CASE Validate
  <2>1. UNCHANGED <<dbVars, isNewSystem>> /\ task.at = "validate"
    BY <1>3 DEF Validate, settingVars, Upcoming
  <2>2. (Proceed /\ UNCHANGED stage) \/ GivesUp("incomplete")
    BY <1>3 DEF Validate
  <2> QED
    BY <2>1, <2>2, BeforeTheDatabase DEF BootPart
<1>4. CASE MakesAnew
  <2>1. UNCHANGED <<dbVars, isNewSystem, stage>> /\ Proceed /\ task.at \in {"refresh", "scrapers"}
    BY <1>4 DEF MakesAnew, settingVars, Upcoming, StepsOnly
  <2> QED
    BY <2>1, BeforeTheDatabase DEF BootPart
<1>5. CASE TouchConfig
  <2>1. UNCHANGED <<dbVars, isNewSystem, stage>> /\ Proceed /\ task.at = "location"
    BY <1>5 DEF TouchConfig, Upcoming, StepsOnly
  <2> QED
    BY <2>1, BeforeTheDatabase DEF SetupPart
<1>6. CASE MakeGenerated
  <2>1. UNCHANGED <<dbVars, isNewSystem>> /\ task.at = "generated"
    BY <1>6 DEF MakeGenerated, Upcoming
  <2>2. (Proceed /\ UNCHANGED stage) \/ GivesUp("directory")
    BY <1>6 DEF MakeGenerated
  <2> QED
    BY <2>1, <2>2, BeforeTheDatabase DEF SetupPart
<1>7. CASE SetUpSettings
  <2>1. UNCHANGED <<dbVars, isNewSystem, stage>> /\ Proceed /\ task.at = "settings"
    BY <1>7 DEF SetUpSettings, Upcoming, StepsOnly
  <2> QED
    BY <2>1, BeforeTheDatabase DEF SetupPart
<1>8. CASE WriteSetUp
  <2>1. UNCHANGED <<dbVars, isNewSystem>> /\ task.at = "write"
    BY <1>8 DEF WriteSetUp, Upcoming
  <2>2. (Proceed /\ UNCHANGED stage) \/ GivesUp("configuration")
    BY <1>8 DEF WriteSetUp
  <2> QED
    BY <2>1, <2>2, BeforeTheDatabase DEF SetupPart
<1> QED
  BY <1>1, <1>2, <1>3, <1>4, <1>5, <1>6, <1>7, <1>8

LEMMA TasksBegin == ASSUME DataInv, Setup \/ Migrate PROVE DataInv'
<1>1. /\ UNCHANGED <<dbVars, stage, isNewSystem>>
      /\ TaskFits(task) /\ open = Closed
      /\ \/ isNewSystem /\ \E input : task' = [job |-> "setup", at |-> "location", input |-> input]
         \/ ~isNewSystem /\ \E input : task' = [job |-> "migrate", at |-> "backup", input |-> input]
  <2>1. CASE Setup
    <3>1. UNCHANGED <<dbVars, stage, isNewSystem>> /\ isNewSystem /\ task = NoTask
      BY <2>1 DEF Setup, StepsOnly, settingVars
    <3>2. TaskFits(task) /\ open = Closed
      BY <3>1, NoTaskFits DEF DataInv, ServerInv, ServerFits
    <3> QED
      BY <2>1, <3>1, <3>2 DEF Setup
  <2>2. CASE Migrate
    <3>1. UNCHANGED <<dbVars, stage, isNewSystem>> /\ ~isNewSystem /\ open = Closed
      BY <2>2 DEF Migrate, StepsOnly, settingVars, Ready
    <3>2. TaskFits(task)
      BY DEF DataInv, ServerInv
    <3>3. \E input : task' = [job |-> "migrate", at |-> "backup", input |-> input]
      BY <2>2 DEF Migrate
    <3> QED
      BY <3>1, <3>2, <3>3
  <2> QED
    BY <2>1, <2>2
<1>2. TaskFits(task') /\ task'.at \in {"location", "backup"}
  <2>1. ASSUME NEW input, task' = [job |-> "setup", at |-> "location", input |-> input]
        PROVE  TaskFits(task') /\ task'.at = "location"
    BY <2>1 DEF TaskFits, SetupPart
  <2>2. ASSUME NEW input, task' = [job |-> "migrate", at |-> "backup", input |-> input]
        PROVE  TaskFits(task') /\ task'.at = "backup"
    BY <2>2 DEF TaskFits
  <2> QED
    BY <1>1, <2>1, <2>2
<1>3. stage # "down"
  BY DEF Setup, Migrate
<1>4. isNewSystem' => task'.job \in {"none", "setup"}
  BY <1>1
<1>5. ServerInv'
  BY <1>1, <1>2, <1>3, <1>4 DEF ServerInv, ServerFits, OpenFits, dbVars
<1>6. task'.job # "migrate" \/ task'.at = "backup"
  BY <1>1
<1> QED
  BY <1>1, <1>2, <1>5, <1>6, OutsideMigrations DEF MigrationPart

\* With the database there, or with one that is too old, the task comes to its end.
LEMMA TasksEnd == ASSUME DataInv, PostMigrate \/ Serves \/ FinalizeSetup PROVE DataInv'
<1>1. UNCHANGED dbVars /\ TaskFits(task) /\ ServerFits(task, open, isNewSystem, stage = "down") /\ OpenFits(dbs, open)
  BY DEF DataInv, ServerInv, PostMigrate, Serves, FinalizeSetup
<1>2. CASE PostMigrate
  <2>1. UNCHANGED <<stage, isNewSystem>> /\ task.at = "post migrate" /\ Proceed
    BY <1>2 DEF PostMigrate, SetChecksumDefaults, settingVars, StepsOnly, Upcoming
  <2>2. task.job \in {"boot", "setup", "migrate"} /\ stage # "down"
    BY <1>1, <2>1, NoTaskFits DEF TaskFits, ServerFits
  <2>3. task' = [job |-> task.job, at |-> LastSteps[task.job], input |-> task.input]
    BY <1>1, <2>1, TaskOrder, GoesToGives DEF Proceed
  <2>4. /\ task.job = "boot" => task'.at = "serve"
        /\ task.job = "setup" => task'.at = "finalize"
        /\ task.job = "migrate" => task'.at = "remove backup"
    <3>1. LastSteps["boot"] = "serve" /\ LastSteps["setup"] = "finalize" /\ LastSteps["migrate"] = "remove backup"
      BY DEF LastSteps
    <3>2. task'.at = LastSteps[task.job]
      BY <2>3
    <3> QED
      BY <3>1, <3>2
  <2>5. TaskFits(task')
    BY <2>2, <2>3, <2>4 DEF TaskFits
  <2>6. isNewSystem => task.job = "setup"
    BY <1>1, <2>2 DEF ServerFits
  <2>7. /\ task'.at \in Closing \ {"none"} /\ (isNewSystem => task'.at = "finalize")
        /\ task'.job = task.job /\ task'.input = task.input
    BY <2>2, <2>3, <2>4, <2>6 DEF Closing
  <2>8. ServerInv'
    BY <1>1, <2>1, <2>2, <2>5, <2>6, <2>7 DEF ServerInv, ServerFits, OpenFits, dbVars
  <2> QED
    BY <1>1, <2>1, <2>7, <2>8, OutsideMigrations DEF MigrationPart, Closing
<1>3. CASE Serves \/ FinalizeSetup
  <2>1. /\ task' = NoTask /\ (stage' = "serving" \/ (stage' = stage /\ stage # "down"))
        /\ ~isNewSystem'
    <3>1. CASE Serves
      <4>1. task.at = "serve" /\ task' = NoTask /\ stage' = "serving" /\ UNCHANGED isNewSystem
        BY <3>1 DEF Serves, Upcoming, settingVars
      <4>2. task.job = "boot"
        BY <1>1, <4>1 DEF TaskFits, BootPart, SetupPart, MigrationPart
      <4>3. ~isNewSystem
        BY <1>1, <4>2 DEF ServerFits
      <4> QED
        BY <4>1, <4>3
    <3>2. CASE FinalizeSetup
      <4>1. task.at = "finalize" /\ task' = NoTask /\ UNCHANGED stage /\ ~isNewSystem'
        BY <3>2 DEF FinalizeSetup, Upcoming, StepsOnly
      <4> QED
        BY <1>1, <4>1, NoTaskFits DEF ServerFits
    <3> QED
      BY <1>3, <3>1, <3>2
  <2>2. TaskFits(task') /\ task'.at = "none" /\ task'.job = "none"
    BY <2>1, NoTaskFits
  <2>3. ServerInv'
    BY <1>1, <2>1, <2>2 DEF ServerInv, ServerFits, OpenFits, Closing, dbVars
  <2> QED
    BY <1>1, <2>2, <2>3, OutsideMigrations DEF MigrationPart
<1> QED
  BY <1>2, <1>3

LEMMA UsersConfigureKeeps == ASSUME DataInv, UsersConfigure PROVE DataInv'
<1>1. ASSUME NEW u, ConfigureStep(u) PROVE UNCHANGED <<dbVars, isNewSystem>>
  <2>1. ASSUME NEW key, Skip(u, key) \/ Set(u, key) \/ Refuse(u, key) PROVE UNCHANGED <<dbVars, isNewSystem>>
    BY <2>1 DEF Skip, Set, Refuse, settingVars
  <2>2. AskFor(u) \/ ReadUI(u) \/ WriteFile(u) \/ WriteFails(u) => UNCHANGED <<dbVars, isNewSystem>>
    BY DEF AskFor, ReadUI, WriteFile, WriteFails, settingVars
  <2>3. Refresh(u) \/ RefreshScrapers(u) \/ Reply(u) => UNCHANGED <<dbVars, isNewSystem>>
    BY DEF Refresh, RefreshScrapers, Reply, settingVars
  <2> QED
    BY <1>1, <2>1, <2>2, <2>3 DEF ConfigureStep
<1>2. UNCHANGED <<task, stage>>
  BY DEF UsersConfigure
<1> QED
  BY <1>1, <1>2, NothingOfIt DEF UsersConfigure

LEMMA GoesDownKeeps == ASSUME DataInv, GoesDown PROVE DataInv'
<1>1. UNCHANGED <<dbs, backups, wrote>> /\ open' = Closed /\ task' = NoTask /\ ~isNewSystem'
  BY DEF GoesDown, CloseDatabase
<1>2. FileInv'
  BY <1>1 DEF DataInv, FileInv
<1>3. ServerInv'
  BY <1>1, NoTaskFits DEF ServerInv, ServerFits, OpenFits
<1>4. MigrationInv'
  BY <1>1, NoTaskFits DEF MigrationInv, MigrationFits, NewIsEmpty, BackupIsThere, BackupKeeps, MigratedIsKept, MigrationPart
<1> QED
  BY <1>2, <1>3, <1>4 DEF DataInv

-----------------------------------------------------------------------------
(* The steps of databases. *)

LEMMA OpensDatabaseKeeps == ASSUME DataInv, OpensDatabase PROVE DataInv'
<1> DEFINE path == GetString("database")
           t(step) == [job |-> task.job, at |-> step, input |-> task.input]
<1> HIDE DEF path
<1>1. /\ UNCHANGED <<dbs, backups, wrote, isNewSystem>> /\ dbPath' = path
      /\ TaskFits(task) /\ ServerFits(task, open, isNewSystem, stage = "down") /\ task.at = "database"
  BY DEF DataInv, ServerInv, OpensDatabase, settingVars, Upcoming, path
<1>2. /\ task.job \in {"boot", "setup"} /\ open = Closed /\ stage # "down"
      /\ isNewSystem => task.job = "setup"
  <2>1. task.job \in {"boot", "setup"}
    BY <1>1 DEF TaskFits, MigrationPart
  <2>2. task.at \notin Closing /\ task # NoTask
    BY <1>1, NoTaskFits DEF Closing
  <2> QED
    BY <1>1, <2>1, <2>2 DEF ServerFits
<1>3. FileInv'
  BY <1>1 DEF DataInv, FileInv
<1>4. Fits(FileIn(dbs, path))
  BY FileFits DEF DataInv, FileInv
<1>5. CASE task' = NoTask /\ stage' \in {stage, "failed"} /\ open' = open
  <2>1. ServerInv'
    BY <1>1, <1>2, <1>5, NoTaskFits DEF ServerInv, ServerFits, OpenFits
  <2>2. MigrationInv'
    BY <1>5, NoTaskFits DEF MigrationInv, MigrationFits, NewIsEmpty, BackupIsThere, BackupKeeps, MigratedIsKept, MigrationPart
  <2> QED
    BY <1>3, <2>1, <2>2 DEF DataInv
<1>6. CASE /\ FileIn(dbs, path).version = 0 /\ open' = open
           /\ task' = t("mark") /\ stage' = stage
  <2>1. TaskFits(task')
    BY <1>2, <1>6 DEF TaskFits, MigrationPart
  <2>2. ServerInv'
    BY <1>1, <1>2, <1>6, <2>1 DEF ServerInv, ServerFits, OpenFits
  <2>3. ~FileIn(dbs, path).marked
    BY <1>4, <1>6 DEF Fits, FileType
  <2>4. path \notin DOMAIN wrote
    BY <1>6 DEF DataInv, FileInv, ChangesFit
  <2>5. MigrationInv'
    BY <1>1, <1>2, <1>6, <2>3, <2>4 DEF MigrationInv, MigrationFits, NewIsEmpty, BackupIsThere, BackupKeeps, MigratedIsKept
  <2> QED
    BY <1>3, <2>2, <2>5 DEF DataInv
<1>7. CASE /\ open' = Closed \/ (open' = path /\ FileIn(dbs, path).version = AppSchema)
           /\ task' = t("post migrate") /\ stage' = stage
  <2>1. TaskFits(task')
    BY <1>2, <1>7 DEF TaskFits
  <2>2. ServerInv'
    BY <1>1, <1>2, <1>7, <2>1 DEF ServerInv, ServerFits, OpenFits, Closing
  <2>3. MigrationInv'
    BY <1>2, <1>7 DEF MigrationInv, MigrationFits, NewIsEmpty, BackupIsThere, BackupKeeps, MigratedIsKept, MigrationPart
  <2> QED
    BY <1>3, <2>2, <2>3 DEF DataInv
<1>8. CASE path \in BadPaths
  <2>1. GivesUp("database") /\ open' = open
    BY <1>8 DEF OpensDatabase, path
  <2> QED
    BY <1>1, <1>5, <2>1, GivesUpGives
<1>9. CASE path \notin BadPaths
  <2>1. /\ Connect(path) /\ UNCHANGED stage
        /\ IF FileIn(dbs, path).version = 0 THEN NextMigration(FileIn(dbs, path)) ELSE Proceed
    BY <1>9, FilesThere DEF OpensDatabase, path
  <2>2. open' = IF FileIn(dbs, path).version # AppSchema THEN open ELSE path
    BY <2>1, FilesThere DEF Connect, NeedsMigration
  <2>3. CASE FileIn(dbs, path).version = 0
    <3>1. AppSchema # 0
      BY SchemaAssumption
    <3>2. task' = t("mark")
      BY <1>1, <2>1, <2>3, <3>1, GoesToGives DEF NextMigration
    <3> QED
      BY <1>6, <2>1, <2>2, <2>3, <3>1, <3>2
  <2>4. CASE FileIn(dbs, path).version # 0
    <3>1. task' = t("post migrate")
      BY <1>1, <2>1, <2>4, GoesToGives, TaskOrder DEF Proceed
    <3> QED
      BY <1>2, <1>7, <2>1, <2>2, <3>1
  <2> QED
    BY <2>3, <2>4
<1> QED
  BY <1>8, <1>9

LEMMA MigrationStep ==
  ASSUME DataInv, task.at \in {"mark", "run", "clean"},
         NEW file, Put(dbPath, file), UNCHANGED <<backups, dbPath, open, wrote, stage, isNewSystem>>,
         Fits(file), file.rows = FileIn(dbs, dbPath).rows, file.version >= FileIn(dbs, dbPath).version,
         NEW step \in MigrationPart, GoesTo(step), MigrationFits(task', file)
  PROVE  DataInv'
<1>1. /\ TaskFits(task) /\ ServerFits(task, open, isNewSystem, stage = "down") /\ open = Closed
      /\ task.job \in {"boot", "setup", "migrate"}
  BY NoTaskFits DEF DataInv, ServerInv, TaskFits, ServerFits, Closing
<1>2. task' = [job |-> task.job, at |-> step, input |-> task.input]
  BY <1>1, GoesToGives
<1>3. /\ DOMAIN dbs' = DOMAIN dbs \cup {dbPath} /\ FileIn(dbs', dbPath) = file
      /\ \A p : p # dbPath => FileIn(dbs', p) = FileIn(dbs, p)
  BY PutGives
<1>4. Fits(FileIn(dbs, dbPath))
  BY FileFits DEF DataInv, FileInv
<1>5. FilesFit(dbs', backups')
  BY <1>3 DEF DataInv, FileInv, FilesFit, FileIn
<1>6. ChangesFit(dbs', wrote')
  BY <1>3, <1>4 DEF DataInv, FileInv, ChangesFit, Fits, FileType
<1>7. dbPath \in DOMAIN wrote =>
        \E b \in DOMAIN backups : KeptBy(backups, b, dbPath, wrote[dbPath])
  BY <1>1 DEF DataInv, MigrationInv, NewIsEmpty, BackupKeeps, MigrationPart
<1>8. ChangesKept(dbs', backups', wrote')
  <2> SUFFICES ASSUME NEW path \in DOMAIN wrote
               PROVE  \/ KeptIn(FileIn(dbs', path), wrote[path])
                      \/ \E b \in DOMAIN backups : KeptBy(backups, b, path, wrote[path])
    BY DEF ChangesKept
  <2> QED
    BY <1>3, <1>7 DEF DataInv, FileInv, ChangesKept
<1>9. ServerInv'
  <2>1. TaskFits(task')
    BY <1>1, <1>2 DEF TaskFits
  <2> QED
    BY <1>1, <1>2, <2>1, NoTaskFits DEF ServerInv, ServerFits, OpenFits
<1>10. /\ BackupIsThere(task, dbPath, backups) /\ BackupKeeps(task, dbPath, backups, wrote)
       /\ NewIsEmpty(task, dbPath, wrote)
  BY DEF DataInv, MigrationInv
<1>11. /\ BackupIsThere(task', dbPath', backups') /\ BackupKeeps(task', dbPath', backups', wrote')
       /\ NewIsEmpty(task', dbPath', wrote')
  BY <1>2, <1>10 DEF BackupIsThere, BackupKeeps, NewIsEmpty, MigrationPart
<1>12. MigratedIsKept(task', dbPath', dbs', wrote')
  BY <1>2 DEF MigratedIsKept, MigrationPart
<1> QED
  BY <1>3, <1>5, <1>6, <1>8, <1>9, <1>11, <1>12 DEF DataInv, FileInv, MigrationInv

LEMMA ClearGives ==
  ASSUME NEW file \in FileType, NEW m \in BOOLEAN
  PROVE  [file EXCEPT !.marked = m]
           = [version |-> file.version, marked |-> m, applied |-> file.applied, rows |-> file.rows]
BY DEF FileType

LEMMA MarkGives ==
  ASSUME NEW file \in FileType, NEW v \in Nat, NEW m \in BOOLEAN
  PROVE  [file EXCEPT !.version = v, !.marked = m]
           = [version |-> v, marked |-> m, applied |-> file.applied, rows |-> file.rows]
<1> DEFINE next == [file EXCEPT !.version = v]
<1>1. next = [version |-> v, marked |-> file.marked, applied |-> file.applied, rows |-> file.rows]
  BY DEF FileType
<1>2. next \in FileType
  BY <1>1 DEF FileType
<1>3. [file EXCEPT !.version = v, !.marked = m] = [next EXCEPT !.marked = m]
  BY DEF FileType
<1> HIDE DEF next
<1>4. next.version = v /\ next.applied = file.applied /\ next.rows = file.rows
  BY <1>1
<1> QED
  BY <1>2, <1>3, <1>4, ClearGives

LEMMA MigratesKeeps == ASSUME DataInv, Migrates PROVE DataInv'
<1> DEFINE old == FileIn(dbs, dbPath)
<1>1. /\ TaskFits(task) /\ MigrationFits(task, old) /\ UNCHANGED <<stage, isNewSystem>>
      /\ ServerFits(task, open, isNewSystem, stage = "down")
  BY DEF DataInv, ServerInv, MigrationInv, Migrates, StepsOnly, settingVars
<1>2. Fits(old)
  BY FileFits DEF DataInv, FileInv
<1> HIDE DEF old
<1>3. CASE Upcoming("mark") /\ Mark /\ Proceed
  <2> DEFINE file == [old EXCEPT !.version = @ + 1, !.marked = TRUE]
  <2>1. Put(dbPath, file) /\ UNCHANGED <<backups, dbPath, open, wrote>>
    BY <1>3, FilesThere DEF Mark, Put, old
  <2>2. task.at = "mark" /\ GoesTo("run")
    BY <1>3, TaskOrder DEF Upcoming, Proceed
  <2>3. ~old.marked
    BY <1>1, <2>2 DEF MigrationFits
  <2>4. Fits(file) /\ file.rows = old.rows /\ file.version >= old.version /\ file.marked /\ file.applied = file.version - 1
    <3>0. old.version + 1 \in Nat
      BY <1>2 DEF Fits, FileType
    <3>1. file = [version |-> old.version + 1, marked |-> TRUE, applied |-> old.applied, rows |-> old.rows]
      BY <1>2, <3>0, MarkGives DEF Fits
    <3>2. old.version \in Nat /\ old.applied = old.version /\ old.rows \in Nat
      BY <1>2, <2>3 DEF Fits, FileType
    <3> HIDE DEF file
    <3>3. /\ file \in FileType
          /\ file.version = old.version + 1 /\ file.applied = old.version /\ file.rows = old.rows
      BY <3>1, <3>2 DEF FileType
    <3>4. file.marked
      BY <3>1
    <3> QED
      BY <3>2, <3>3, <3>4 DEF Fits
  <2>5. task'.at = "run"
    BY <1>1, <2>2, GoesToGives
  <2> HIDE DEF file
  <2>6. MigrationFits(task', file)
    BY <2>4, <2>5 DEF MigrationFits
  <2> QED
    BY <1>1, <2>1, <2>2, <2>4, <2>6, MigrationStep DEF MigrationPart, old
<1>4. CASE Upcoming("run") /\ RunOne /\ Proceed
  <2> DEFINE file == [old EXCEPT !.applied = @ + 1]
  <2>1. Put(dbPath, file) /\ UNCHANGED <<backups, dbPath, open, wrote>>
    BY <1>4, FilesThere DEF RunOne, Put, old
  <2>2. task.at = "run" /\ GoesTo("clean")
    BY <1>4, TaskOrder DEF Upcoming, Proceed
  <2>3. old.marked /\ old.applied = old.version - 1
    BY <1>1, <2>2 DEF MigrationFits
  <2>4. Fits(file) /\ file.rows = old.rows /\ file.version >= old.version /\ file.marked /\ file.applied = file.version
    BY <1>2, <2>3 DEF Fits, FileType
  <2>5. task'.at = "clean"
    BY <1>1, <2>2, GoesToGives
  <2> HIDE DEF file
  <2>6. MigrationFits(task', file)
    BY <2>4, <2>5 DEF MigrationFits
  <2> QED
    BY <1>1, <2>1, <2>2, <2>4, <2>6, MigrationStep DEF MigrationPart, old
<1>5. CASE Upcoming("clean") /\ Clean /\ NextMigration(File(dbPath))
  <2> DEFINE file == [old EXCEPT !.marked = FALSE]
             step == IF old.version = AppSchema THEN "reopen" ELSE "mark"
  <2>1. Put(dbPath, file) /\ UNCHANGED <<backups, dbPath, open, wrote>>
    BY <1>5, FilesThere DEF Clean, Put, old
  <2>2. task.at = "clean" /\ GoesTo(step)
    BY <1>5, FilesThere DEF Upcoming, NextMigration, old
  <2>3. old.marked /\ old.applied = old.version
    BY <1>1, <2>2 DEF MigrationFits
  <2>4. Fits(file) /\ file.rows = old.rows /\ file.version >= old.version /\ ~file.marked
    <3>1. file = [version |-> old.version, marked |-> FALSE, applied |-> old.applied, rows |-> old.rows]
      BY <1>2, ClearGives DEF Fits
    <3>2. old.version \in Nat /\ old.applied = old.version /\ old.rows \in Nat
      BY <1>2, <2>3 DEF Fits, FileType
    <3> HIDE DEF file
    <3>3. /\ file \in FileType
          /\ file.version = old.version /\ file.applied = old.version /\ file.rows = old.rows
      BY <3>1, <3>2 DEF FileType
    <3>4. ~file.marked
      BY <3>1
    <3> QED
      BY <3>2, <3>3, <3>4 DEF Fits
  <2>5. task'.at = step /\ step \in {"reopen", "mark"}
    BY <1>1, <2>2, GoesToGives
  <2> HIDE DEF file, step
  <2>6. MigrationFits(task', file)
    BY <2>4, <2>5 DEF MigrationFits, Servable
  <2>7. step \in MigrationPart
    BY <2>5 DEF MigrationPart
  <2> QED
    BY <1>1, <2>1, <2>2, <2>4, <2>6, <2>7, MigrationStep DEF old
<1>6. CASE Upcoming("reopen") /\ Reopen /\ Proceed
  <2>1. /\ task.at = "reopen" /\ GoesTo("post migrate") /\ UNCHANGED <<dbs, backups, dbPath, wrote>>
        /\ open' = IF old.version # AppSchema THEN open ELSE dbPath
    BY <1>6, TaskOrder, FilesThere DEF Upcoming, Proceed, Reopen, Connect, NeedsMigration, old
  <2>2. /\ open = Closed /\ stage # "down" /\ task.job \in {"boot", "setup", "migrate"}
        /\ isNewSystem => task.job = "setup"
    BY <1>1, <2>1, NoTaskFits DEF TaskFits, ServerFits, Closing
  <2>3. task' = [job |-> task.job, at |-> "post migrate", input |-> task.input]
    BY <1>1, <2>1, GoesToGives
  <2>4. TaskFits(task')
    BY <1>1, <2>2, <2>3 DEF TaskFits
  <2>5. ServerInv'
    BY <1>1, <2>1, <2>2, <2>3, <2>4 DEF ServerInv, ServerFits, OpenFits, Closing, old
  <2>6. FileInv'
    BY <2>1 DEF DataInv, FileInv
  <2>7. Servable(old)
    BY <1>1, <2>1 DEF MigrationFits
  <2>8. BackupIsThere(task', dbPath', backups')
    BY <2>1, <2>3 DEF DataInv, MigrationInv, BackupIsThere
  <2>9. MigrationInv'
    BY <2>1, <2>3, <2>7, <2>8 DEF MigrationInv, MigrationFits, NewIsEmpty, BackupKeeps, MigratedIsKept, MigrationPart, old
  <2> QED
    BY <2>5, <2>6, <2>9 DEF DataInv
<1> QED
  BY <1>3, <1>4, <1>5, <1>6 DEF Migrates

LEMMA MigrationFailsKeeps == ASSUME DataInv, MigrationFails PROVE DataInv'
<1>1. /\ UNCHANGED <<dbs, backups, dbPath, open, wrote, isNewSystem>> /\ task.at = "run" /\ GivesUp("migration")
      /\ TaskFits(task) /\ ServerFits(task, open, isNewSystem, stage = "down")
  BY DEF DataInv, ServerInv, MigrationFails, Upcoming, dbVars, settingVars
<1>2. open = Closed /\ stage # "down" /\ FileInv'
  BY <1>1, NoTaskFits DEF ServerFits, Closing, DataInv, FileInv
<1>3. stage' # "down"
  BY <1>1, <1>2, GivesUpGives
<1>4. CASE task' = NoTask
  <2>1. ServerInv'
    BY <1>1, <1>2, <1>3, <1>4, NoTaskFits DEF ServerInv, ServerFits, OpenFits
  <2>2. MigrationInv'
    BY <1>4, NoTaskFits DEF MigrationInv, MigrationFits, NewIsEmpty, BackupIsThere, BackupKeeps, MigratedIsKept, MigrationPart
  <2> QED
    BY <1>2, <2>1, <2>2 DEF DataInv
<1>5. CASE task.job = "migrate" /\ task' = [job |-> task.job, at |-> "restore", input |-> task.input]
  <2>1. TaskFits(task')
    BY <1>5 DEF TaskFits
  <2>2. ServerInv'
    BY <1>1, <1>2, <1>3, <1>5, <2>1 DEF ServerInv, ServerFits, OpenFits
  <2>3. BackupKeeps(task, dbPath, backups, wrote) /\ BackupIsThere(task, dbPath, backups)
    BY DEF DataInv, MigrationInv
  <2>4. MigrationInv'
    BY <1>1, <1>5, <2>3 DEF MigrationInv, MigrationFits, NewIsEmpty, BackupIsThere, BackupKeeps, MigratedIsKept, MigrationPart
  <2> QED
    BY <1>2, <2>2, <2>4 DEF DataInv
<1> QED
  BY <1>1, <1>4, <1>5, GivesUpGives

LEMMA BacksUpKeeps == ASSUME DataInv, BacksUp PROVE DataInv'
<1> DEFINE n == task.input.backup
           old == FileIn(dbs, dbPath)
<1>1. /\ UNCHANGED isNewSystem /\ task.at = "backup"
      /\ TaskFits(task) /\ ServerFits(task, open, isNewSystem, stage = "down")
  BY DEF DataInv, ServerInv, BacksUp, Upcoming, settingVars
<1>2. open = Closed /\ stage # "down" /\ ~isNewSystem /\ task.job = "migrate"
  BY <1>1, NoTaskFits DEF TaskFits, ServerFits, Closing, BootPart, SetupPart, MigrationPart
<1>3. CASE n \in DOMAIN backups
  <2>1. UNCHANGED dbVars /\ GivesUp("backup")
    BY <1>3 DEF BacksUp
  <2>2. task' = NoTask /\ stage' # "down"
    BY <1>1, <1>2, <2>1, GivesUpGives
  <2>3. ServerInv'
    BY <1>1, <1>2, <2>1, <2>2, NoTaskFits DEF ServerInv, ServerFits, OpenFits, dbVars
  <2> QED
    BY <2>1, <2>2, <2>3, NoTaskFits, OutsideMigrations DEF MigrationPart
<1>4. CASE n \notin DOMAIN backups
  <2>1. /\ UNCHANGED <<dbs, dbPath, open, wrote, stage>> /\ Proceed
        /\ backups' = With(backups, n, [of |-> dbPath, file |-> old])
    BY <1>4, FilesThere DEF BacksUp, Backup
  <2>2. task' = [job |-> "migrate", at |-> "migrations", input |-> task.input]
    BY <1>1, <1>2, <2>1, GoesToGives, TaskOrder DEF Proceed
  <2>3. /\ DOMAIN backups' = DOMAIN backups \cup {n}
        /\ backups'[n] = [of |-> dbPath, file |-> old]
        /\ \A b \in DOMAIN backups : backups'[b] = backups[b]
    BY <1>4, <2>1 DEF With
  <2>4. Fits(old)
    BY FileFits DEF DataInv, FileInv
  <2>5. FilesFit(dbs', backups')
    BY <2>1, <2>3, <2>4 DEF DataInv, FileInv, FilesFit
  <2>6. ASSUME NEW path, NEW changes, NEW b, KeptBy(backups, b, path, changes)
        PROVE  KeptBy(backups', b, path, changes)
    BY <2>3, <2>6 DEF KeptBy
  <2>7. ChangesKept(dbs', backups', wrote')
    <3> SUFFICES ASSUME NEW path \in DOMAIN wrote
                 PROVE  \/ KeptIn(FileIn(dbs, path), wrote[path])
                        \/ \E b \in DOMAIN backups' : KeptBy(backups', b, path, wrote[path])
      BY <2>1 DEF ChangesKept
    <3>1. CASE KeptIn(FileIn(dbs, path), wrote[path])
      BY <3>1
    <3>2. CASE \E b \in DOMAIN backups : KeptBy(backups, b, path, wrote[path])
      BY <2>3, <2>6, <3>2
    <3> QED
      BY <3>1, <3>2 DEF DataInv, FileInv, ChangesKept
  <2>8. FileInv'
    BY <2>1, <2>5, <2>7 DEF DataInv, FileInv
  <2>9. TaskFits(task')
    BY <2>2 DEF TaskFits
  <2>10. ServerInv'
    BY <1>1, <1>2, <2>1, <2>2, <2>9 DEF ServerInv, ServerFits, OpenFits
  <2>11. ASSUME dbPath \in DOMAIN wrote
         PROVE  /\ old.version >= 1 /\ old.rows >= wrote[dbPath]
                /\ \E b \in DOMAIN backups' : KeptBy(backups', b, dbPath, wrote[dbPath])
    <3>1. wrote[dbPath] \in Nat /\ wrote[dbPath] <= old.rows /\ old.version >= 1
      BY <2>11 DEF DataInv, FileInv, ChangesFit
    <3>2. old.rows >= wrote[dbPath]
      BY <2>4, <3>1 DEF Fits, FileType
    <3>3. CASE KeptIn(old, wrote[dbPath])
      <4>1. n \in DOMAIN backups' /\ backups'[n].of = dbPath /\ backups'[n].file = old
        BY <2>3
      <4>2. KeptBy(backups', n, dbPath, wrote[dbPath])
        BY <3>3, <4>1 DEF KeptBy, KeptIn
      <4> QED
        BY <3>1, <3>2, <4>1, <4>2
    <3>4. CASE \E b \in DOMAIN backups : KeptBy(backups, b, dbPath, wrote[dbPath])
      <4>1. PICK b \in DOMAIN backups : KeptBy(backups, b, dbPath, wrote[dbPath])
        BY <3>4
      <4>2. KeptBy(backups', b, dbPath, wrote[dbPath])
        BY <2>6, <4>1
      <4> QED
        BY <2>3, <3>1, <3>2, <4>1, <4>2
    <3>5. KeptIn(old, wrote[dbPath]) \/ \E b \in DOMAIN backups : KeptBy(backups, b, dbPath, wrote[dbPath])
      BY <2>11 DEF DataInv, FileInv, ChangesKept
    <3> QED
      BY <3>1, <3>2, <3>3, <3>4, <3>5
  <2>12. BackupKeeps(task', dbPath, backups', wrote) /\ BackupIsThere(task', dbPath, backups')
    <3>1. task'.input.backup = n /\ n \in DOMAIN backups' /\ backups'[n].of = dbPath /\ backups'[n].file = old
      BY <2>2, <2>3
    <3> QED
      BY <2>11, <3>1 DEF BackupKeeps, BackupIsThere
  <2>13. MigrationInv'
    BY <2>1, <2>2, <2>12 DEF MigrationInv, MigrationFits, NewIsEmpty, MigratedIsKept, MigrationPart
  <2> QED
    BY <2>8, <2>10, <2>13 DEF DataInv
<1> QED
  BY <1>3, <1>4

LEMMA RunMigrationsKeeps == ASSUME DataInv, RunMigrations PROVE DataInv'
<1> DEFINE old == FileIn(dbs, dbPath)
           t(step) == [job |-> "migrate", at |-> step, input |-> task.input]
<1>1. /\ UNCHANGED <<dbs, backups, dbPath, open, wrote, isNewSystem>> /\ task.at = "migrations"
      /\ TaskFits(task) /\ ServerFits(task, open, isNewSystem, stage = "down")
  BY DEF DataInv, ServerInv, RunMigrations, MigrationBegins, Upcoming, settingVars
<1>2. open = Closed /\ stage # "down" /\ ~isNewSystem /\ task.job = "migrate"
  BY <1>1, NoTaskFits DEF TaskFits, ServerFits, Closing, BootPart, SetupPart, MigrationPart
<1>3. MustStop <=> old.version # AppSchema /\ old.marked
  BY FilesThere DEF MustStop
<1>4. \/ task' = NoTask
      \/ task' = t("restore")
      \/ task' = t("reopen") /\ Servable(old)
      \/ task' = t("mark") /\ ~old.marked
  <2>1. CASE MustStop
    <3>1. GivesUp("migration")
      BY <2>1 DEF RunMigrations
    <3> QED
      BY <1>1, <1>2, <3>1, GivesUpGives
  <2>2. CASE ~MustStop
    <3>1. NextMigration(File(dbPath))
      BY <2>2 DEF RunMigrations
    <3>2. CASE old.version = AppSchema
      <4>1. GoesTo("reopen")
        BY <3>1, <3>2, FilesThere DEF NextMigration
      <4> QED
        BY <1>1, <1>2, <3>2, <4>1, GoesToGives DEF Servable
    <3>3. CASE old.version # AppSchema
      <4>1. GoesTo("mark")
        BY <3>1, <3>3, FilesThere DEF NextMigration
      <4> QED
        BY <1>1, <1>2, <1>3, <2>2, <3>3, <4>1, GoesToGives
    <3> QED
      BY <3>2, <3>3
  <2> QED
    BY <2>1, <2>2
<1>5. stage' # "down"
  BY <1>1, <1>2, GivesUpGives DEF RunMigrations
<1>6. FileInv'
  BY <1>1 DEF DataInv, FileInv
<1>7. TaskFits(task')
  <2>1. ASSUME NEW step \in {"restore", "reopen", "mark"} PROVE TaskFits(t(step))
    BY DEF TaskFits, MigrationPart
  <2> QED
    BY <1>4, <2>1, NoTaskFits
<1>8. ServerInv'
  BY <1>1, <1>2, <1>5, <1>7 DEF ServerInv, ServerFits, OpenFits
<1>9. BackupKeeps(task, dbPath, backups, wrote) /\ BackupIsThere(task, dbPath, backups)
  BY DEF DataInv, MigrationInv
<1>10. ASSUME NEW step \in {"restore", "reopen", "mark"}, task' = t(step),
              step = "reopen" => Servable(old), step = "mark" => ~old.marked
       PROVE  MigrationInv'
  <2>1. BackupKeeps(task', dbPath, backups, wrote) /\ BackupIsThere(task', dbPath, backups)
    BY <1>1, <1>2, <1>9, <1>10 DEF BackupKeeps, BackupIsThere
  <2> QED
    BY <1>1, <1>10, <2>1 DEF MigrationInv, MigrationFits, NewIsEmpty, MigratedIsKept, MigrationPart
<1>11. task' = NoTask => MigrationInv'
  BY NoTaskFits DEF MigrationInv, MigrationFits, NewIsEmpty, BackupIsThere, BackupKeeps, MigratedIsKept, MigrationPart
<1> QED
  BY <1>4, <1>6, <1>8, <1>10, <1>11 DEF DataInv

LEMMA WithoutGives ==
  ASSUME NEW n
  PROVE  /\ DOMAIN Without(n) = DOMAIN backups \ {n}
         /\ \A b \in DOMAIN backups \ {n} : Without(n)[b] = backups[b]
BY DEF Without

LEMMA RestoresKeeps == ASSUME DataInv, Restores PROVE DataInv'
<1> DEFINE n == task.input.backup
           kept == backups[n].file
<1>1. /\ UNCHANGED <<dbPath, open, wrote, stage, isNewSystem>> /\ task.at = "restore" /\ task' = NoTask
      /\ TaskFits(task) /\ ServerFits(task, open, isNewSystem, stage = "down")
  BY DEF DataInv, ServerInv, Restores, RestoreFromBackup, StepsOnly, Upcoming, settingVars
<1>2. open = Closed /\ task.job = "migrate" /\ stage # "down"
  BY <1>1, NoTaskFits DEF TaskFits, ServerFits, Closing, BootPart, SetupPart, MigrationPart
<1>3. /\ n \in DOMAIN backups /\ backups[n].of = dbPath
      /\ dbPath \in DOMAIN wrote =>
           /\ kept.version >= 1 /\ kept.rows >= wrote[dbPath]
           /\ \E b \in DOMAIN backups : KeptBy(backups, b, dbPath, wrote[dbPath])
  BY <1>1, <1>2 DEF DataInv, MigrationInv, BackupIsThere, BackupKeeps
<1>4. Put(dbPath, kept) /\ backups' = Without(n)
  BY DEF Restores, RestoreFromBackup
<1>5. /\ DOMAIN dbs' = DOMAIN dbs \cup {dbPath} /\ FileIn(dbs', dbPath) = kept
      /\ \A p : p # dbPath => FileIn(dbs', p) = FileIn(dbs, p)
  BY <1>4, PutGives
<1>6. /\ DOMAIN backups' = DOMAIN backups \ {n}
      /\ \A b \in DOMAIN backups \ {n} : backups'[b] = backups[b]
  BY <1>4, WithoutGives
<1>7. Fits(kept)
  BY <1>3 DEF DataInv, FileInv, FilesFit
<1>8. FilesFit(dbs', backups')
  BY <1>5, <1>6, <1>7 DEF DataInv, FileInv, FilesFit, FileIn
<1>9. ChangesFit(dbs', wrote')
  <2>1. dbPath \in DOMAIN wrote => wrote[dbPath] \in Nat
    BY DEF DataInv, FileInv, ChangesFit
  <2>2. dbPath \in DOMAIN wrote => wrote[dbPath] <= kept.rows
    BY <1>3, <1>7, <2>1 DEF Fits, FileType
  <2> QED
    BY <1>1, <1>3, <1>5, <2>2 DEF DataInv, FileInv, ChangesFit
<1>10. ChangesKept(dbs', backups', wrote')
  <2> SUFFICES ASSUME NEW path \in DOMAIN wrote
               PROVE  \/ KeptIn(FileIn(dbs', path), wrote[path])
                      \/ \E b \in DOMAIN backups' : KeptBy(backups', b, path, wrote[path])
    BY <1>1 DEF ChangesKept
  <2>1. ASSUME NEW b \in DOMAIN backups, KeptBy(backups, b, path, wrote[path])
        PROVE  \/ KeptIn(FileIn(dbs', path), wrote[path])
               \/ KeptBy(backups', b, path, wrote[path])
    <3>1. CASE b = n
      BY <1>3, <1>5, <2>1, <3>1 DEF KeptBy
    <3>2. CASE b # n
      BY <1>6, <2>1, <3>2 DEF KeptBy
    <3> QED
      BY <3>1, <3>2
  <2>2. CASE \E b \in DOMAIN backups : KeptBy(backups, b, path, wrote[path])
    <3>1. PICK b \in DOMAIN backups : KeptBy(backups, b, path, wrote[path])
      BY <2>2
    <3>2. CASE KeptBy(backups', b, path, wrote[path])
      BY <3>2 DEF KeptBy
    <3> QED
      BY <2>1, <3>1, <3>2
  <2>3. CASE path # dbPath /\ KeptIn(FileIn(dbs, path), wrote[path])
    BY <1>5, <2>3
  <2> QED
    BY <1>3, <2>2, <2>3 DEF DataInv, FileInv, ChangesKept
<1>11. ServerInv'
  BY <1>1, <1>2, NoTaskFits DEF ServerInv, ServerFits, OpenFits
<1>12. MigrationInv'
  BY <1>1, NoTaskFits DEF MigrationInv, MigrationFits, NewIsEmpty, BackupIsThere, BackupKeeps, MigratedIsKept, MigrationPart
<1> QED
  BY <1>8, <1>9, <1>10, <1>11, <1>12 DEF DataInv, FileInv

LEMMA RemovesBackupKeeps == ASSUME DataInv, RemovesBackup PROVE DataInv'
<1> DEFINE n == task.input.backup
<1>1. /\ UNCHANGED <<dbs, dbPath, open, wrote, stage, isNewSystem>> /\ task.at = "remove backup" /\ task' = NoTask
      /\ TaskFits(task) /\ ServerFits(task, open, isNewSystem, stage = "down") /\ OpenFits(dbs, open)
      /\ backups' = backups \/ backups' = Without(n)
  BY DEF DataInv, ServerInv, RemovesBackup, RemoveBackup, StepsOnly, Upcoming, settingVars, dbVars
<1>2. task.job = "migrate" /\ stage # "down"
  BY <1>1, NoTaskFits DEF TaskFits, ServerFits, BootPart, SetupPart, MigrationPart
<1>3. ~isNewSystem
  BY <1>1, <1>2 DEF ServerFits
<1>4. dbPath \in DOMAIN wrote => KeptIn(FileIn(dbs, dbPath), wrote[dbPath])
  <2> SUFFICES ASSUME dbPath \in DOMAIN wrote PROVE KeptIn(FileIn(dbs, dbPath), wrote[dbPath])
    OBVIOUS
  <2>1. Servable(FileIn(dbs, dbPath))
    BY <1>1, <1>2 DEF DataInv, MigrationInv, MigratedIsKept
  <2>2. wrote[dbPath] \in Nat /\ wrote[dbPath] <= FileIn(dbs, dbPath).rows
    BY DEF DataInv, FileInv, ChangesFit
  <2>3. FileIn(dbs, dbPath).rows \in Nat
    BY FileFits DEF DataInv, FileInv, Fits, FileType
  <2> QED
    BY <2>1, <2>2, <2>3 DEF KeptIn
<1>5. ServerInv'
  BY <1>1, <1>2, <1>3, NoTaskFits DEF ServerInv, ServerFits, OpenFits, Closing
<1>6. MigrationInv'
  BY <1>1, NoTaskFits DEF MigrationInv, MigrationFits, NewIsEmpty, BackupIsThere, BackupKeeps, MigratedIsKept, MigrationPart
<1>7. FileInv'
  <2>1. CASE backups' = backups
    BY <1>1, <2>1 DEF DataInv, FileInv
  <2>2. CASE backups' = Without(n)
    <3>1. /\ DOMAIN backups' = DOMAIN backups \ {n}
          /\ \A b \in DOMAIN backups \ {n} : backups'[b] = backups[b]
      BY <2>2, WithoutGives
    <3>2. backups[n].of = dbPath
      BY <1>1, <1>2 DEF DataInv, MigrationInv, BackupIsThere
    <3>3. ASSUME NEW path \in DOMAIN wrote, NEW b \in DOMAIN backups, KeptBy(backups, b, path, wrote[path])
          PROVE  \/ KeptIn(FileIn(dbs, path), wrote[path])
                 \/ b \in DOMAIN backups' /\ KeptBy(backups', b, path, wrote[path])
      BY <1>4, <3>1, <3>2, <3>3 DEF KeptBy
    <3>4. ChangesKept(dbs', backups', wrote')
      BY <1>1, <3>3 DEF DataInv, FileInv, ChangesKept
    <3>5. FilesFit(dbs', backups')
      BY <1>1, <3>1 DEF DataInv, FileInv, FilesFit
    <3> QED
      BY <1>1, <3>4, <3>5 DEF DataInv, FileInv
  <2> QED
    BY <1>1, <2>1, <2>2
<1> QED
  BY <1>5, <1>6, <1>7 DEF DataInv

LEMMA LibraryGrowsKeeps == ASSUME DataInv, LibraryGrows PROVE DataInv'
<1> DEFINE old == FileIn(dbs, open)
           grown == [old EXCEPT !.rows = @ + 1]
<1>1. /\ UNCHANGED <<task, stage, isNewSystem, backups, dbPath, open>> /\ open # Closed
      /\ dbs' = With(dbs, open, grown)
      /\ wrote' = IF old.marked THEN wrote
                  ELSE With(wrote, open, IF open \in DOMAIN wrote THEN wrote[open] + 1 ELSE 1)
  BY FilesThere DEF LibraryGrows, UserWrites, Put, Ready, settingVars, startupVars
<1>2. Put(open, grown)
  BY <1>1 DEF Put
<1>3. /\ DOMAIN dbs' = DOMAIN dbs \cup {open} /\ FileIn(dbs', open) = grown
      /\ \A p : p # open => FileIn(dbs', p) = FileIn(dbs, p)
  BY <1>2, PutGives
<1>4. /\ Fits(old) /\ old.version = AppSchema /\ task.at \in Closing
      /\ TaskFits(task) /\ ServerFits(task, open, isNewSystem, stage = "down")
  BY <1>1, FileFits DEF DataInv, FileInv, ServerInv, ServerFits, OpenFits
<1>5. /\ grown = [version |-> old.version, marked |-> old.marked, applied |-> old.applied, rows |-> old.rows + 1]
      /\ old.rows \in Nat
  BY <1>4 DEF Fits, FileType
<1>6. grown.version = AppSchema /\ grown.rows = old.rows + 1 /\ Servable(grown) /\ grown.version >= 1
  BY <1>4, <1>5, SchemaAssumption DEF Servable
<1>7. grown \in FileType /\ grown.marked = old.marked /\ grown.applied = old.applied /\ grown.version = old.version
  BY <1>4, <1>5 DEF Fits, FileType
<1> HIDE DEF grown
<1>8. Fits(grown)
  BY <1>4, <1>7 DEF Fits
<1>9. FilesFit(dbs', backups')
  BY <1>1, <1>3, <1>8 DEF DataInv, FileInv, FilesFit, FileIn
<1>10. /\ DOMAIN wrote' \subseteq DOMAIN wrote \cup {open}
       /\ \A p \in DOMAIN wrote' : p # open => p \in DOMAIN wrote /\ wrote'[p] = wrote[p]
       /\ open \in DOMAIN wrote' => wrote'[open] \in Nat /\ wrote'[open] <= grown.rows
  <2>1. open \in DOMAIN wrote => wrote[open] \in Nat /\ wrote[open] <= old.rows
    BY DEF DataInv, FileInv, ChangesFit
  <2>2. CASE wrote' = wrote
    BY <1>5, <1>6, <2>1, <2>2
  <2>3. CASE wrote' = With(wrote, open, IF open \in DOMAIN wrote THEN wrote[open] + 1 ELSE 1)
    <3>1. /\ DOMAIN wrote' = DOMAIN wrote \cup {open}
          /\ \A p \in DOMAIN wrote : p # open => wrote'[p] = wrote[p]
          /\ wrote'[open] = IF open \in DOMAIN wrote THEN wrote[open] + 1 ELSE 1
      BY <2>3 DEF With
    <3> QED
      BY <1>5, <1>6, <2>1, <3>1
  <2> QED
    BY <1>1, <2>2, <2>3
<1>11. ChangesFit(dbs', wrote')
  BY <1>3, <1>6, <1>10 DEF DataInv, FileInv, ChangesFit
<1>12. ChangesKept(dbs', backups', wrote')
  <2> SUFFICES ASSUME NEW path \in DOMAIN wrote'
               PROVE  \/ KeptIn(FileIn(dbs', path), wrote'[path])
                      \/ \E b \in DOMAIN backups' : KeptBy(backups', b, path, wrote'[path])
    BY DEF ChangesKept
  <2>1. CASE path = open
    <3>1. wrote'[open] \in Nat /\ wrote'[open] <= grown.rows /\ grown.rows \in Nat
      BY <1>5, <1>6, <1>10, <2>1
    <3>2. wrote'[open] <= grown.rows => grown.rows >= wrote'[open]
      BY <3>1
    <3> QED
      BY <1>3, <1>6, <2>1, <3>1, <3>2 DEF KeptIn
  <2>2. CASE path # open
    BY <1>1, <1>3, <1>10, <2>2 DEF DataInv, FileInv, ChangesKept
  <2> QED
    BY <2>1, <2>2
<1>13. ServerInv'
  BY <1>1, <1>3, <1>4, <1>6 DEF ServerInv, OpenFits
<1>14. MigratedIsKept(task', dbPath', dbs', wrote')
  BY <1>1, <1>3, <1>6, <1>10 DEF DataInv, MigrationInv, MigratedIsKept
<1>15. BackupIsThere(task', dbPath', backups')
  BY <1>1 DEF DataInv, MigrationInv
<1>16. MigrationInv'
  BY <1>1, <1>4, <1>14, <1>15
  DEF MigrationInv, MigrationFits, NewIsEmpty, BackupKeeps, MigrationPart, Closing
<1> QED
  BY <1>9, <1>11, <1>12, <1>13, <1>16 DEF DataInv, FileInv

LEMMA DataInitial == ASSUME NEW plans, plans = Plans \/ plans = {NoPlan}, StartupFrom(plans) PROVE DataInv
<1>1. /\ dbs = plan.dbs /\ wrote = [path \in DOMAIN dbs |-> dbs[path].rows] /\ backups = <<>>
      /\ ~isNewSystem /\ open = Closed /\ task = NoTask
  BY DEF StartupFrom
<1>2. \A path \in DOMAIN dbs :
        /\ dbs[path] \in FileType /\ ~dbs[path].marked
        /\ dbs[path].applied = dbs[path].version /\ dbs[path].version # 0
  <2>1. CASE plan \in Plans
    <3> SUFFICES ASSUME NEW path \in DOMAIN dbs
                 PROVE  /\ dbs[path] \in FileType /\ ~dbs[path].marked
                        /\ dbs[path].applied = dbs[path].version /\ dbs[path].version # 0
      OBVIOUS
    <3>1. /\ dbs[path] \in [version : 1..AppSchema, marked : {FALSE}, applied : Nat, rows : Nat]
          /\ dbs[path].applied = dbs[path].version
      BY <1>1, <2>1, PlanAssumption
    <3>2. 1..AppSchema \subseteq Nat \ {0}
      BY SchemaAssumption
    <3> QED
      BY <3>1, <3>2 DEF FileType
  <2>2. CASE plan = NoPlan
    BY <1>1, <2>2 DEF NoPlan
  <2> QED
    BY <2>1, <2>2 DEF StartupFrom
<1>3. DOMAIN backups = {}
  BY <1>1
<1>4. FilesFit(dbs, backups)
  BY <1>2, <1>3 DEF FilesFit, Fits
<1>5. ASSUME NEW path \in DOMAIN wrote
      PROVE  /\ wrote[path] \in Nat /\ FileIn(dbs, path).rows = wrote[path]
             /\ FileIn(dbs, path).version >= 1 /\ Servable(FileIn(dbs, path))
  <2>1. path \in DOMAIN dbs /\ wrote[path] = dbs[path].rows /\ FileIn(dbs, path) = dbs[path]
    BY <1>1 DEF FileIn
  <2>2. dbs[path].rows \in Nat /\ dbs[path].version \in Nat /\ dbs[path].version # 0
    BY <1>2, <2>1 DEF FileType
  <2> QED
    BY <1>2, <2>1, <2>2 DEF Servable
<1>6. FileInv
  BY <1>4, <1>5 DEF FileInv, ChangesFit, ChangesKept, KeptIn
<1>7. ServerInv
  BY <1>1, NoTaskFits DEF ServerInv, ServerFits, OpenFits
<1>8. MigrationInv
  BY <1>1, NoTaskFits DEF MigrationInv, MigrationFits, NewIsEmpty, BackupIsThere, BackupKeeps, MigratedIsKept, MigrationPart
<1> QED
  BY <1>6, <1>7, <1>8 DEF DataInv

LEMMA DataStep == ASSUME DataInv, [StartupNext]_serverVars PROVE DataInv'
<1>1. CASE UNCHANGED serverVars
  BY <1>1, NothingOfIt DEF serverVars, settingVars, startupVars
<1>2. CASE StartupNext
  BY <1>2, InitializeKeeps, StartKeepsData, TasksBegin, TasksEnd, UsersConfigureKeeps, GoesDownKeeps,
     OpensDatabaseKeeps, MigratesKeeps, MigrationFailsKeeps, BacksUpKeeps, RunMigrationsKeeps, RestoresKeeps,
     RemovesBackupKeeps, LibraryGrowsKeeps
  DEF StartupNext
<1> QED
  BY <1>1, <1>2

(***************************************************************************)
(* A server serves only a database that has the schema's migrations, but   *)
(* for one whose last never ended, and what users wrote is in a file that  *)
(* can be served, the database or a backup of it: for any databases, any   *)
(* number of migrations and any failures (manager.go:437-475).             *)
(***************************************************************************)
THEOREM UsersDataIsKept == SpecServices => []DataKept
<1>1. InitServices => DataInv
  BY DataInitial DEF InitServices
<1>2. DataInv /\ [NextServices]_allVars => DataInv'
  <2>1. [NextServices]_allVars => [StartupNext]_serverVars
    BY DEF NextServices, allVars
  <2> QED
    BY <2>1, DataStep
<1> QED
  BY <1>1, <1>2, DataInvKeepsData, PTL DEF SpecServices
=============================================================================
