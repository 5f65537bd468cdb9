---------------------------- MODULE DlnaService ----------------------------
(***************************************************************************)
(* internal/dlna/service.go: the DLNA service is started and stopped for   *)
(* good or for a while, by timers whose callbacks call Stop(nil) and       *)
(* Start(nil).  A timer that has fired has started a goroutine, and        *)
(* stopping the timer does not stop the goroutine.  The mutex makes Start  *)
(* and Stop one step each, but the server that Start creates sets itself   *)
(* up in a goroutine of its own (dms.go, Serve).                           *)
(*                                                                         *)
(* internal/dlna/whitelist.go: which clients the server answers, by the    *)
(* configured list and by patterns allowed for a while; the manager's      *)
(* mutex makes every operation one step.  The list of recent addresses is  *)
(* left out.                                                               *)
(*                                                                         *)
(* A timer field is nil, or points to a timer that is armed for an         *)
(* instant, or to one that has fired or was stopped ("idle").              *)
(***************************************************************************)
EXTENDS Integers

CONSTANTS
  Addresses, Wildcard,
  Defaults,           \* GetDLNADefaultIPWhitelist
  Absent, Forever,    \* no entry, and an entry without end
  NoDuration,         \* a nil duration
  Durations,          \* the others
  Horizon             \* the model's last instant

Patterns == Addresses \cup {Wildcard}
Times == 0..Horizon

ASSUME WhitelistAssumption ==
  /\ Horizon \in Nat /\ Durations \subseteq Nat
  /\ Wildcard \notin Addresses /\ Defaults \subseteq Patterns
  /\ NoDuration \notin Durations
  /\ Absent \notin Int /\ Forever \notin Int /\ Absent # Forever

CONSTANTS
  NoTimer, Idle,    \* the fields' values besides instants
  NoTime,
  MaxFired          \* bound: goroutines of one timer field at once

ASSUME DlnaAssumption ==
  /\ {NoTimer, Idle, NoTime} \cap Int = {}
  /\ NoTimer # Idle
  /\ MaxFired \in Nat \ {0}

VARIABLES
  now,
  temp,     \* tempWhitelist: pattern -> until when
  granted,  \* what the users have asked for: pattern -> until when
  running,
  stopTimer, stopTime,
  startTimer, startTime,
  firedStop, firedStart,    \* callbacks that wait for the mutex
  server,                   \* how far Serve has come
  promised                  \* the last Start asked for an end

whitelistVars == <<temp, granted>>
serviceVars == <<running, stopTimer, stopTime, startTimer, startTime,
                 firedStop, firedStart, server, promised>>
timerVars == <<stopTimer, stopTime, startTimer, startTime>>
vars == <<now, whitelistVars, serviceVars>>

WhitelistTypeOK ==
  /\ temp \in [Patterns -> Times \cup {Absent, Forever}]
  /\ granted \in [Patterns -> Times \cup {Absent, Forever}]

WhitelistInit ==
  /\ temp = [p \in Patterns |-> Absent]
  /\ granted = temp

TypeOK ==
  /\ WhitelistTypeOK
  /\ now \in Times
  /\ running \in BOOLEAN /\ promised \in BOOLEAN
  /\ stopTimer \in Times \cup {NoTimer, Idle}
  /\ startTimer \in Times \cup {NoTimer, Idle}
  /\ stopTime \in Times \cup {NoTime} /\ startTime \in Times \cup {NoTime}
  /\ firedStop \in 0..MaxFired /\ firedStart \in 0..MaxFired
  /\ server \in {"closed", "launched", "opened", "serving", "stuck", "crashed"}

Init ==
  /\ WhitelistInit
  /\ now = 0
  /\ running = FALSE /\ promised = FALSE
  /\ stopTimer = NoTimer /\ stopTime = NoTime
  /\ startTimer = NoTimer /\ startTime = NoTime
  /\ firedStop = 0 /\ firedStart = 0
  /\ server = "closed"

\* Nobody is stuck with the service's mutex, and the process lives.
Alive == server \notin {"stuck", "crashed"}

-----------------------------------------------------------------------------
(* The list of the clients that are let in.                                *)

\* The instant d from now; the model looks no further than Horizon.
Until(d) == IF d = NoDuration THEN Forever ELSE now + d
InReach(d) == d \in Durations => now + d <= Horizon

\* now.After(until)
Expired(until) == until \notin {Absent, Forever} /\ now > until

\* allowPattern overwrites the pattern's entry or adds one.
AllowPattern(p, d) ==
  /\ InReach(d)
  /\ temp' = [temp EXCEPT ![p] = Until(d)]
  /\ granted' = [granted EXCEPT ![p] = Until(d)]
  /\ UNCHANGED now

RemovePattern(p) ==
  /\ temp' = [temp EXCEPT ![p] = Absent]
  /\ granted' = [granted EXCEPT ![p] = Absent]
  /\ UNCHANGED now

\* Mutant: every entry with an end goes.
WithoutAnyTimed == [p \in Patterns |-> IF temp[p] = Forever THEN Forever ELSE Absent]

\* removeExpiredWhitelists
WithoutExpired == [p \in Patterns |-> IF Expired(temp[p]) THEN Absent ELSE temp[p]]

IpAllowed(a) == \E p \in {a, Wildcard} :
  p \in Defaults \/ (temp[p] # Absent /\ ~Expired(temp[p]))

\* A client asks; one that is refused has met every entry, and clears up.
Request(a) ==
  /\ temp' = IF IpAllowed(a) THEN temp ELSE WithoutExpired
  /\ UNCHANGED <<now, granted>>

\* Status asks for the allowed patterns, getTempAllowed.
AskStatus ==
  /\ temp' = WithoutExpired
  /\ UNCHANGED <<now, granted>>

\* The operations that need no more than the manager's mutex.
WhitelistNext ==
  \/ \E a \in Addresses : Request(a)
  \/ \E p \in Patterns : RemovePattern(p)
  \/ \E p \in Patterns, d \in Durations \cup {NoDuration} : AllowPattern(p, d)

-----------------------------------------------------------------------------
\* A stopped service that cannot be set up stays as it is.
SetupFails == Alive /\ ~running /\ UNCHANGED serviceVars

\* Mutant: the timer that would start the service is left alone.
StartServerOnly ==
  running' = TRUE /\ server' = "launched" /\ UNCHANGED <<startTimer, startTime>>

StartServer ==
  /\ running' = TRUE
  /\ server' = IF running THEN server ELSE "launched"
  /\ startTimer' = IF running THEN startTimer ELSE NoTimer
  /\ startTime' = IF running \/ startTimer = NoTimer THEN startTime ELSE NoTime

\* Mutant: the time of the end is left when its timer is stopped.
ArmStopKeepsTime(d) ==
  IF stopTimer = NoTimer
  THEN stopTimer' = now + d /\ stopTime' = now + d
  ELSE stopTimer' = Idle /\ UNCHANGED stopTime

\* A stop timer there already is is stopped, and there stays.
ArmStop(d) ==
  IF stopTimer = NoTimer
  THEN stopTimer' = now + d /\ stopTime' = now + d
  ELSE stopTimer' = Idle /\ stopTime' = NoTime

Start(d) ==
  /\ Alive
  /\ StartServer
  /\ IF d = NoDuration THEN UNCHANGED <<stopTimer, stopTime, promised>>
                       ELSE ArmStop(d) /\ promised' = TRUE

StopServer ==
  /\ running' = FALSE
  /\ promised' = FALSE
  /\ server' = "closed"
  /\ stopTimer' = IF running THEN NoTimer ELSE stopTimer
  /\ stopTime' = IF running /\ stopTimer # NoTimer THEN NoTime ELSE stopTime

ArmStart(d) ==
  IF startTimer = NoTimer
  THEN startTimer' = now + d /\ startTime' = now + d
  ELSE startTimer' = Idle /\ UNCHANGED startTime

Stop(d) ==
  /\ server \in {"closed", "serving"}
  /\ StopServer
  /\ IF d = NoDuration THEN UNCHANGED <<startTimer, startTime>> ELSE ArmStart(d)

\* Close waits for ssdpStopped, which Serve has not made, and keeps the mutex.
StopHangs == server = "opened" /\ server' = "stuck"

\* Close closes a channel that Serve has not made, and panics.
StopPanics == server = "launched"

-----------------------------------------------------------------------------
(* Steps *)

\* The enableDLNA mutation, or the configuration.
UserStarts(d) ==
  /\ InReach(d)
  /\ SetupFails \/ (Start(d) /\ UNCHANGED <<firedStop, firedStart>>)
  /\ UNCHANGED <<now, whitelistVars>>

\* The disableDLNA mutation, or the configuration; gqlgen recovers a panic.
UserStops(d) ==
  /\ InReach(d)
  /\ \/ Stop(d)
     \/ StopHangs /\ UNCHANGED <<running, promised, timerVars>>
     \/ StopPanics /\ UNCHANGED <<running, promised, timerVars, server>>
  /\ UNCHANGED <<now, whitelistVars, firedStop, firedStart>>

Due(timer) == timer \in Times /\ timer <= now

FireStop ==
  /\ server # "crashed"
  /\ Due(stopTimer) /\ firedStop < MaxFired
  /\ stopTimer' = Idle /\ firedStop' = firedStop + 1
  /\ UNCHANGED <<now, whitelistVars, running, promised, stopTime, startTimer,
                 startTime, firedStart, server>>

FireStart ==
  /\ server # "crashed"
  /\ Due(startTimer) /\ firedStart < MaxFired
  /\ startTimer' = Idle /\ firedStart' = firedStart + 1
  /\ UNCHANGED <<now, whitelistVars, running, promised, stopTimer, stopTime,
                 startTime, firedStop, server>>

\* A goroutine's Stop(nil) gets the mutex.  One that hangs or panics does not
\* end, and nobody recovers its panic.
StopCallback ==
  /\ firedStop > 0
  /\ \/ Stop(NoDuration) /\ firedStop' = firedStop - 1
     \/ /\ StopHangs \/ (StopPanics /\ server' = "crashed")
        /\ UNCHANGED <<firedStop, running, promised, timerVars>>
  /\ UNCHANGED <<now, whitelistVars, firedStart>>

\* A goroutine's Start(nil) does, and may fail.
StartCallback ==
  /\ firedStart > 0
  /\ \/ Start(NoDuration)
     \/ Alive /\ ~running /\ UNCHANGED <<running, promised, timerVars, server>>
  /\ firedStart' = firedStart - 1
  /\ UNCHANGED <<now, whitelistVars, firedStop>>

\* The goroutine of the server makes its channels, one after the other.
Serve ==
  /\ \/ server = "launched" /\ server' = "opened"
     \/ server = "opened" /\ server' = "serving"
  /\ UNCHANGED <<now, whitelistVars, running, promised, timerVars, firedStop,
                 firedStart>>

Tick ==
  /\ server # "crashed"
  /\ now < Horizon /\ now' = now + 1
  /\ UNCHANGED <<whitelistVars, serviceVars>>

Next ==
  \/ Tick \/ Serve \/ FireStop \/ FireStart \/ StopCallback \/ StartCallback
  \/ \E d \in Durations \cup {NoDuration} : UserStarts(d) \/ UserStops(d)
  \/ Alive /\ AskStatus /\ UNCHANGED serviceVars
  \/ server # "crashed" /\ WhitelistNext /\ UNCHANGED serviceVars

\* Time passes, due timers fire and their goroutines get the mutex.
TimerFairness ==
  /\ WF_vars(FireStop) /\ WF_vars(FireStart)
  /\ WF_vars(StopCallback) /\ WF_vars(StartCallback)
Fairness == WF_vars(Tick) /\ TimerFairness

Spec == Init /\ [][Next]_vars /\ Fairness

-----------------------------------------------------------------------------
(***************************************************************************)
(* A running service has no timer that would start it, a stopped one none  *)
(* that would stop it: callbacks that come late, or fail, leave none over. *)
(***************************************************************************)
TimersMatch ==
  /\ running => startTimer = NoTimer /\ startTime = NoTime
  /\ ~running => stopTimer = NoTimer /\ stopTime = NoTime

(***************************************************************************)
(* The end that Status announces is true: a timer is set for that instant, *)
(* or its callback is already on its way (service.go:291-294).             *)
(***************************************************************************)
EndIsComing == stopTime # NoTime => stopTimer = stopTime \/ firedStop > 0

(***************************************************************************)
(* A client is let in exactly while the configuration or a grant that has  *)
(* not ended says so, however grants were renewed, shortened, withdrawn    *)
(* and cleared away (whitelist.go:83-118).                                 *)
(***************************************************************************)
GrantsHold == \A a \in Addresses :
  IpAllowed(a) <=> \E p \in {a, Wildcard} :
    \/ p \in Defaults
    \/ granted[p] = Forever
    \/ granted[p] # Absent /\ granted[p] # Forever /\ now <= granted[p]

(***************************************************************************)
(* It comes, unless the user changes it, or a Stop meets a server that is  *)
(* not serving yet (service.go:219-221).                                   *)
(***************************************************************************)
AnnouncedEndHappens == \A t \in Times :
  (running /\ stopTime = t) ~> (~running \/ stopTime # t \/ ~Alive)
=============================================================================
