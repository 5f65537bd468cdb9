------------------------------ MODULE Services ------------------------------
(***************************************************************************)
(* The services that the manager keeps beside the job manager (Manager,    *)
(* internal/manager/manager.go): DLNA, downloads, read locks,              *)
(* subscriptions to the end of clean jobs, and its own start with the      *)
(* configuration.  They share nothing here, so that a behaviour has the    *)
(* steps of one of them; the others stay as they were.                     *)
(***************************************************************************)
EXTENDS DlnaService, Downloads, ReadLocks, ScanSubscriptions, Startup

VARIABLE service   \* the one whose steps there are

allVars == <<vars, downloadVars, lockVars, subVars, serverVars, service>>

InitServices ==
  /\ Init /\ DownloadsInit /\ LocksInit /\ SubscriptionsInit
  /\ service \in {"dlna", "downloads", "locks", "subscriptions", "configuration"}
  /\ StartupFrom(IF service = "configuration" THEN Plans ELSE {NoPlan})

NextServices ==
  /\ \/ /\ service = "dlna" /\ Next
        /\ UNCHANGED <<downloadVars, lockVars, subVars, serverVars>>
     \/ /\ service = "downloads" /\ DownloadsNext
        /\ UNCHANGED <<vars, lockVars, subVars, serverVars>>
     \/ /\ service = "locks" /\ LocksNext
        /\ UNCHANGED <<vars, downloadVars, subVars, serverVars>>
     \/ /\ service = "subscriptions" /\ SubscriptionsNext
        /\ UNCHANGED <<vars, downloadVars, lockVars, serverVars>>
     \/ /\ service = "configuration" /\ StartupNext
        /\ UNCHANGED <<vars, downloadVars, lockVars, subVars>>
  /\ UNCHANGED service

\* Goroutines and timers run on; those of a service without steps have nothing
\* to do, and its time does not pass.
SpecServices ==
  /\ InitServices /\ [][NextServices]_allVars
  /\ WF_vars(service = "dlna" /\ Tick) /\ TimerFairness
  /\ DownloadsFairness
  /\ SubscriptionsFairness

-----------------------------------------------------------------------------
(***************************************************************************)
(* Each service's goroutines come to an end, and with them the callers     *)
(* that wait for one of its mutexes: the server's announced end happens,   *)
(* a file that was asked for is removed, unless nobody can lock the store  *)
(* any more, and a clean job is not held by its subscribers (service.go:   *)
(* 210-300, downloads.go:86-113, subscribe.go:37-44).                      *)
(***************************************************************************)
ServicesSettle ==
  /\ AnnouncedEndHappens
  /\ RequestedGoes
  /\ holdsMutex ~> ~holdsMutex

(***************************************************************************)
(* What clients are handed out is looked after: downloads are there when   *)
(* they are found, and those who read a file can be made to stop           *)
(* (downloads.go:63-113, lock_manager.go:61-115).                          *)
(***************************************************************************)
FilesInHand == FoundIsServed /\ ReadersAreListed
=============================================================================
