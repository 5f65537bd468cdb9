----------------------------- MODULE Downloads -----------------------------
(***************************************************************************)
(* internal/manager/downloads.go: files that are kept for one download,    *)
(* for thirty seconds after the first request and until no request is      *)
(* served any more.  Requests and the goroutine that removes a file share  *)
(* the store's mutex and a WaitGroup for every file.                       *)
(*                                                                         *)
(* No caller asks for a file to be kept, so storeFile's keep is left out.  *)
(***************************************************************************)
EXTENDS Naturals, FiniteSets

CONSTANTS
  Files,       \* backups and exports, each made once
  Keys,        \* random keys; bound: as many as files at least
  Clients,     \* bound: requests in all
  None

ASSUME DownloadAssumption == None \notin Files /\ IsFiniteSet(Clients)

VARIABLES
  store,       \* DownloadStore's m: key -> file
  onDisk,
  wg,          \* file -> the counter of its WaitGroup
  remover,     \* file -> what the goroutine of its once is doing
  request,     \* client -> its request
  stuck,       \* a caller has returned with the mutex locked
  panicked     \* the server has ended

downloadVars == <<store, onDisk, wg, remover, request, stuck, panicked>>

NoRequest == [at |-> "idle", file |-> None, late |-> FALSE, done |-> FALSE]

DownloadsInit ==
  /\ store = [k \in Keys |-> None]
  /\ onDisk = {}
  /\ wg = [f \in Files |-> 0]
  /\ remover = [f \in Files |-> "none"]
  /\ request = [c \in Clients |-> NoRequest]
  /\ stuck = FALSE /\ panicked = FALSE

Free == ~stuck /\ ~panicked

\* The key is tried again while it is taken.  That it is taken a hundred times in a row, and
\* the last one then used all the same (downloads.go:44), is left out.
RegisterFile(f) ==
  /\ Free /\ remover[f] = "none" /\ f \notin onDisk
  /\ onDisk' = onDisk \cup {f}
  /\ \E k \in Keys : store[k] = None /\ store' = [store EXCEPT ![k] = f]
  /\ UNCHANGED <<wg, remover, request, stuck, panicked>>

\* No key can be made: the function returns before it unlocks the mutex.
RegisterFails ==
  /\ Free /\ stuck' = TRUE
  /\ UNCHANGED <<store, onDisk, wg, remover, request, panicked>>

\* Wait has let the remover go on, or is about to.
Leaving(f) == remover[f] \in {"released", "removing"}

\* Serve, up to the unlocking, with waitAndRemoveFile.
ServeFound(c, k) ==
  /\ Free /\ request[c].at = "idle"
  /\ LET f == store[k]
     IN IF f = None
        THEN /\ request' = [request EXCEPT ![c].at = "not found"]
             /\ UNCHANGED <<wg, remover>>
        ELSE /\ request' = [request EXCEPT ![c] =
                  [at |-> "found", file |-> f, late |-> Leaving(f), done |-> FALSE]]
             /\ wg' = [wg EXCEPT ![f] = @ + 1]
             /\ remover' = IF remover[f] = "none"
                           THEN [remover EXCEPT ![f] = "sleeping"] ELSE remover
  /\ UNCHANGED <<store, onDisk, stuck, panicked>>

\* http.ServeFile opens the file; one that is open can be read to its end.
Open(c) ==
  /\ ~panicked /\ request[c].at = "found"
  /\ request' = [request EXCEPT ![c].at =
                   IF request[c].done THEN "gone"
                   ELSE IF request[c].file \in onDisk THEN "serving" ELSE "missing"]
  /\ UNCHANGED <<store, onDisk, wg, remover, stuck, panicked>>

\* The handler has returned, or the client has gone: the context is done.
Finish(c) ==
  /\ ~panicked /\ ~request[c].done
  /\ request[c].at \in {"found", "serving", "missing"}
  /\ request' = [request EXCEPT ![c].at = IF @ = "serving" THEN "served" ELSE @,
                                ![c].done = TRUE]
  /\ UNCHANGED <<store, onDisk, wg, remover, stuck, panicked>>

\* Mutant: the goroutine is there for the first request only.
NotifiedFirst(c) ==
  /\ Free /\ request[c].done /\ request[c].file # None
  /\ LET f == request[c].file
     IN /\ request' = [request EXCEPT ![c].file = None]
        /\ wg' = IF remover[f] = "sleeping" THEN [wg EXCEPT ![f] = @ - 1] ELSE wg
        /\ remover' = IF wg'[f] = 0 /\ remover[f] = "waiting"
                      THEN [remover EXCEPT ![f] = "released"] ELSE remover
  /\ UNCHANGED <<store, onDisk, stuck, panicked>>

\* The goroutine of the request: Done of the last lets Wait go on.
Notified(c) ==
  /\ Free /\ request[c].done /\ request[c].file # None
  /\ LET f == request[c].file
     IN /\ request' = [request EXCEPT ![c].file = None]
        /\ wg' = [wg EXCEPT ![f] = @ - 1]
        /\ remover' = IF wg'[f] = 0 /\ remover[f] = "waiting"
                      THEN [remover EXCEPT ![f] = "released"] ELSE remover
  /\ UNCHANGED <<store, onDisk, stuck, panicked>>

\* Mutant: the file goes when the thirty seconds are over.
WakeHasty(f) ==
  /\ ~panicked /\ remover[f] = "sleeping"
  /\ remover' = [remover EXCEPT ![f] = "removing"]
  /\ UNCHANGED <<store, onDisk, wg, request, stuck, panicked>>

\* The thirty seconds are over; Wait is called.
Wake(f) ==
  /\ ~panicked /\ remover[f] = "sleeping"
  /\ remover' = [remover EXCEPT ![f] = IF wg[f] = 0 THEN "removing" ELSE "waiting"]
  /\ UNCHANGED <<store, onDisk, wg, request, stuck, panicked>>

\* Wait panics when the WaitGroup is in use again before it has returned.
WaitReturns(f) ==
  /\ ~panicked /\ remover[f] = "released"
  /\ remover' = [remover EXCEPT ![f] = "removing"]
  /\ panicked' = (wg[f] # 0)
  /\ UNCHANGED <<store, onDisk, wg, request, stuck>>

RemoveFile(f) ==
  /\ Free /\ remover[f] = "removing"
  /\ remover' = [remover EXCEPT ![f] = "removed"]
  /\ store' = [k \in Keys |-> IF store[k] = f THEN None ELSE store[k]]
  /\ onDisk' = onDisk \ {f}
  /\ UNCHANGED <<wg, request, stuck, panicked>>

Ask == (\E f \in Files : RegisterFile(f)) \/ RegisterFails
         \/ (\E c \in Clients, k \in Keys : ServeFound(c, k))
GoOn(c) == Open(c) \/ Finish(c) \/ Notified(c)
CleanUp(f) == Wake(f) \/ WaitReturns(f) \/ RemoveFile(f)

DownloadsNext == Ask \/ (\E c \in Clients : GoOn(c)) \/ (\E f \in Files : CleanUp(f))

\* Clients take what they are sent or go away.
DownloadsFairness ==
  /\ \A c \in Clients : WF_downloadVars(GoOn(c))
  /\ \A f \in Files : WF_downloadVars(CleanUp(f))

-----------------------------------------------------------------------------
(***************************************************************************)
(* Whoever finds a file in the store gets it, however many others ask for  *)
(* it and whenever they are done, unless the request came when the last    *)
(* one before it had just ended; that is the only way, too, to make the    *)
(* remover panic (waitAndRemoveFile, downloads.go:86-113).                 *)
(***************************************************************************)
FoundIsServed ==
  /\ \A c \in Clients : request[c].at = "missing" => request[c].late
  /\ panicked => \E c \in Clients : request[c].late

(***************************************************************************)
(* A file that somebody asked for does not stay for ever, unless nobody    *)
(* can lock the store any more.                                            *)
(***************************************************************************)
RequestedGoes ==
  \A f \in Files :
    remover[f] = "sleeping" ~> remover[f] = "removed" \/ stuck \/ panicked
=============================================================================
