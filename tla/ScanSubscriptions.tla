------------------------- MODULE ScanSubscriptions -------------------------
(***************************************************************************)
(* internal/manager/subscribe.go: clients that want to be told when a      *)
(* clean job has ended.  notify sends to all of them while it holds the    *)
(* mutex; a subscription is closed and taken out under the mutex when its  *)
(* context is done.  What the client's side does is gqlgen's: it receives  *)
(* until the channel is closed.                                            *)
(***************************************************************************)
EXTENDS Naturals, Sequences, SequencesExt

CONSTANTS
  Subscribers,
  Capacity,     \* of a channel: ten in the code
  MaxNotified   \* bound: jobs that end

ASSUME SubscriptionAssumption == Capacity \in Nat \ {0} /\ MaxNotified \in Nat

VARIABLES
  subscriptions,  \* the slice of channels
  buffered,       \* subscriber -> messages in its channel
  client,         \* subscriber -> its state
  notifying,      \* subscriptions still to be sent to, in notify
  holdsMutex,     \* notify has the mutex
  notified        \* jobs that have ended

subVars == <<subscriptions, buffered, client, notifying, holdsMutex, notified>>

SubscriptionsInit ==
  /\ subscriptions = <<>>
  /\ buffered = [s \in Subscribers |-> 0]
  /\ client = [s \in Subscribers |-> "out"]
  /\ notifying = <<>> /\ holdsMutex = FALSE
  /\ notified = 0

Subscribe(s) ==
  /\ ~holdsMutex /\ client[s] = "out"
  /\ subscriptions' = Append(subscriptions, s)
  /\ client' = [client EXCEPT ![s] = "in"]
  /\ UNCHANGED <<buffered, notifying, holdsMutex, notified>>

\* The context is done.
Leave(s) ==
  /\ client[s] = "in"
  /\ client' = [client EXCEPT ![s] = "leaving"]
  /\ UNCHANGED <<subscriptions, buffered, notifying, holdsMutex, notified>>

Unsubscribe(s) ==
  /\ ~holdsMutex /\ client[s] = "leaving"
  /\ client' = [client EXCEPT ![s] = "closed"]
  /\ subscriptions' = Remove(subscriptions, s)
  /\ UNCHANGED <<buffered, notifying, holdsMutex, notified>>

Receive(s) ==
  /\ buffered[s] > 0
  /\ buffered' = [buffered EXCEPT ![s] = @ - 1]
  /\ UNCHANGED <<subscriptions, client, notifying, holdsMutex, notified>>

Notify ==
  /\ ~holdsMutex /\ notified < MaxNotified
  /\ holdsMutex' = TRUE /\ notifying' = subscriptions
  /\ notified' = notified + 1
  /\ UNCHANGED <<subscriptions, buffered, client>>

\* The send waits for room.
Send ==
  /\ holdsMutex /\ notifying # <<>>
  /\ LET s == Head(notifying)
     IN /\ buffered[s] < Capacity
        /\ buffered' = [buffered EXCEPT ![s] = @ + 1]
  /\ notifying' = Tail(notifying)
  /\ UNCHANGED <<subscriptions, client, holdsMutex, notified>>

NotifyEnds ==
  /\ holdsMutex /\ notifying = <<>>
  /\ holdsMutex' = FALSE
  /\ UNCHANGED <<subscriptions, buffered, client, notifying, notified>>

SubscriptionsNext ==
  \/ Notify \/ Send \/ NotifyEnds
  \/ \E s \in Subscribers : Subscribe(s) \/ Leave(s) \/ Unsubscribe(s) \/ Receive(s)

\* The job goes on, goroutines run; a client receives or its connection breaks,
\* and then gqlgen receives in its place.
SubscriptionsFairness ==
  /\ WF_subVars(Send \/ NotifyEnds)
  /\ \A s \in Subscribers : WF_subVars(Receive(s)) /\ WF_subVars(Unsubscribe(s))

=============================================================================
