----------------------------- MODULE EventQueue -----------------------------
(***************************************************************************)
(* The bounded event queue of a production stream handle                   *)
(* (src/streaming/production.rs): Socket.IO callbacks offer events with    *)
(* `enqueue`, the caller takes them, and the count of those that did not   *)
(* fit, with `next_event`.                                                 *)
(*                                                                         *)
(* Neither side takes a lock.  `enqueue` tries the channel and then counts *)
(* the loss; `next_event` tries the channel, then takes the count, then    *)
(* waits.  On a multi-threaded runtime these instructions interleave; on a *)
(* current-thread runtime nobody else runs until the next await.  The      *)
(* contents of events do not matter here, only how many there are.         *)
(*                                                                         *)
(* next_event's answer None, for a channel without senders                 *)
(* (src/streaming/production.rs:322), is left out: the callbacks hold the  *)
(* senders, and the handle's own socket is taken to hold the callbacks as  *)
(* long as next_event can be called.                                       *)
(***************************************************************************)
EXTENDS Integers, FiniteSets

CONSTANTS Callbacks,      \* the callbacks that can run concurrently
          Capacity,       \* StreamingClient::event_capacity
          MultiThreaded,  \* the runtime's flavour
          MaxEvents       \* bound on the events offered

ASSUME CallbacksAssumption == IsFiniteSet(Callbacks)
ASSUME CapacityAssumption == Capacity \in Nat \ {0}
ASSUME RuntimeAssumption == MultiThreaded \in BOOLEAN
ASSUME EventsAssumption == MaxEvents \in Nat

VARIABLES queued,     \* length of the mpsc channel
          dropped,    \* the AtomicUsize shared with the callbacks
          callback,   \* "idle", or "refused": try_send failed, not yet counted
          consumer,   \* where the caller stands in next_event
          offered,    \* history: calls of enqueue
          delivered,  \* history: events next_event returned
          reported    \* history: total of the LaggedRequiresReconciliation

vars == <<queued, dropped, callback, consumer, offered, delivered, reported>>

(* "outside" next_event; "empty": try_recv found nothing; "parked": in     *)
(* receiver.recv().await.                                                  *)
ConsumerPhase == {"outside", "empty", "parked"}

Init ==
    /\ queued = 0
    /\ dropped = 0
    /\ callback = [k \in Callbacks |-> "idle"]
    /\ consumer = "outside"
    /\ offered = 0
    /\ delivered = 0
    /\ reported = 0

----------------------------------------------------------------------------
Refused == {k \in Callbacks : callback[k] = "refused"}

(* Whether someone other than callback k, or than the consumer, is between *)
(* two instructions with no await in between and keeps the only thread.    *)
CallbackMayRun(k) == MultiThreaded \/ (consumer # "empty" /\ Refused \subseteq {k})

ConsumerMayRun == MultiThreaded \/ Refused = {}

\* A bug that queues without looking at the room left.
Enqueue_Unbounded(k) ==
    /\ CallbackMayRun(k)
    /\ callback[k] = "idle"
    /\ offered < MaxEvents
    /\ queued' = queued + 1
    /\ offered' = offered + 1
    /\ UNCHANGED <<dropped, callback, consumer, delivered, reported>>

(* enqueue: try_send finds room. *)
Enqueue(k) ==
    /\ CallbackMayRun(k)
    /\ callback[k] = "idle"
    /\ offered < MaxEvents
    /\ queued < Capacity
    /\ queued' = queued + 1
    /\ offered' = offered + 1
    /\ UNCHANGED <<dropped, callback, consumer, delivered, reported>>

(* enqueue: try_send fails. *)
Overflow(k) ==
    /\ CallbackMayRun(k)
    /\ callback[k] = "idle"
    /\ offered < MaxEvents
    /\ queued = Capacity
    /\ callback' = [callback EXCEPT ![k] = "refused"]
    /\ offered' = offered + 1
    /\ UNCHANGED <<queued, dropped, consumer, delivered, reported>>

(* enqueue: dropped.fetch_add(1). *)
CountDrop(k) ==
    /\ CallbackMayRun(k)
    /\ callback[k] = "refused"
    /\ callback' = [callback EXCEPT ![k] = "idle"]
    /\ dropped' = dropped + 1
    /\ UNCHANGED <<queued, consumer, offered, delivered, reported>>

(* An event is taken, by try_recv at once or by recv after the wait. *)
Deliver ==
    /\ queued > 0
    /\ queued' = queued - 1
    /\ consumer' = "outside"
    /\ delivered' = delivered + 1
    /\ UNCHANGED <<dropped, callback, offered, reported>>

TryRecv ==
    /\ ConsumerMayRun
    /\ consumer = "outside"
    /\ \/ Deliver
       \/ /\ queued = 0
          /\ consumer' = "empty"
          /\ UNCHANGED <<queued, dropped, callback, offered, delivered, reported>>

\* A bug that reads the count and does not take it.
TakeDropped_Load ==
    /\ ConsumerMayRun
    /\ consumer = "empty"
    /\ reported' = reported + dropped
    /\ consumer' = IF dropped > 0 THEN "outside" ELSE "parked"
    /\ UNCHANGED <<queued, dropped, callback, offered, delivered>>

\* A bug that waits without looking for losses.
TakeDropped_Skipped ==
    /\ ConsumerMayRun
    /\ consumer = "empty"
    /\ consumer' = "parked"
    /\ UNCHANGED <<queued, dropped, callback, offered, delivered, reported>>

(* dropped.swap(0): a loss is reported, and only without one is there a    *)
(* wait for the next event.                                                *)
TakeDropped ==
    /\ ConsumerMayRun
    /\ consumer = "empty"
    /\ dropped' = 0
    /\ reported' = reported + dropped
    /\ consumer' = IF dropped > 0 THEN "outside" ELSE "parked"
    /\ UNCHANGED <<queued, callback, offered, delivered>>

Recv ==
    /\ ConsumerMayRun
    /\ consumer = "parked"
    /\ Deliver

(* The caller drops the next_event future (a select! took another branch). *)
Cancel ==
    /\ ConsumerMayRun
    /\ consumer = "parked"
    /\ consumer' = "outside"
    /\ UNCHANGED <<queued, dropped, callback, offered, delivered, reported>>

Next ==
    \/ \E k \in Callbacks : Enqueue(k) \/ Overflow(k) \/ CountDrop(k)
    \/ TryRecv
    \/ TakeDropped
    \/ Recv
    \/ Cancel

Spec == Init /\ [][Next]_vars

(* A callback that started enqueue finishes it, and the caller keeps       *)
(* calling next_event; nothing makes the broker send events.               *)
FairSpec ==
    /\ Spec
    /\ \A k \in Callbacks : WF_vars(CountDrop(k))
    /\ WF_vars(TryRecv)
    /\ WF_vars(TakeDropped)
    /\ WF_vars(Recv)

----------------------------------------------------------------------------
(* Every variable has its type, and the channel keeps to its capacity.     *)
TypeOK ==
    /\ queued \in 0..Capacity
    /\ dropped \in Nat
    /\ callback \in [Callbacks -> {"idle", "refused"}]
    /\ consumer \in ConsumerPhase
    /\ offered \in 0..MaxEvents
    /\ delivered \in Nat
    /\ reported \in Nat

(* Every event offered is delivered, queued, counted as lost, or about to  *)
(* be counted: losses are neither forgotten nor reported twice.            *)
EveryEventAccounted ==
    offered = delivered + reported + queued + dropped + Cardinality(Refused)

(* A caller that waits with nothing queued has been told of every loss     *)
(* but, on a multi-threaded runtime, at most one for each callback: the    *)
(* one that callback was refused before the caller looked and counted      *)
(* after it.                                                               *)
SilentLossBounded ==
    consumer = "parked" /\ queued = 0
        => dropped <= IF MultiThreaded THEN Cardinality(Callbacks) ELSE 0

(* docs/ARCHITECTURE.md: "Overflow becomes LaggedRequiresReconciliation".  *)
(* Every event offered is in the end delivered or reported as lost.        *)
EveryEventSurfaces ==
    \A n \in 1..MaxEvents : offered >= n ~> delivered + reported >= n
=============================================================================
