----------------------------- MODULE FakeSocket -----------------------------
(***************************************************************************)
(* The stream transport of the test-util feature, src/streaming/testing.rs: *)
(* a script of connections on which test handles record their joins and    *)
(* leaves.  Two mutexes guard it, the one of a handle's subscriptions and  *)
(* the one of the connections, never held together by a handle: an         *)
(* operation is one step for each time it holds one.  All handles of a     *)
(* FakeSocketIo share its connections, numbered here from 1.               *)
(***************************************************************************)
EXTENDS Integers, Sequences, FiniteSets, FiniteSetsExt

CONSTANTS Handles, Subscriptions,
          Emitters,         \* the tasks of a test that call emit
          KindOf(_),        \* the StreamKind a subscription is valid for
          IntervalOf(_),    \* of a candle subscription; the same for all others
          Limit,            \* of a SubscriptionSet, 2000 in the code
          Capacity,         \* event_capacity
          MaxConnections,   \* bound on connections ever made
          MaxMoves          \* bound on changes of subscriptions and calls of emit

VARIABLES connections,   \* FakeInner.connections
          family,        \* StreamKind of each handle
          index,         \* its connection_index, 0 before connect
          subscriptions, \* its SubscriptionSet
          shutdown,
          op,            \* what it is in the middle of
          queue,         \* events in its channel
          dropped,       \* events that found it full, as far as not reported
          emitting,      \* handles each task's emit has still to send to
          refused,       \* the one whose try_send failed, not yet counted
          behind,        \* history: it changed what it wants since the last
                         \* replay, before it moved on to that connection
          made           \* changes and emits so far

recordVars == <<connections, index, behind>>
wishVars == <<family, subscriptions, shutdown>>
eventVars == <<queue, dropped, emitting, refused>>
fakeVars == <<recordVars, wishVars, eventVars, op, made>>

----------------------------------------------------------------------------

Kinds == {KindOf(s) : s \in Subscriptions}

Idle == [at |-> "idle", value |-> {}]
At(place) == [at |-> place, value |-> {}]

Current == Len(connections)

Nobody == [s \in Subscriptions |-> 0]

ConnectionRecord(joins, replayed) ==
    [joins |-> joins, leaves |-> Nobody, replayed |-> replayed]

Live(h) == index[h] # 0 /\ ~ shutdown[h]

\* StreamRegistrations whose set has s.
Wanting(s) == {h \in Handles : Live(h) /\ s \in subscriptions[h]}

Added(counts, values) == [s \in Subscriptions |->
                            IF s \in values THEN counts[s] + 1 ELSE counts[s]]

accepts(h, s) ==
    /\ KindOf(s) = family[h]
    /\ \A active \in subscriptions[h] : IntervalOf(active) = IntervalOf(s)

Init ==
    /\ connections = <<>>
    /\ family \in [Handles -> Kinds]
    /\ index = [h \in Handles |-> 0]
    /\ subscriptions = [h \in Handles |-> {}]
    /\ shutdown = [h \in Handles |-> FALSE]
    /\ op = [h \in Handles |-> Idle]
    /\ queue = [h \in Handles |-> 0]
    /\ dropped = [h \in Handles |-> 0]
    /\ emitting = [e \in Emitters |-> {}]
    /\ refused = [e \in Emitters |-> {}]
    /\ behind = [h \in Handles |-> FALSE]
    /\ made = 0

----------------------------------------------------------------------------
(* Connections.                                                            *)

\* A connection of its own, and nobody who waits for one is told.
Connect(h) ==
    /\ index[h] = 0
    /\ Current < MaxConnections
    /\ connections' = Append(connections, ConnectionRecord(Nobody, FALSE))
    /\ index' = [index EXCEPT ![h] = Current + 1]
    /\ UNCHANGED <<made, behind, wishVars, eventVars, op>>

X_Replay == [s \in Subscriptions |-> IF Wanting(s) = {} THEN 0 ELSE 1]

Replay == [s \in Subscriptions |-> Cardinality(Wanting(s))]

\* Every live handle's subscriptions are joined on the new connection; the
\* handles are told that are waiting already.  That comes after the mutex,
\* but a handle that parked in between may as well have parked before.
AllowNextConnection ==
    /\ Current < MaxConnections
    /\ connections' = Append(connections, ConnectionRecord(Replay, TRUE))
    /\ op' = [h \in Handles |-> IF op[h].at = "parked" THEN At("woken") ELSE op[h]]
    /\ behind' = [h \in Handles |-> FALSE]
    /\ UNCHANGED <<made, index, wishVars, eventVars>>

\* One turn of wait_until_reconnected's loop.
WaitUntilReconnected(h) ==
    /\ index[h] # 0
    /\ op[h].at \in {"idle", "woken"}
    /\ IF Current > index[h]
         THEN index' = [index EXCEPT ![h] = Current] /\ op' = [op EXCEPT ![h] = Idle]
         ELSE op' = [op EXCEPT ![h] = At("checked")] /\ UNCHANGED index
    /\ UNCHANGED <<made, connections, behind, wishVars, eventVars>>

\* notified(), after the mutex was released: what came between is missed.
Park(h) ==
    /\ op[h].at = "checked"
    /\ op' = [op EXCEPT ![h] = At("parked")]
    /\ UNCHANGED <<made, recordVars, wishVars, eventVars>>

\* wait_until_reconnected_for gives up, or the future is dropped.
GiveUp(h) ==
    /\ op[h].at \in {"checked", "parked", "woken", "receiving"}
    /\ op' = [op EXCEPT ![h] = Idle]
    /\ UNCHANGED <<made, recordVars, wishVars, eventVars>>

----------------------------------------------------------------------------
(* Subscriptions.  First the set, then the record of the connection the    *)
(* handle knows.                                                           *)

Change(h, place, values) ==
    /\ Live(h)
    /\ op[h] = Idle
    /\ made < MaxMoves
    /\ made' = made + 1
    /\ op' = [op EXCEPT ![h] = [at |-> place, value |-> values]]
    /\ behind' = [behind EXCEPT ![h] = @ \/ index[h] < Current]
    /\ UNCHANGED <<connections, index, family, eventVars>>

Subscribe(h, s) ==
    /\ Change(h, "joining", {s})
    /\ accepts(h, s)
    /\ s \notin subscriptions[h]
    /\ Cardinality(subscriptions[h]) < Limit
    /\ subscriptions' = [subscriptions EXCEPT ![h] = @ \cup {s}]
    /\ UNCHANGED shutdown

Unsubscribe(h, s) ==
    /\ Change(h, "leaving", {s})
    /\ s \in subscriptions[h]
    /\ subscriptions' = [subscriptions EXCEPT ![h] = @ \ {s}]
    /\ UNCHANGED shutdown

\* The set is kept: only the flag says that it is wanted no longer.
Shutdown(h) ==
    /\ Change(h, "leaving", subscriptions[h])
    /\ shutdown' = [shutdown EXCEPT ![h] = TRUE]
    /\ UNCHANGED subscriptions

RecordJoin(h) ==
    /\ op[h].at = "joining"
    /\ connections' = [connections EXCEPT ![index[h]].joins = Added(@, op[h].value)]
    /\ op' = [op EXCEPT ![h] = Idle]
    /\ UNCHANGED <<made, index, behind, wishVars, eventVars>>

RecordLeaves(h) ==
    /\ op[h].at = "leaving"
    /\ connections' = [connections EXCEPT ![index[h]].leaves = Added(@, op[h].value)]
    /\ op' = [op EXCEPT ![h] = Idle]
    /\ UNCHANGED <<made, index, behind, wishVars, eventVars>>

----------------------------------------------------------------------------
(* Events.  Several tasks may emit, and none holds a mutex while it sends: *)
(* a send that fails and the count of the loss are two steps, as in        *)
(* EventQueue.                                                             *)

Emit(e, k) ==
    /\ emitting[e] = {} /\ refused[e] = {}
    /\ made < MaxMoves
    /\ made' = made + 1
    /\ emitting' = [emitting EXCEPT ![e] = {h \in Handles : Live(h) /\ family[h] = k}]
    /\ UNCHANGED <<queue, dropped, refused, recordVars, wishVars, op>>

\* To a handle that may have been shut down since.
Send(e, h) ==
    /\ h \in emitting[e] /\ refused[e] = {}
    /\ emitting' = [emitting EXCEPT ![e] = @ \ {h}]
    /\ IF queue[h] < Capacity
         THEN queue' = [queue EXCEPT ![h] = @ + 1] /\ UNCHANGED refused
         ELSE refused' = [refused EXCEPT ![e] = {h}] /\ UNCHANGED queue
    /\ UNCHANGED <<made, dropped, recordVars, wishVars, op>>

CountDrop(e, h) ==
    /\ h \in refused[e]
    /\ refused' = [refused EXCEPT ![e] = {}]
    /\ dropped' = [dropped EXCEPT ![h] = @ + 1]
    /\ UNCHANGED <<made, queue, emitting, recordVars, wishVars, op>>

Poll(h) ==
    /\ index[h] # 0
    /\ op[h] = Idle
    /\ IF queue[h] > 0
         THEN queue' = [queue EXCEPT ![h] = @ - 1] /\ UNCHANGED op
         ELSE op' = [op EXCEPT ![h] = At("polled")] /\ UNCHANGED queue
    /\ UNCHANGED <<made, dropped, emitting, refused, recordVars, wishVars>>

X_TakeDropped(h) ==
    /\ op[h].at = "polled"
    /\ op' = [op EXCEPT ![h] = At("receiving")]
    /\ UNCHANGED <<made, queue, dropped, emitting, refused, recordVars, wishVars>>

\* Losses are reported, or there are none and the next event is waited for.
TakeDropped(h) ==
    /\ op[h].at = "polled"
    /\ op' = [op EXCEPT ![h] = IF dropped[h] > 0 THEN Idle ELSE At("receiving")]
    /\ dropped' = [dropped EXCEPT ![h] = 0]
    /\ UNCHANGED <<made, queue, emitting, refused, recordVars, wishVars>>

Receive(h) ==
    /\ op[h].at = "receiving"
    /\ queue[h] > 0
    /\ queue' = [queue EXCEPT ![h] = @ - 1]
    /\ op' = [op EXCEPT ![h] = Idle]
    /\ UNCHANGED <<made, dropped, emitting, refused, recordVars, wishVars>>

----------------------------------------------------------------------------

NextEvent(h) == Poll(h) \/ TakeDropped(h) \/ Receive(h)

Reconnect(h) == WaitUntilReconnected(h) \/ Park(h) \/ GiveUp(h)

Next ==
    \/ AllowNextConnection
    \/ \E h \in Handles :
        \/ Connect(h) \/ Shutdown(h) \/ RecordJoin(h) \/ RecordLeaves(h)
        \/ Reconnect(h) \/ NextEvent(h)
        \/ \E s \in Subscriptions : Subscribe(h, s) \/ Unsubscribe(h, s)
    \/ \E e \in Emitters :
        \/ \E k \in Kinds : Emit(e, k)
        \/ \E h \in Handles : Send(e, h) \/ CountDrop(e, h)

Spec == Init /\ [][Next]_fakeVars

----------------------------------------------------------------------------
(* Properties.                                                             *)

\* "exactly-once replay of active desired state" (docs/TEST_STRATEGY.md:120),
\* although replay and the handles' two steps interleave: on the connection
\* made last, if it is a replay, a subscription has as many joins as not yet
\* left as there are handles that want it.  Excepted are handles that change
\* what they want before they have moved on to that connection: their leave
\* is recorded on the one before (src/streaming/testing.rs:318, :353).
ReplayBalances ==
    Current > 0 =>
        LET last == connections[Current] IN
        /\ last.replayed
        /\ \A h \in Handles : ~ behind[h] /\ (op[h].value = {} \/ index[h] < Current)
        => \A s \in Subscriptions :
            last.joins[s] - last.leaves[s] = Cardinality(Wanting(s))

\* A consumer that waits on an empty queue has been told of every loss
\* (src/streaming/testing.rs:331) but at most one for each task that emits:
\* the one it was refused before the consumer looked, and counted after it
\* (src/streaming/testing.rs:148).
ParkedLossBounded ==
    \A h \in Handles :
        op[h].at = "receiving" /\ queue[h] = 0 => dropped[h] <= Cardinality(Emitters)
=============================================================================
