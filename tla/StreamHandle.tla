---------------------------- MODULE StreamHandle ----------------------------
(***************************************************************************)
(* One production stream handle (src/streaming/production.rs): the desired *)
(* subscriptions and what the server has on the current connection, kept   *)
(* in step by the caller's methods, the Socket.IO open callback that       *)
(* replays after every reconnect, shutdown, and drop.                      *)
(*                                                                         *)
(* The emission guard is an async mutex.  The handle's methods take &mut   *)
(* self, so there is one caller, which can drop any call at an await.      *)
(*                                                                         *)
(* External, modelled from its use here: rust_socketio.  It runs the open  *)
(* callback of a connection to its end before it notices that the          *)
(* connection is gone and reconnects; an emit on a live connection         *)
(* arrives, one on a dead connection fails or is silently lost; after      *)
(* disconnect() it reconnects only if an attempt was already under way.    *)
(***************************************************************************)
EXTENDS Integers, FiniteSets

CONSTANTS Rooms,          \* the subscriptions valid for the handle's StreamKind
          Interval,       \* the candle interval of each (all alike on market data)
          Automatic,      \* automatic_room(kind): a set of at most one room
          Limit,          \* StreamingClient::subscription_limit
          MaxConnections  \* bound on the connections made

ASSUME RoomsAssumption == Automatic \cap Rooms = {} /\ Limit \in Nat \ {0}
ASSUME BoundAssumption == MaxConnections \in Nat

VARIABLES conn,         \* "down", "up", or "ended": disconnected for good
          connections,  \* how many times the transport connected
          joined,       \* the rooms the server has on the current connection
          released,     \* socket.disconnect() was called
          lock,         \* who holds the emission guard
          opening,      \* where the open callback stands
          toJoin,       \* the rooms it has still to join
          generation, notices,  \* completed replays; calls of notify_waiters
          desired,      \* the SubscriptionSet
          closed,
          pc,           \* where the caller stands
          target,       \* the subscription its call is about
          leaving,      \* what shutdown has still to leave
          observed,     \* observed_generation
          armed,        \* notify_waiters calls when `notified` was created
          disrupted,    \* history: rooms whose call was dropped on this connection
          shutdownSaid  \* shutdown's first error so far, then its answer

serverVars == <<conn, connections, joined, released>>
openVars == <<opening, toJoin, generation>>
waitVars == <<observed, armed>>
vars == <<serverVars, openVars, waitVars, lock, notices, desired, closed, pc, target,
          leaving, disrupted, shutdownSaid>>

(* The caller's awaits: the guard ("..Lock"), an emit ("..Emit", "leaving" *)
(* for shutdown's), and Notify ("parked").  It starts inside connect,      *)
(* which waits for the first generation; observed = 0 until it returns.    *)
CallerPhase == {"looping", "armed", "checked", "parked", "idle", "subscribeLock",
                "subscribeEmit", "unsubscribeLock", "unsubscribeEmit", "shutdownLock",
                "leaving", "gone", "dropped"}

OpenPhase == {"idle", "locking", "joining", "notifying"}

Init ==
    /\ conn = "down" /\ connections = 0 /\ joined = {} /\ released = FALSE
    /\ lock = "free"
    /\ opening = "idle" /\ toJoin = {} /\ generation = 0 /\ notices = 0
    /\ desired = {} /\ closed = FALSE
    /\ pc = "looping" /\ target = "none" /\ leaving = {}
    /\ observed = 0 /\ armed = 0
    /\ disrupted = {} /\ shutdownSaid = "none"

----------------------------------------------------------------------------
(* The transport. *)

ConnectionUp ==
    /\ conn = "down"
    /\ opening = "idle"
    /\ connections < MaxConnections
    /\ conn' = "up"
    /\ connections' = connections + 1
    /\ opening' = "locking"
    /\ disrupted' = {}
    /\ UNCHANGED <<joined, released, toJoin, generation, waitVars, lock, notices, desired,
                   closed, pc, target, leaving, shutdownSaid>>

ConnectionLost ==
    /\ conn = "up"
    /\ conn' = "down"
    /\ joined' = {}
    /\ UNCHANGED <<connections, released, openVars, waitVars, lock, notices, desired,
                   closed, pc, target, leaving, disrupted, shutdownSaid>>

Join(r) == joined' = IF conn = "up" THEN joined \cup {r} ELSE joined

Leave(r) == joined' = IF conn = "up" THEN joined \ {r} ELSE joined

EmitCanFail == conn # "up"

Disconnect ==
    /\ released' = TRUE
    /\ \/ conn' = "ended"
       \/ conn = "down" /\ conn' = "down"
    /\ joined' = {}
    /\ UNCHANGED connections

----------------------------------------------------------------------------
(* The open callback. *)

\* A bug that replays without looking whether the handle is closed.
OpenLocks_EvenClosed ==
    /\ opening = "locking"
    /\ lock = "free"
    /\ lock' = "open"
    /\ opening' = "joining"
    /\ toJoin' = Automatic \cup desired
    /\ UNCHANGED <<serverVars, generation, waitVars, notices, desired, closed, pc, target,
                   leaving, disrupted, shutdownSaid>>

\* A bug that replays without the emission guard.
OpenLocks_Unguarded ==
    /\ opening = "locking"
    /\ ~ closed
    /\ opening' = "joining"
    /\ toJoin' = Automatic \cup desired
    /\ UNCHANGED <<serverVars, generation, waitVars, lock, notices, desired, closed, pc,
                   target, leaving, disrupted, shutdownSaid>>

(* The guard is got: a closed handle replays nothing. *)
OpenLocks ==
    /\ opening = "locking"
    /\ lock = "free"
    /\ IF closed THEN opening' = "idle" /\ UNCHANGED <<lock, toJoin>>
                 ELSE /\ lock' = "open"
                      /\ opening' = "joining"
                      /\ toJoin' = Automatic \cup desired
    /\ UNCHANGED <<serverVars, generation, waitVars, notices, desired, closed, pc, target,
                   leaving, disrupted, shutdownSaid>>

(* One emit of "join"; its failure goes to the event queue and the replay  *)
(* goes on.                                                                *)
OpenJoins(r) ==
    /\ opening = "joining"
    /\ r \in toJoin
    /\ toJoin' = toJoin \ {r}
    /\ Join(r)
    /\ UNCHANGED <<conn, connections, released, opening, generation, waitVars, lock, notices,
                   desired, closed, pc, target, leaving, disrupted, shutdownSaid>>

\* A bug that announces the reconnect before the replay is complete.
OpenCounts_Early ==
    /\ opening = "joining"
    /\ generation' = generation + 1
    /\ opening' = IF toJoin = {} THEN "notifying" ELSE "joining"
    /\ UNCHANGED <<serverVars, toJoin, waitVars, lock, notices, desired, closed, pc, target,
                   leaving, disrupted, shutdownSaid>>

OpenCounts ==
    /\ opening = "joining"
    /\ toJoin = {}
    /\ generation' = generation + 1
    /\ opening' = "notifying"
    /\ UNCHANGED <<serverVars, toJoin, waitVars, lock, notices, desired, closed, pc, target,
                   leaving, disrupted, shutdownSaid>>

OpenNotifies ==
    /\ opening = "notifying"
    /\ notices' = notices + 1
    /\ opening' = "idle"
    /\ lock' = "free"
    /\ UNCHANGED <<serverVars, toJoin, generation, waitVars, desired, closed, pc, target,
                   leaving, disrupted, shutdownSaid>>

OpenStep == OpenLocks \/ (\E r \in Rooms \cup Automatic : OpenJoins(r)) \/ OpenCounts \/ OpenNotifies

----------------------------------------------------------------------------
(* wait_for_generation, in connect and in wait_until_reconnected: the      *)
(* Notified future is created, the generation is looked at, the future is  *)
(* awaited.                                                                *)

CallerMoves(to) ==
    /\ pc' = to
    /\ UNCHANGED <<serverVars, openVars, notices, leaving, disrupted, shutdownSaid>>

WaitUntilReconnected ==
    /\ pc = "idle"
    /\ ~ closed
    /\ CallerMoves("looping")
    /\ UNCHANGED <<waitVars, lock, desired, closed, target>>

WaitArms ==
    /\ pc = "looping"
    /\ armed' = notices
    /\ CallerMoves("armed")
    /\ UNCHANGED <<observed, lock, desired, closed, target>>

WaitChecks ==
    /\ pc = "armed"
    /\ IF generation > observed
       THEN observed' = generation /\ CallerMoves("idle")
       ELSE /\ CallerMoves(IF closed THEN "idle" ELSE "checked")
            /\ UNCHANGED observed
    /\ UNCHANGED <<armed, lock, desired, closed, target>>

\* A bug that creates the Notified future after the look at the generation.
WaitParks_LateArm ==
    /\ pc = "checked"
    /\ CallerMoves("parked")
    /\ armed' = notices
    /\ UNCHANGED <<observed, lock, desired, closed, target>>

WaitParks ==
    /\ pc = "checked"
    /\ CallerMoves("parked")
    /\ UNCHANGED <<waitVars, lock, desired, closed, target>>

WaitWakes ==
    /\ pc = "parked"
    /\ notices > armed
    /\ CallerMoves("looping")
    /\ UNCHANGED <<waitVars, lock, desired, closed, target>>

(* wait_until_reconnected_for times out, or its future is dropped. *)
WaitAbandoned ==
    /\ pc = "parked"
    /\ observed > 0
    /\ CallerMoves("idle")
    /\ UNCHANGED <<waitVars, lock, desired, closed, target>>

(* The handshake timeout of connect. *)
ConnectTimesOut ==
    /\ pc = "parked"
    /\ observed = 0
    /\ closed' = TRUE
    /\ Disconnect
    /\ pc' = "gone"
    /\ UNCHANGED <<openVars, waitVars, lock, notices, desired, target, leaving, disrupted,
                   shutdownSaid>>

(* The caller drops the connect future: nobody closes or disconnects.      *)
ConnectAbandoned ==
    /\ pc = "parked"
    /\ observed = 0
    /\ CallerMoves("gone")
    /\ UNCHANGED <<waitVars, lock, desired, closed, target>>

----------------------------------------------------------------------------
(* subscribe and unsubscribe. *)

Subscribe(r) ==
    /\ pc = "idle"
    /\ ~ closed
    /\ target' = r
    /\ CallerMoves("subscribeLock")
    /\ UNCHANGED <<waitVars, lock, desired, closed>>

Unsubscribe(r) ==
    /\ pc = "idle"
    /\ ~ closed
    /\ target' = r
    /\ CallerMoves("unsubscribeLock")
    /\ UNCHANGED <<waitVars, lock, desired, closed>>

Return ==
    /\ pc' = "idle"
    /\ target' = "none"
    /\ lock' = "free"

\* A bug that lets the set grow one beyond its limit.
Insertable_OverLimit(r) ==
    /\ \A active \in desired : Interval[active] = Interval[r]
    /\ r \notin desired
    /\ Cardinality(desired) <= Limit

\* SubscriptionSet::accepts and ::insert.
Insertable(r) ==
    /\ \A active \in desired : Interval[active] = Interval[r]
    /\ r \notin desired
    /\ Cardinality(desired) < Limit

(* The guard is got: an acceptable new subscription is inserted at once. *)
SubscribeLocks ==
    /\ pc = "subscribeLock"
    /\ lock = "free"
    /\ IF Insertable(target)
       THEN /\ desired' = desired \cup {target}
            /\ lock' = "caller"
            /\ pc' = "subscribeEmit"
            /\ UNCHANGED target
       ELSE Return /\ UNCHANGED desired
    /\ UNCHANGED <<serverVars, openVars, waitVars, notices, closed, leaving, disrupted,
                   shutdownSaid>>

(* emit("join"): a failure takes the subscription back. *)
SubscribeEmits ==
    /\ pc = "subscribeEmit"
    /\ Join(target)
    /\ \/ UNCHANGED desired
       \/ EmitCanFail /\ desired' = desired \ {target}
    /\ Return
    /\ UNCHANGED <<conn, connections, released, openVars, waitVars, notices, closed, leaving,
                   disrupted, shutdownSaid>>

UnsubscribeLocks ==
    /\ pc = "unsubscribeLock"
    /\ lock = "free"
    /\ IF target \in desired
       THEN /\ desired' = desired \ {target}
            /\ lock' = "caller"
            /\ pc' = "unsubscribeEmit"
            /\ UNCHANGED target
       ELSE Return /\ UNCHANGED desired
    /\ UNCHANGED <<serverVars, openVars, waitVars, notices, closed, leaving, disrupted,
                   shutdownSaid>>

(* emit("leave"): a failure puts the subscription back. *)
UnsubscribeEmits ==
    /\ pc = "unsubscribeEmit"
    /\ Leave(target)
    /\ \/ UNCHANGED desired
       \/ EmitCanFail /\ desired' = desired \cup {target}
    /\ Return
    /\ UNCHANGED <<conn, connections, released, openVars, waitVars, notices, closed, leaving,
                   disrupted, shutdownSaid>>

----------------------------------------------------------------------------
(* shutdown and drop. *)

(* closed.swap(true): the second call has nothing to do. *)
Shutdown ==
    /\ pc = "idle"
    /\ closed' = TRUE
    /\ IF closed THEN shutdownSaid' = "Ok" /\ UNCHANGED pc
                 ELSE shutdownSaid' = "none" /\ pc' = "shutdownLock"
    /\ UNCHANGED <<serverVars, openVars, waitVars, lock, notices, desired, target, leaving,
                   disrupted>>

ShutdownLocks ==
    /\ pc = "shutdownLock"
    /\ lock = "free"
    /\ lock' = "caller"
    /\ leaving' = desired \cup Automatic
    /\ pc' = "leaving"
    /\ UNCHANGED <<serverVars, openVars, waitVars, notices, desired, closed, target,
                   disrupted, shutdownSaid>>

ShutdownLeaves(r) ==
    /\ pc = "leaving"
    /\ r \in leaving
    /\ leaving' = leaving \ {r}
    /\ Leave(r)
    /\ \/ UNCHANGED shutdownSaid
       \/ EmitCanFail /\ shutdownSaid' = "Err"
    /\ UNCHANGED <<conn, connections, released, openVars, waitVars, lock, notices, desired,
                   closed, pc, target, disrupted>>

ShutdownDisconnects ==
    /\ pc = "leaving"
    /\ leaving = {}
    /\ Disconnect
    /\ notices' = notices + 1
    /\ Return
    /\ \/ shutdownSaid = "none" /\ shutdownSaid' = "Ok"
       \/ (shutdownSaid = "Err" \/ EmitCanFail) /\ shutdownSaid' = "Err"
    /\ UNCHANGED <<openVars, waitVars, desired, closed, leaving, disrupted>>

(* The caller drops the call it is in at an await: what was not emitted is *)
(* never emitted.                                                          *)
Cancel ==
    /\ pc \in {"subscribeLock", "subscribeEmit", "unsubscribeLock", "unsubscribeEmit",
               "shutdownLock", "leaving"}
    /\ disrupted' = IF pc \in {"subscribeEmit", "unsubscribeEmit"}
                    THEN disrupted \cup {target} ELSE disrupted
    /\ lock' = IF lock = "caller" THEN "free" ELSE lock
    /\ pc' = "idle"
    /\ target' = "none"
    /\ leaving' = {}
    /\ shutdownSaid' = IF pc = "leaving" THEN "none" ELSE shutdownSaid
    /\ UNCHANGED <<serverVars, openVars, waitVars, notices, desired, closed>>

(* Drop, inside a runtime: an open handle is closed and disconnected by a  *)
(* task of its own, which does not wait for the guard.                     *)
Drop ==
    /\ pc = "idle"
    /\ pc' = IF closed THEN "gone" ELSE "dropped"
    /\ closed' = TRUE
    /\ notices' = IF closed THEN notices ELSE notices + 1
    /\ UNCHANGED <<serverVars, openVars, waitVars, lock, desired, target, leaving, disrupted,
                   shutdownSaid>>

DropDisconnects ==
    /\ pc = "dropped"
    /\ Disconnect
    /\ pc' = "gone"
    /\ UNCHANGED <<openVars, waitVars, lock, notices, desired, closed, target, leaving,
                   disrupted, shutdownSaid>>

----------------------------------------------------------------------------
Next ==
    \/ ConnectionUp \/ ConnectionLost
    \/ OpenLocks \/ (\E r \in Rooms \cup Automatic : OpenJoins(r)) \/ OpenCounts \/ OpenNotifies
    \/ WaitUntilReconnected \/ WaitArms \/ WaitChecks \/ WaitParks \/ WaitWakes
    \/ WaitAbandoned \/ ConnectTimesOut \/ ConnectAbandoned
    \/ \E r \in Rooms : Subscribe(r) \/ Unsubscribe(r)
    \/ SubscribeLocks \/ SubscribeEmits \/ UnsubscribeLocks \/ UnsubscribeEmits
    \/ Shutdown \/ ShutdownLocks \/ ShutdownDisconnects
    \/ \E r \in Rooms \cup Automatic : ShutdownLeaves(r)
    \/ Cancel \/ Drop \/ DropDisconnects

Spec == Init /\ [][Next]_vars

(* The runtime runs the open callback and the caller's wait; the network   *)
(* owes nothing.                                                           *)
FairSpec ==
    /\ Spec
    /\ WF_vars(OpenStep)
    /\ WF_vars(WaitArms \/ WaitChecks \/ WaitParks \/ WaitWakes)

----------------------------------------------------------------------------
(* Every variable has its type, and the set keeps to its limit and to one  *)
(* candle interval.                                                        *)
TypeOK ==
    /\ conn \in {"down", "up", "ended"}
    /\ connections \in 0..MaxConnections
    /\ joined \subseteq Rooms \cup Automatic
    /\ toJoin \subseteq Rooms \cup Automatic
    /\ leaving \subseteq Rooms \cup Automatic
    /\ disrupted \subseteq Rooms
    /\ released \in BOOLEAN /\ closed \in BOOLEAN
    /\ lock \in {"free", "open", "caller"}
    /\ opening \in OpenPhase
    /\ {generation, notices, observed, armed} \subseteq Nat
    /\ desired \subseteq Rooms /\ Cardinality(desired) <= Limit
    /\ \A r, s \in desired : Interval[r] = Interval[s]
    /\ pc \in CallerPhase
    /\ target \in Rooms \cup {"none"}
    /\ shutdownSaid \in {"none", "Ok", "Err"}

(* When nobody is emitting on a live connection, the server has exactly    *)
(* the desired rooms, but for those whose call the caller dropped half-way *)
(* on this connection: reconnects and calls in any order lose none.        *)
RoomsMatchDesired ==
    conn = "up" /\ opening = "idle" /\ lock = "free" /\ ~ closed =>
        /\ joined \ (desired \cup Automatic) \subseteq disrupted
        /\ (desired \cup Automatic) \ joined \subseteq disrupted

(* A disconnected handle never has a room joined again, not even by a      *)
(* reconnect that was already under way.                                   *)
ReleasedStaysSilent == released => joined = {}

(* A reconnect is announced only once its replay is complete.              *)
ReplayBeforeNotice ==
    [][generation' # generation =>
         (conn = "up" => (desired \cup Automatic) \ joined \subseteq disrupted)]_vars

(* A caller waiting for a reconnect that has happened does not sleep on:   *)
(* no interleaving of the replay with wait_for_generation loses a wakeup.  *)
ReconnectIsNoticed == pc = "parked" /\ generation > observed ~> pc # "parked"

(* docs/ARCHITECTURE.md: "shutdown sends remaining leaves and disconnects". *)
ShutdownDisconnected == shutdownSaid = "Ok" => released
=============================================================================
