------------------------ MODULE StreamHandleProofs ------------------------
(***************************************************************************)
(* For any rooms, automatic rooms, limit and number of connections: the    *)
(* type of StreamHandle, that the server's rooms are the desired ones,     *)
(* that a disconnected handle stays silent, and that a reconnect is        *)
(* announced only when its replay is complete.                             *)
(*                                                                         *)
(* The argument: who holds the emission guard can be read off the phases   *)
(* of the open callback and of the caller (Locks), so only one of them     *)
(* changes the desired set or emits; what the server lacks is what the     *)
(* replay has still to join or the one emit under way (Matched).           *)
(***************************************************************************)
EXTENDS StreamHandle, TLAPS, FiniteSetTheorems

Emitting == {"subscribeEmit", "unsubscribeEmit", "leaving"}

Locks ==
    /\ lock = "open" <=> opening \in {"joining", "notifying"}
    /\ lock = "caller" <=> pc \in Emitting

\* What a call in progress knows of its subscription.
Calling ==
    /\ pc \in {"subscribeLock", "subscribeEmit", "unsubscribeLock", "unsubscribeEmit"} =>
        target \in Rooms /\ ~ closed
    /\ pc \in {"shutdownLock", "leaving", "dropped"} => closed
    /\ pc = "subscribeEmit" => target \in desired
    /\ pc = "unsubscribeEmit" =>
        /\ target \notin desired /\ Cardinality(desired) < Limit
        /\ \A active \in desired : Interval[active] = Interval[target]

Silent ==
    /\ conn # "up" => joined = {}
    /\ released => closed /\ joined = {} /\ ~ (conn = "up" /\ opening = "joining")

Wanted == desired \cup Automatic

Matched ==
    /\ opening = "joining" => toJoin \subseteq Wanted
    /\ conn = "up" /\ opening = "joining" => Wanted \ joined \subseteq toJoin \cup disrupted
    /\ conn = "up" /\ ~ closed =>
        /\ \A r \in joined \ Wanted : r \in disrupted \/ (pc = "unsubscribeEmit" /\ r = target)
        /\ opening \in {"idle", "notifying"} =>
            \A r \in Wanted \ joined : r \in disrupted \/ (pc = "subscribeEmit" /\ r = target)

IInv == TypeOK /\ IsFiniteSet(desired) /\ Locks /\ Calling /\ Silent /\ Matched

USE RoomsAssumption, BoundAssumption
USE DEF serverVars, openVars, waitVars, CallerMoves, Return, Disconnect, EmitCanFail

(* The steps by what they leave alone. *)
Waits ==
    \/ WaitUntilReconnected \/ WaitArms \/ WaitChecks \/ WaitParks \/ WaitWakes
    \/ WaitAbandoned \/ ConnectAbandoned

LEMMA InitKeeps == Init => IInv
<1>. SUFFICES ASSUME Init PROVE IInv
  OBVIOUS
<1>1. IsFiniteSet(desired) /\ Cardinality(desired) = 0
  BY FS_EmptySet DEF Init
<1>2. TypeOK
  <2>1. 0 \in 0..MaxConnections /\ Cardinality(desired) <= Limit
    BY <1>1
  <2>2. {generation, notices, observed, armed} \subseteq Nat
    BY DEF Init
  <2>. QED
    BY <2>1, <2>2 DEF Init, TypeOK, OpenPhase, CallerPhase
<1>. QED
  BY <1>1, <1>2 DEF Init, IInv, Locks, Calling, Silent, Matched, Emitting

(* The desired set keeps to its limit and to one interval. *)
DesiredOK ==
    /\ desired \subseteq Rooms /\ Cardinality(desired) <= Limit
    /\ IsFiniteSet(desired)
    /\ \A r, s \in desired : Interval[r] = Interval[s]

LEMMA Inserted ==
    ASSUME DesiredOK, NEW r \in Rooms, r \notin desired, Cardinality(desired) < Limit,
           \A active \in desired : Interval[active] = Interval[r], desired' = desired \cup {r}
    PROVE  DesiredOK'
<1>1. IsFiniteSet(desired') /\ Cardinality(desired') = Cardinality(desired) + 1
  BY FS_AddElement DEF DesiredOK
<1>2. Cardinality(desired) \in Nat
  BY FS_CardinalityType DEF DesiredOK
<1>3. Cardinality(desired') <= Limit
  BY <1>1, <1>2
<1>4. desired' \subseteq Rooms /\ \A a, b \in desired' : Interval[a] = Interval[b]
  BY DEF DesiredOK
<1>. QED
  BY <1>1, <1>3, <1>4 DEF DesiredOK

LEMMA Removed ==
    ASSUME DesiredOK, NEW r \in desired, desired' = desired \ {r}
    PROVE  DesiredOK' /\ Cardinality(desired') < Limit
<1>1. IsFiniteSet(desired') /\ Cardinality(desired') = Cardinality(desired) - 1
  BY FS_RemoveElement DEF DesiredOK
<1>2. Cardinality(desired) \in Nat
  BY FS_CardinalityType DEF DesiredOK
<1>3. Cardinality(desired') < Limit /\ Cardinality(desired') <= Limit
  BY <1>1, <1>2 DEF DesiredOK
<1>4. desired' \subseteq Rooms /\ \A a, b \in desired' : Interval[a] = Interval[b]
  BY DEF DesiredOK
<1>. QED
  BY <1>1, <1>3, <1>4 DEF DesiredOK

LEMMA DesiredKeeps ==
    ASSUME IInv, [Next]_vars
    PROVE  DesiredOK' /\ (pc' = "unsubscribeEmit" /\ pc # pc' => Cardinality(desired') < Limit)
<1>0. DesiredOK
  BY DEF IInv, TypeOK, DesiredOK
<1>1. CASE desired' = desired /\ pc' # "unsubscribeEmit"
  BY <1>0, <1>1 DEF DesiredOK
<1>2. CASE SubscribeLocks
  <2>1. CASE Insertable(target)
    <3>1. target \in Rooms
      BY <1>2 DEF IInv, Calling, SubscribeLocks
    <3>. QED
      BY <1>0, <1>2, <2>1, <3>1, Inserted DEF SubscribeLocks, Insertable
  <2>2. CASE ~ Insertable(target)
    BY <1>1, <1>2, <2>2 DEF SubscribeLocks
  <2>. QED
    BY <2>1, <2>2
<1>3. CASE UnsubscribeLocks
  <2>1. CASE target \in desired
    BY <1>0, <1>3, <2>1, Removed DEF UnsubscribeLocks
  <2>2. CASE target \notin desired
    BY <1>1, <1>3, <2>2 DEF UnsubscribeLocks
  <2>. QED
    BY <2>1, <2>2
<1>4. CASE SubscribeEmits
  <2>1. target \in desired /\ pc' = "idle"
    BY <1>4 DEF IInv, Calling, SubscribeEmits
  <2>2. CASE desired' = desired
    BY <1>1, <2>1, <2>2
  <2>3. CASE desired' = desired \ {target}
    BY <1>0, <2>1, <2>3, Removed
  <2>. QED
    BY <1>4, <2>2, <2>3 DEF SubscribeEmits
<1>5. CASE UnsubscribeEmits
  <2>1. /\ target \in Rooms /\ target \notin desired /\ Cardinality(desired) < Limit
        /\ \A active \in desired : Interval[active] = Interval[target]
        /\ pc' = "idle"
    BY <1>5 DEF IInv, Calling, UnsubscribeEmits
  <2>2. CASE desired' = desired
    BY <1>1, <2>1, <2>2
  <2>3. CASE desired' = desired \cup {target}
    BY <1>0, <2>1, <2>3, Inserted
  <2>. QED
    BY <1>5, <2>2, <2>3 DEF UnsubscribeEmits
<1>6. CASE desired' = desired /\ pc' = pc
  BY <1>0, <1>6 DEF DesiredOK
<1>7. CASE Waits \/ Shutdown \/ ShutdownLocks \/ ShutdownDisconnects \/ Cancel \/ Drop
           \/ DropDisconnects \/ ConnectTimesOut
           \/ \E r \in Rooms : Subscribe(r) \/ Unsubscribe(r)
  <2>1. desired' = desired /\ (pc' # "unsubscribeEmit" \/ pc' = pc)
    BY <1>7 DEF Waits, WaitUntilReconnected, WaitArms, WaitChecks, WaitParks, WaitWakes,
        WaitAbandoned, ConnectAbandoned, Shutdown, ShutdownLocks, ShutdownDisconnects, Cancel,
        Drop, DropDisconnects, ConnectTimesOut, Subscribe, Unsubscribe
  <2>. QED
    BY <1>1, <1>6, <2>1
<1>8. CASE ConnectionUp \/ ConnectionLost \/ OpenStep \/ UNCHANGED vars
           \/ \E r \in Rooms \cup Automatic : ShutdownLeaves(r)
  BY <1>6, <1>8 DEF ConnectionUp, ConnectionLost, OpenStep, OpenLocks, OpenJoins, OpenCounts,
      OpenNotifies, ShutdownLeaves, vars
<1>. QED
  BY <1>2, <1>3, <1>4, <1>5, <1>7, <1>8 DEF Next, Waits, OpenStep

(* The type but for the desired set, one fact each. *)
Typed ==
    /\ conn \in {"down", "up", "ended"} /\ connections \in 0..MaxConnections
    /\ released \in BOOLEAN /\ closed \in BOOLEAN
    /\ lock \in {"free", "open", "caller"} /\ opening \in OpenPhase
    /\ pc \in CallerPhase /\ target \in Rooms \cup {"none"}
    /\ shutdownSaid \in {"none", "Ok", "Err"}
    /\ generation \in Nat /\ notices \in Nat /\ observed \in Nat /\ armed \in Nat
    /\ joined \subseteq Rooms \cup Automatic /\ toJoin \subseteq Rooms \cup Automatic
    /\ leaving \subseteq Rooms \cup Automatic /\ disrupted \subseteq Rooms

LEMMA TypedKeeps ==
    ASSUME Typed, DesiredOK, Calling, [Next]_vars
    PROVE  Typed'
<1>. USE DEF Typed, OpenPhase, CallerPhase
<1>1. CASE ConnectionUp \/ ConnectionLost
  BY <1>1 DEF ConnectionUp, ConnectionLost
<1>2. CASE OpenLocks \/ OpenCounts \/ OpenNotifies
  BY <1>2 DEF OpenLocks, OpenCounts, OpenNotifies, DesiredOK
<1>3. ASSUME NEW r \in Rooms \cup Automatic, OpenJoins(r) \/ ShutdownLeaves(r)
      PROVE  Typed'
  BY <1>3 DEF OpenJoins, ShutdownLeaves, Join, Leave
<1>4. CASE Waits
  BY <1>4 DEF Waits, WaitUntilReconnected, WaitArms, WaitChecks, WaitParks, WaitWakes,
      WaitAbandoned, ConnectAbandoned
<1>5. CASE ConnectTimesOut \/ DropDisconnects
  BY <1>5 DEF ConnectTimesOut, DropDisconnects
<1>6. ASSUME NEW r \in Rooms, Subscribe(r) \/ Unsubscribe(r)
      PROVE  Typed'
  BY <1>6 DEF Subscribe, Unsubscribe
<1>7. CASE SubscribeLocks \/ UnsubscribeLocks
  BY <1>7 DEF SubscribeLocks, UnsubscribeLocks
<1>8. CASE SubscribeEmits \/ UnsubscribeEmits
  BY <1>8 DEF SubscribeEmits, UnsubscribeEmits, Join, Leave, Calling
<1>9. CASE Shutdown \/ ShutdownLocks \/ ShutdownDisconnects
  <2>1. CASE Shutdown
    BY <2>1 DEF Shutdown
  <2>2. CASE ShutdownLocks
    BY <2>2 DEF ShutdownLocks, DesiredOK
  <2>3. CASE ShutdownDisconnects
    BY <2>3 DEF ShutdownDisconnects
  <2>. QED
    BY <1>9, <2>1, <2>2, <2>3
<1>10. CASE Drop
  BY <1>10 DEF Drop
<1>11. CASE Cancel
  <2>1. disrupted' \subseteq Rooms
    BY <1>11 DEF Cancel, Calling
  <2>. QED
    BY <1>11, <2>1 DEF Cancel
<1>12. CASE UNCHANGED vars
  BY <1>12 DEF vars
<1>. QED
  BY <1>1, <1>2, <1>3, <1>4, <1>5, <1>6, <1>7, <1>8, <1>9, <1>10, <1>11, <1>12
     DEF Next, Waits

LEMMA TypeKeeps ==
    ASSUME IInv, [Next]_vars
    PROVE  TypeOK' /\ IsFiniteSet(desired')
<1>1. Typed /\ DesiredOK /\ DesiredOK' /\ Calling
  BY DesiredKeeps DEF IInv, TypeOK, Typed, DesiredOK
<1>2. Typed'
  BY <1>1, TypedKeeps
<1>. QED
  BY <1>1, <1>2 DEF Typed, TypeOK, DesiredOK

(* The guard tells who is emitting. *)
LEMMA LocksKeep ==
    ASSUME TypeOK, Locks, [Next]_vars
    PROVE  Locks'
<1>. USE DEF Locks, Emitting
<1>1. CASE OpenLocks \/ OpenCounts \/ OpenNotifies \/ ConnectionUp \/ ConnectionLost
  BY <1>1 DEF OpenLocks, OpenCounts, OpenNotifies, ConnectionUp, ConnectionLost
<1>2. ASSUME NEW r \in Rooms \cup Automatic, OpenJoins(r) \/ ShutdownLeaves(r)
      PROVE  Locks'
  BY <1>2 DEF OpenJoins, ShutdownLeaves
<1>3. CASE Waits
  BY <1>3 DEF Waits, WaitUntilReconnected, WaitArms, WaitChecks, WaitParks, WaitWakes,
      WaitAbandoned, ConnectAbandoned
<1>4. CASE ConnectTimesOut \/ DropDisconnects
  BY <1>4 DEF ConnectTimesOut, DropDisconnects
<1>5. ASSUME NEW r \in Rooms, Subscribe(r) \/ Unsubscribe(r)
      PROVE  Locks'
  BY <1>5 DEF Subscribe, Unsubscribe
<1>6. CASE SubscribeLocks \/ UnsubscribeLocks
  BY <1>6 DEF SubscribeLocks, UnsubscribeLocks
<1>7. CASE SubscribeEmits \/ UnsubscribeEmits
  BY <1>7 DEF SubscribeEmits, UnsubscribeEmits
<1>8. CASE Shutdown \/ ShutdownLocks \/ ShutdownDisconnects
  BY <1>8 DEF Shutdown, ShutdownLocks, ShutdownDisconnects
<1>9. CASE Cancel \/ Drop
  BY <1>9 DEF Cancel, Drop, TypeOK
<1>10. CASE UNCHANGED vars
  BY <1>10 DEF vars
<1>. QED
  BY <1>1, <1>2, <1>3, <1>4, <1>5, <1>6, <1>7, <1>8, <1>9, <1>10 DEF Next, Waits

(* A disconnected handle is closed, and its rooms are gone. *)
LEMMA SilentKeeps ==
    ASSUME TypeOK, Locks, Calling, Silent, [Next]_vars
    PROVE  Silent'
<1>. USE DEF Silent
<1>1. CASE OpenLocks \/ OpenCounts \/ OpenNotifies \/ ConnectionUp \/ ConnectionLost
  BY <1>1 DEF OpenLocks, OpenCounts, OpenNotifies, ConnectionUp, ConnectionLost
<1>2. ASSUME NEW r \in Rooms \cup Automatic, OpenJoins(r) \/ ShutdownLeaves(r)
      PROVE  Silent'
  BY <1>2 DEF OpenJoins, ShutdownLeaves, Join, Leave
<1>3. CASE Waits
  BY <1>3 DEF Waits, WaitUntilReconnected, WaitArms, WaitChecks, WaitParks, WaitWakes,
      WaitAbandoned, ConnectAbandoned
<1>4. CASE ConnectTimesOut \/ DropDisconnects
  BY <1>4 DEF ConnectTimesOut, DropDisconnects, Calling
<1>5. ASSUME NEW r \in Rooms, Subscribe(r) \/ Unsubscribe(r)
      PROVE  Silent'
  BY <1>5 DEF Subscribe, Unsubscribe
<1>6. CASE SubscribeLocks \/ UnsubscribeLocks
  BY <1>6 DEF SubscribeLocks, UnsubscribeLocks
<1>7. CASE SubscribeEmits \/ UnsubscribeEmits
  BY <1>7 DEF SubscribeEmits, UnsubscribeEmits, Join, Leave, Calling
<1>8. CASE Shutdown \/ ShutdownLocks \/ ShutdownDisconnects
  BY <1>8 DEF Shutdown, ShutdownLocks, ShutdownDisconnects, Calling
<1>9. CASE Cancel \/ Drop
  BY <1>9 DEF Cancel, Drop
<1>10. CASE UNCHANGED vars
  BY <1>10 DEF vars
<1>. QED
  BY <1>1, <1>2, <1>3, <1>4, <1>5, <1>6, <1>7, <1>8, <1>9, <1>10 DEF Next, Waits

LEMMA CallingKeeps ==
    ASSUME TypeOK, DesiredOK, Locks, Calling, [Next]_vars
    PROVE  Calling'
<1>. USE DEF Calling
<1>1. CASE OpenLocks \/ OpenCounts \/ OpenNotifies \/ ConnectionUp \/ ConnectionLost
  BY <1>1 DEF OpenLocks, OpenCounts, OpenNotifies, ConnectionUp, ConnectionLost
<1>2. ASSUME NEW r \in Rooms \cup Automatic, OpenJoins(r) \/ ShutdownLeaves(r)
      PROVE  Calling'
  BY <1>2 DEF OpenJoins, ShutdownLeaves
<1>3. CASE Waits
  BY <1>3 DEF Waits, WaitUntilReconnected, WaitArms, WaitChecks, WaitParks, WaitWakes,
      WaitAbandoned, ConnectAbandoned
<1>4. CASE ConnectTimesOut \/ DropDisconnects
  BY <1>4 DEF ConnectTimesOut, DropDisconnects
<1>5. ASSUME NEW r \in Rooms, Subscribe(r) \/ Unsubscribe(r)
      PROVE  Calling'
  BY <1>5 DEF Subscribe, Unsubscribe
<1>6. CASE SubscribeLocks
  BY <1>6 DEF SubscribeLocks
<1>7. CASE UnsubscribeLocks
  <2>1. CASE target \in desired
    <3>1. Cardinality(desired') < Limit /\ desired' = desired \ {target} /\ target' = target
      BY <1>7, <2>1, Removed DEF UnsubscribeLocks
    <3>2. pc' = "unsubscribeEmit" /\ target \in Rooms /\ ~ closed /\ closed' = closed
      BY <1>7, <2>1 DEF UnsubscribeLocks
    <3>. QED
      BY <2>1, <3>1, <3>2 DEF DesiredOK
  <2>2. CASE target \notin desired
    BY <1>7, <2>2 DEF UnsubscribeLocks
  <2>. QED
    BY <2>1, <2>2
<1>8. CASE SubscribeEmits \/ UnsubscribeEmits
  BY <1>8 DEF SubscribeEmits, UnsubscribeEmits
<1>9. CASE Shutdown \/ ShutdownLocks \/ ShutdownDisconnects
  BY <1>9 DEF Shutdown, ShutdownLocks, ShutdownDisconnects
<1>10. CASE Cancel \/ Drop
  BY <1>10 DEF Cancel, Drop
<1>11. CASE UNCHANGED vars
  BY <1>11 DEF vars
<1>. QED
  BY <1>1, <1>2, <1>3, <1>4, <1>5, <1>6, <1>7, <1>8, <1>9, <1>10, <1>11 DEF Next, Waits

(* Between the desired set and the server's rooms stand only the replay's  *)
(* remainder, the emit under way, and the calls that were dropped.         *)
LEMMA MatchedKeeps ==
    ASSUME TypeOK, Locks, Calling, Silent, Matched, [Next]_vars
    PROVE  Matched'
<1>. USE DEF Matched, Wanted
<1>1. CASE ConnectionUp \/ ConnectionLost
  BY <1>1 DEF ConnectionUp, ConnectionLost, Silent
<1>2. CASE OpenLocks
  BY <1>2 DEF OpenLocks
<1>3. CASE OpenCounts \/ OpenNotifies
  BY <1>3 DEF OpenCounts, OpenNotifies
<1>4. ASSUME NEW r \in Rooms \cup Automatic, OpenJoins(r)
      PROVE  Matched'
  BY <1>4 DEF OpenJoins, Join
<1>5. ASSUME NEW r \in Rooms \cup Automatic, ShutdownLeaves(r)
      PROVE  Matched'
  BY <1>5 DEF ShutdownLeaves, Leave, Locks, Calling, Emitting
<1>6. CASE Waits
  BY <1>6 DEF Waits, WaitUntilReconnected, WaitArms, WaitChecks, WaitParks, WaitWakes,
      WaitAbandoned, ConnectAbandoned
<1>7. CASE ConnectTimesOut \/ DropDisconnects
  BY <1>7 DEF ConnectTimesOut, DropDisconnects
<1>8. ASSUME NEW r \in Rooms, Subscribe(r) \/ Unsubscribe(r)
      PROVE  Matched'
  BY <1>8 DEF Subscribe, Unsubscribe
<1>9. CASE SubscribeLocks
  BY <1>9 DEF SubscribeLocks, Locks
<1>10. CASE UnsubscribeLocks
  BY <1>10 DEF UnsubscribeLocks, Locks
<1>11. CASE SubscribeEmits
  BY <1>11 DEF SubscribeEmits, Join, Locks, Calling, Emitting
<1>12. CASE UnsubscribeEmits
  BY <1>12 DEF UnsubscribeEmits, Leave, Locks, Calling, Emitting
<1>13. CASE Shutdown \/ ShutdownLocks \/ ShutdownDisconnects
  BY <1>13 DEF Shutdown, ShutdownLocks, ShutdownDisconnects
<1>14. CASE Cancel
  BY <1>14 DEF Cancel
<1>15. CASE Drop
  BY <1>15 DEF Drop
<1>16. CASE UNCHANGED vars
  BY <1>16 DEF vars
<1>. QED
  BY <1>1, <1>2, <1>3, <1>4, <1>5, <1>6, <1>7, <1>8, <1>9, <1>10, <1>11, <1>12, <1>13,
     <1>14, <1>15, <1>16 DEF Next, Waits

(* The strengthening is an invariant. *)
LEMMA Invariance == Spec => []IInv
<1>1. IInv /\ [Next]_vars => IInv'
  <2>. SUFFICES ASSUME IInv, [Next]_vars PROVE IInv'
    OBVIOUS
  <2>1. TypeOK /\ DesiredOK /\ Locks /\ Calling /\ Silent /\ Matched
    BY DEF IInv, TypeOK, DesiredOK
  <2>2. TypeOK' /\ IsFiniteSet(desired')
    BY TypeKeeps
  <2>3. Locks' /\ Calling' /\ Silent' /\ Matched'
    BY <2>1, LocksKeep, CallingKeeps, SilentKeeps, MatchedKeeps
  <2>. QED
    BY <2>2, <2>3 DEF IInv
<1>. QED
  BY <1>1, InitKeeps, PTL DEF Spec

----------------------------------------------------------------------------
(* Every variable has its type, and the set keeps to its limit and to one  *)
(* interval, rollbacks of failed emits included (SubscriptionSet).         *)
THEOREM TypeCorrect == Spec => []TypeOK
<1>1. IInv => TypeOK
  BY DEF IInv
<1>. QED
  BY <1>1, Invariance, PTL

(* When nobody is emitting on a live connection, the server has exactly    *)
(* the desired rooms, but for calls the caller dropped half-way            *)
(* (subscribe, unsubscribe and the open callback, under one guard).        *)
THEOREM RoomsMatch == Spec => []RoomsMatchDesired
<1>1. IInv => RoomsMatchDesired
  BY DEF IInv, Locks, Matched, Wanted, Emitting, RoomsMatchDesired
<1>. QED
  BY <1>1, Invariance, PTL

(* A disconnected handle never has a room joined again (the look at        *)
(* `closed` under the guard in the open callback).                         *)
THEOREM StaysSilent == Spec => []ReleasedStaysSilent
<1>1. IInv => ReleasedStaysSilent
  BY DEF IInv, Silent, ReleasedStaysSilent
<1>. QED
  BY <1>1, Invariance, PTL

(* A reconnect is announced only once its replay is complete (the open     *)
(* callback counts the generation after its last join).                    *)
THEOREM NoticeAfterReplay == Spec => ReplayBeforeNotice
<1>1. ASSUME IInv, [Next]_vars, generation' # generation, conn = "up"
      PROVE  (desired \cup Automatic) \ joined \subseteq disrupted
  <2>1. CASE OpenCounts
    BY <1>1, <2>1 DEF IInv, Matched, Wanted, OpenCounts
  <2>2. CASE ~ OpenCounts
    BY <1>1, <2>2
       DEF Next, vars, ConnectionUp, ConnectionLost, OpenLocks, OpenJoins, OpenNotifies,
           WaitUntilReconnected, WaitArms, WaitChecks, WaitParks, WaitWakes, WaitAbandoned,
           ConnectTimesOut, ConnectAbandoned, Subscribe, Unsubscribe, SubscribeLocks,
           SubscribeEmits, UnsubscribeLocks, UnsubscribeEmits, Shutdown, ShutdownLocks,
           ShutdownDisconnects, ShutdownLeaves, Cancel, Drop, DropDisconnects
  <2>. QED
    BY <2>1, <2>2
<1>2. IInv /\ [Next]_vars =>
        [generation' # generation =>
            (conn = "up" => (desired \cup Automatic) \ joined \subseteq disrupted)]_vars
  BY <1>1
<1>. QED
  BY <1>2, Invariance, PTL DEF Spec, ReplayBeforeNotice
============================================================================
