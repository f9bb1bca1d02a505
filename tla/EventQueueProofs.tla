-------------------------- MODULE EventQueueProofs --------------------------
(***************************************************************************)
(* For any number of callbacks, any capacity and either runtime: the type  *)
(* of EventQueue, the conservation of events, and the bound on the losses  *)
(* a waiting caller has not been told of.                                  *)
(*                                                                         *)
(* SilentLossBounded is not inductive: while the caller waits, callbacks   *)
(* that were refused before it looked still have their loss to count.  It  *)
(* follows from Pending, which bounds the counted losses together with     *)
(* those callbacks.                                                        *)
(***************************************************************************)
EXTENDS EventQueue, TLAPS, FiniteSetTheorems

Pending ==
    /\ ~ MultiThreaded /\ consumer = "empty" => Refused = {}
    /\ consumer = "parked" /\ queued = 0 =>
        IF MultiThreaded THEN dropped + Cardinality(Refused) <= Cardinality(Callbacks)
                         ELSE dropped = 0 /\ Refused = {}

IInv == TypeOK /\ EveryEventAccounted /\ Pending

----------------------------------------------------------------------------
(* The set of refused callbacks is finite and counts at most all of them.  *)
LEMMA RefusedIsFinite ==
    /\ IsFiniteSet(Refused)
    /\ Cardinality(Refused) \in Nat
    /\ Cardinality(Callbacks) \in Nat
    /\ Cardinality(Refused) <= Cardinality(Callbacks)
<1>1. Refused \subseteq Callbacks
  BY DEF Refused
<1>. QED
  BY <1>1, CallbacksAssumption, FS_Subset, FS_CardinalityType

(* A refusal adds its callback to the set, a count takes it away.          *)
LEMMA RefusedGrows ==
    ASSUME NEW k \in Callbacks, TypeOK, Overflow(k)
    PROVE  Refused' = Refused \cup {k} /\ Cardinality(Refused') = Cardinality(Refused) + 1
<1>1. Refused' = Refused \cup {k} /\ k \notin Refused
  BY DEF Overflow, Refused, TypeOK
<1>. QED
  BY <1>1, RefusedIsFinite, FS_AddElement

LEMMA RefusedShrinks ==
    ASSUME NEW k \in Callbacks, TypeOK, CountDrop(k)
    PROVE  /\ k \in Refused
           /\ Refused' = Refused \ {k}
           /\ Cardinality(Refused') = Cardinality(Refused) - 1
<1>1. Refused' = Refused \ {k} /\ k \in Refused
  BY DEF CountDrop, Refused, TypeOK
<1>. QED
  BY <1>1, RefusedIsFinite, FS_RemoveElement

LEMMA InitEstablishes == Init => IInv
<1>. SUFFICES ASSUME Init PROVE IInv
  OBVIOUS
<1>1. Refused = {} /\ Cardinality(Refused) = 0
  <2>1. Refused = {}
    BY DEF Init, Refused
  <2>. QED
    BY <2>1, FS_EmptySet
<1>. QED
  BY <1>1, CapacityAssumption, EventsAssumption
  DEF Init, IInv, TypeOK, ConsumerPhase, EveryEventAccounted, Pending

LEMMA StepKeepsIInv == IInv /\ [Next]_vars => IInv'
<1>. SUFFICES ASSUME IInv, [Next]_vars PROVE IInv'
  OBVIOUS
<1>. USE CapacityAssumption, EventsAssumption, RuntimeAssumption
<1>0. TypeOK /\ EveryEventAccounted /\ Pending /\ Cardinality(Refused) \in Nat
  BY RefusedIsFinite DEF IInv
<1>1. ASSUME NEW k \in Callbacks, Enqueue(k) PROVE IInv'
  <2>1. Refused' = Refused
    BY <1>1 DEF Enqueue, Refused
  <2>. QED
    BY <1>0, <1>1, <2>1
    DEF Enqueue, IInv, TypeOK, ConsumerPhase, EveryEventAccounted, Pending, CallbackMayRun
<1>2. ASSUME NEW k \in Callbacks, Overflow(k) PROVE IInv'
  <2>1. Cardinality(Refused') = Cardinality(Refused) + 1
    BY <1>0, <1>2, RefusedGrows
  <2>2. TypeOK'
    BY <1>0, <1>2 DEF Overflow, TypeOK
  <2>3. EveryEventAccounted'
    BY <1>0, <1>2, <2>1 DEF Overflow, TypeOK, EveryEventAccounted
  <2>4. Pending'
    BY <1>0, <1>2 DEF Overflow, TypeOK, Pending, CallbackMayRun
  <2>. QED
    BY <2>2, <2>3, <2>4 DEF IInv
<1>3. ASSUME NEW k \in Callbacks, CountDrop(k) PROVE IInv'
  <2>1. k \in Refused /\ Refused' = Refused \ {k} /\ Cardinality(Refused') = Cardinality(Refused) - 1
    BY <1>0, <1>3, RefusedShrinks
  <2>2. TypeOK'
    BY <1>0, <1>3 DEF CountDrop, TypeOK
  <2>3. EveryEventAccounted'
    BY <1>0, <1>3, <2>1 DEF CountDrop, TypeOK, EveryEventAccounted
  <2>4. Pending'
    BY <1>0, <1>3, <2>1, RefusedIsFinite DEF CountDrop, TypeOK, Pending, CallbackMayRun
  <2>. QED
    BY <2>2, <2>3, <2>4 DEF IInv
<1>4. ASSUME TryRecv \/ Recv \/ Cancel PROVE IInv'
  <2>1. Refused' = Refused
    BY <1>4 DEF TryRecv, Recv, Cancel, Deliver, Refused
  <2>. QED
    BY <1>0, <1>4, <2>1 DEF TryRecv, Recv, Cancel, Deliver, ConsumerMayRun,
       IInv, TypeOK, ConsumerPhase, EveryEventAccounted, Pending
<1>5. CASE TakeDropped
  <2>1. Refused' = Refused
    BY <1>5 DEF TakeDropped, Refused
  <2>2. TypeOK' /\ EveryEventAccounted'
    BY <1>0, <1>5, <2>1 DEF TakeDropped, TypeOK, ConsumerPhase, EveryEventAccounted
  <2>3. Pending'
    BY <1>0, <1>5, <2>1, RefusedIsFinite DEF TakeDropped, ConsumerMayRun, TypeOK, Pending
  <2>. QED
    BY <2>2, <2>3 DEF IInv
<1>6. CASE UNCHANGED vars
  <2>1. Refused' = Refused
    BY <1>6 DEF vars, Refused
  <2>. QED
    BY <1>0, <1>6, <2>1 DEF vars, IInv, TypeOK, EveryEventAccounted, Pending
<1>. QED
  BY <1>1, <1>2, <1>3, <1>4, <1>5, <1>6 DEF Next

THEOREM Invariance == Spec => []IInv
BY InitEstablishes, StepKeepsIInv, PTL DEF Spec

----------------------------------------------------------------------------
(* The channel never holds more than its capacity.                         *)
THEOREM TypeCorrect == Spec => []TypeOK
<1>1. IInv => TypeOK
  BY DEF IInv
<1>. QED
  BY Invariance, <1>1, PTL

(* No event is forgotten or reported twice by enqueue and next_event, for  *)
(* any number of concurrent callbacks.                                     *)
THEOREM Accounting == Spec => []EveryEventAccounted
<1>1. IInv => EveryEventAccounted
  BY DEF IInv
<1>. QED
  BY Invariance, <1>1, PTL

(* A caller parked in recv with an empty queue misses at most one loss for *)
(* each callback, and none on a current-thread runtime.                    *)
THEOREM SilentLoss == Spec => []SilentLossBounded
<1>1. IInv => SilentLossBounded
  BY RefusedIsFinite DEF IInv, TypeOK, Pending, SilentLossBounded
<1>. QED
  BY Invariance, <1>1, PTL
=============================================================================
