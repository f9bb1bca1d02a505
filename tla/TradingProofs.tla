--------------------------- MODULE TradingProofs ---------------------------
(***************************************************************************)
(* For every set of callers, requests and orders: the type of Trading, its *)
(* three invariants, and that modify implements MutationContract.          *)
(*                                                                         *)
(* The argument: a call that is under way while the order is open has seen *)
(* it open (Witnessed), and only such a look leads to a write; a write is  *)
(* at the broker, applied or refused, one at a time, and the answers to    *)
(* the caller follow from which of the three it is (Honest).               *)
(***************************************************************************)
EXTENDS Trading, TLAPS

Witnessed ==
    /\ \A c \in Callers : pc[c] \in Calling /\ status \in Open => c \in sawOpen
    /\ \A c \in Callers : look[c] \in Open \/ pc[c] = "writing" => c \in sawOpen

Honest ==
    /\ \A c \in sent : pc[c] \notin {"idle", "reading", "writing"}
    /\ \A c \in atBroker : c \notin applied /\ reply[c] = "none" /\ result[c] # "Error"
    /\ \A c \in Callers :
        /\ reply[c] # "none" => c \in sent
        /\ reply[c] = "accepted" => c \in applied
        /\ reply[c] = "refused" => c \notin applied \cup atBroker
        /\ result[c] = "Ok" => c \in applied
        /\ result[c] = "Error" => c \notin applied
        /\ pc[c] # "done" => result[c] = "none"

Untouched == status = Missing => \A f \in OrderFields : writer[f] = None

IInv ==
    /\ TypeOK
    /\ Witnessed
    /\ Honest
    /\ Untouched
    /\ WriteFollowsLook
    /\ EachFieldIsItsSelectors
    /\ OnlyUncoupledChangesBreak

(* What the type needs of the requests and the orders that are built. *)
LEMMA BuiltTerms ==
    /\ \A change \in Modifications : IsTerms(change) /\ ModifyOrderBuild(change)
    /\ \A p \in NewOrders :
        IsTerms(p) /\ DisclosedFits(p["quantity"], p["disclosed_quantity"])
    /\ IsTerms(Unchanged)
  BY TermsAssumption
     DEF Modifications, NewOrders, PlaceOrderBuild, NumbersFit, IsTerms, Unchanged

(* The order after a modification: the selected fields are the request's. *)
LEMMA Merged ==
    ASSUME NEW change \in Modifications, NEW f \in OrderFields
    PROVE  LET body == ModifyOrderBody(change) IN
           (IF f \in DOMAIN body THEN body[f] ELSE order[f])
               = IF Selects(change, f) THEN change[f] ELSE order[f]
  BY DEF ModifyOrderBody

LEMMA InitIInv == Init => IInv
<1>. SUFFICES ASSUME Init PROVE IInv
  OBVIOUS
<1>1. TypeOK
  BY BuiltTerms DEF Init, TypeOK, Statuses, Missing, Unread, Phase, Answers
<1>2. Witnessed /\ Honest /\ Untouched /\ WriteFollowsLook
  BY DEF Init, Witnessed, Honest, Untouched, WriteFollowsLook, Calling, Open, Missing, Unread
<1>3. EachFieldIsItsSelectors /\ OnlyUncoupledChangesBreak
  BY DEF Init, EachFieldIsItsSelectors, OnlyUncoupledChangesBreak, DisclosedFits,
         Unchanged, OrderFields
<1>. QED  BY <1>1, <1>2, <1>3 DEF IInv

(* The steps that leave the broker's order alone. *)
Looking(c) ==
    \/ Call(c) \/ BrokerReads(c) \/ ReadFails(c) \/ Decline(c) \/ Proceed(c)
    \/ WriteRefused(c) \/ DropCall(c)

LEMMA OrderStands ==
    ASSUME IInv, UNCHANGED <<order, request, placed, writer, applied>>,
           status' = Missing => status = Missing
    PROVE  /\ (EachFieldIsItsSelectors /\ OnlyUncoupledChangesBreak)'
           /\ Untouched'
  BY DEF IInv, EachFieldIsItsSelectors, OnlyUncoupledChangesBreak, Untouched, DisclosedFits

LEMMA LookingIInv ==
    ASSUME IInv, NEW c \in Callers, Looking(c)
    PROVE  IInv'
<1>. USE DEF IInv, Looking, Finish, callVars, historyVars
<1>1. TypeOK'
  BY DEF TypeOK, IsTerms, Call, BrokerReads, ReadFails, Decline, Proceed, WriteRefused,
         DropCall, Phase, Answers
<1>2. Witnessed' /\ WriteFollowsLook'
  <2>1. \A text \in Statuses : Modifiable(text) => text \in Open
    BY DEF Modifiable, Parsed, Statuses, Open, Terminal
  <2>. QED
    BY <2>1 DEF Witnessed, WriteFollowsLook, TypeOK, Call, BrokerReads, ReadFails, Decline,
       Proceed, WriteRefused, DropCall, Calling, Open, Missing, Unread
<1>3. Honest'
  BY DEF Honest, TypeOK, Call, BrokerReads, ReadFails, Decline, Proceed, WriteRefused,
         DropCall, Calling
<1>4. (EachFieldIsItsSelectors /\ OnlyUncoupledChangesBreak)' /\ Untouched'
  BY OrderStands DEF Call, BrokerReads, ReadFails, Decline, Proceed, WriteRefused, DropCall
<1>. QED  BY <1>1, <1>2, <1>3, <1>4

LEMMA PlaceIInv == IInv /\ Place => IInv'
<1>. SUFFICES ASSUME IInv, Place PROVE IInv'
  OBVIOUS
<1>. USE DEF IInv, Place, callVars
<1>. PICK p \in NewOrders : order' = p /\ placed' = p
  OBVIOUS
<1>1. TypeOK'
  BY BuiltTerms DEF TypeOK, Statuses, Open, IsTerms
<1>2. Witnessed' /\ WriteFollowsLook' /\ Honest'
  BY DEF Witnessed, WriteFollowsLook, Honest, TypeOK
<1>3. EachFieldIsItsSelectors' /\ OnlyUncoupledChangesBreak' /\ Untouched'
  BY BuiltTerms DEF EachFieldIsItsSelectors, OnlyUncoupledChangesBreak, Untouched, Missing
<1>. QED  BY <1>1, <1>2, <1>3

LEMMA FateIInv == IInv /\ (Market \/ CancelOrder) => IInv'
<1>. SUFFICES ASSUME IInv, Market \/ CancelOrder PROVE IInv'
  OBVIOUS
<1>. USE DEF IInv, Market, CancelOrder, callVars, historyVars
<1>0. status \in Open /\ status' \in Statuses
  BY DEF Statuses, Terminal, Open
<1>1. TypeOK' /\ Honest'
  BY <1>0 DEF TypeOK, IsTerms, Honest
<1>2. Witnessed' /\ WriteFollowsLook'
  BY <1>0 DEF Witnessed, WriteFollowsLook
<1>3. EachFieldIsItsSelectors' /\ OnlyUncoupledChangesBreak' /\ Untouched'
  BY <1>0, OrderStands DEF Statuses, Open, Terminal, Missing
<1>. QED  BY <1>1, <1>2, <1>3

LEMMA SendIInv == ASSUME IInv, NEW c \in Callers, Send(c) PROVE IInv'
<1>. USE DEF IInv, Send
<1>1. TypeOK'
  BY DEF TypeOK, IsTerms, Phase
<1>2. Witnessed' /\ WriteFollowsLook' /\ Honest'
  BY DEF Witnessed, WriteFollowsLook, Honest, TypeOK, Calling
<1>3. EachFieldIsItsSelectors' /\ OnlyUncoupledChangesBreak' /\ Untouched'
  BY OrderStands
<1>. QED  BY <1>1, <1>2, <1>3

LEMMA ApplyIInv == ASSUME IInv, NEW c \in Callers, Apply(c) PROVE IInv'
<1>. USE DEF IInv
<1>0. request[c] \in Modifications /\ IsTerms(request[c]) /\ ModifyOrderBuild(request[c])
  BY BuiltTerms DEF TypeOK
<1>1. /\ DOMAIN order' = OrderFields
      /\ \A f \in OrderFields :
            order'[f] = IF Selects(request[c], f) THEN request[c][f] ELSE order[f]
  <2>1. order' = [f \in OrderFields |->
                    LET body == ModifyOrderBody(request[c]) IN
                    IF f \in DOMAIN body THEN body[f] ELSE order[f]]
    BY DEF Apply
  <2>. QED  BY <2>1, <1>0, Merged
<1>2. /\ writer' = [f \in OrderFields |-> IF Selects(request[c], f) THEN c ELSE writer[f]]
      /\ applied' = applied \cup {c} /\ atBroker' = atBroker \ {c}
      /\ c \in atBroker /\ status \in Open
      /\ reply' = [reply EXCEPT ![c] = "accepted"]
      /\ UNCHANGED <<status, pc, request, look, result, placed, sawOpen, sent>>
  BY DEF Apply
<1>3. TypeOK'
  <2>1. IsTerms(order)'
    BY <1>0, <1>1 DEF IsTerms, TypeOK
  <2>2. writer' \in [OrderFields -> Callers \cup {None}]
    BY <1>2 DEF TypeOK
  <2>. QED  BY <1>2, <2>1, <2>2 DEF TypeOK, IsTerms
<1>4. Witnessed' /\ WriteFollowsLook' /\ Honest'
  BY <1>2 DEF Witnessed, WriteFollowsLook, Honest, TypeOK
<1>5. EachFieldIsItsSelectors'
  BY <1>1, <1>2, CallersAssumption DEF EachFieldIsItsSelectors, TypeOK
<1>6. OnlyUncoupledChangesBreak'
  <2>. DEFINE Fits(o) == DisclosedFits(o["quantity"], o["disclosed_quantity"])
              Lone(d) == Selects(request[d], "quantity")
                            # Selects(request[d], "disclosed_quantity")
  <2>1. CASE Lone(c)
    BY <2>1, <1>2 DEF OnlyUncoupledChangesBreak
  <2>2. CASE ~ Lone(c) /\ Selects(request[c], "quantity")
    BY <2>2, <1>0, <1>1 DEF OnlyUncoupledChangesBreak, ModifyOrderBuild, OrderFields
  <2>3. CASE ~ Lone(c) /\ ~ Selects(request[c], "quantity")
    <3>1. Fits(order)' = Fits(order)
      BY <2>3, <1>1 DEF OrderFields
    <3>. QED  BY <3>1, <1>2 DEF OnlyUncoupledChangesBreak
  <2>. QED  BY <2>1, <2>2, <2>3
<1>7. Untouched'
  BY <1>2 DEF Untouched, Open, Missing
<1>. QED  BY <1>3, <1>4, <1>5, <1>6, <1>7

LEMMA VerdictIInv ==
    ASSUME IInv, NEW c \in Callers, Refuse(c) \/ Answer(c)
    PROVE  IInv'
<1>. USE DEF IInv, Refuse, Answer, Finish, historyVars
<1>1. TypeOK'
  BY DEF TypeOK, IsTerms, Phase, Answers
<1>2. Witnessed' /\ WriteFollowsLook'
  BY DEF Witnessed, WriteFollowsLook, TypeOK, Calling
<1>3. Honest'
  BY DEF Honest, TypeOK
<1>4. EachFieldIsItsSelectors' /\ OnlyUncoupledChangesBreak' /\ Untouched'
  BY OrderStands
<1>. QED  BY <1>1, <1>2, <1>3, <1>4

LEMMA NextIInv == IInv /\ [Next]_vars => IInv'
<1>. SUFFICES ASSUME IInv, [Next]_vars PROVE IInv'
  OBVIOUS
<1>1. CASE Place
  BY <1>1, PlaceIInv
<1>2. CASE Market \/ CancelOrder
  BY <1>2, FateIInv
<1>3. ASSUME NEW c \in Callers, Looking(c) PROVE IInv'
  BY <1>3, LookingIInv
<1>4. ASSUME NEW c \in Callers, Send(c) \/ Apply(c) \/ Refuse(c) \/ Answer(c) PROVE IInv'
  BY <1>4, SendIInv, ApplyIInv, VerdictIInv
<1>5. CASE UNCHANGED vars
  BY <1>5 DEF IInv, TypeOK, IsTerms, Witnessed, Honest, Untouched, WriteFollowsLook,
     EachFieldIsItsSelectors, OnlyUncoupledChangesBreak, DisclosedFits, vars, callVars,
     historyVars
<1>. QED  BY <1>1, <1>2, <1>3, <1>4, <1>5 DEF Next, Looking

(* The invariant holds in every behaviour. *)
THEOREM Invariance == Spec => []IInv
  BY InitIInv, NextIInv, PTL DEF Spec

(* The state keeps its type: every order the broker comes to hold is made  *)
(* of values the builders accept.                                          *)
THEOREM TypeCorrect == Spec => []TypeOK
<1>1. IInv => TypeOK
  BY DEF IInv
<1>. QED  BY <1>1, Invariance, PTL

(* A PUT goes out only from a call of modify that overlapped an open order. *)
THEOREM WritesAreLookedAt == Spec => []WriteFollowsLook
<1>1. IInv => WriteFollowsLook
  BY DEF IInv
<1>. QED  BY <1>1, Invariance, PTL

(* No modification undoes another's: each field is its last selector's. *)
THEOREM FieldsAreTheirSelectors == Spec => []EachFieldIsItsSelectors
<1>1. IInv => EachFieldIsItsSelectors
  BY DEF IInv
<1>. QED  BY <1>1, Invariance, PTL

(* The disclosed quantity outgrows the quantity only by a lone change. *)
THEOREM DisclosedOutgrown == Spec => []OnlyUncoupledChangesBreak
<1>1. IInv => OnlyUncoupledChangesBreak
  BY DEF IInv
<1>. QED  BY <1>1, Invariance, PTL

(* modify, with its read and its write, is one mutation to its caller. *)
THEOREM KeepsThePromise == Spec => AsPromised
<1>1. Init => Contract!ContractInit
  BY DEF Init, Contract!ContractInit
<1>2. IInv /\ [Next]_vars => [Contract!ContractNext]_(Contract!contractVars)
  <2>. SUFFICES ASSUME IInv, [Next]_vars
                PROVE  [Contract!ContractNext]_(Contract!contractVars)
    OBVIOUS
  <2>. USE DEF Contract!ContractNext, Contract!contractVars, Contract!Answer,
               Contract!TakeEffect
  <2>1. ASSUME UNCHANGED <<result, applied>> PROVE UNCHANGED Contract!contractVars
    BY <2>1
  <2>2. ASSUME NEW c \in Callers, Apply(c)
        PROVE  \E m \in Callers : Contract!TakeEffect(m)
    BY <2>2 DEF IInv, Honest, Apply, TypeOK, Answers
  <2>3. ASSUME NEW c \in Callers, NEW what \in {"Ok", "Error", "Unknown"},
               Finish(c, what), UNCHANGED applied, result[c] = "none",
               what = "Ok" => c \in applied, what = "Error" => c \notin applied
        PROVE  Contract!Answer(c, what)
    BY <2>3 DEF Finish
  <2>4. ASSUME NEW c \in Callers, ReadFails(c) \/ Decline(c) \/ WriteRefused(c)
        PROVE  Contract!Answer(c, "Error")
    <3>1. c \notin applied /\ result[c] = "none" /\ Finish(c, "Error") /\ UNCHANGED applied
      BY <2>4 DEF IInv, Honest, TypeOK, ReadFails, Decline, WriteRefused, historyVars
    <3>. QED  BY <3>1, <2>3
  <2>5. ASSUME NEW c \in Callers, Answer(c)
        PROVE  \E what \in {"Ok", "Error", "Unknown"} : Contract!Answer(c, what)
    <3>1. PICK what \in {"Ok", "Error", "Unknown"} :
            /\ Finish(c, what)
            /\ what = "Ok" => c \in applied
            /\ what = "Error" => c \notin applied
      BY <2>5 DEF IInv, Honest, TypeOK, Answer
    <3>2. result[c] = "none" /\ UNCHANGED applied
      BY <2>5 DEF IInv, Honest, Answer, historyVars
    <3>. QED  BY <3>1, <3>2, <2>3
  <2>6. ASSUME NEW c \in Callers,
               Call(c) \/ BrokerReads(c) \/ Proceed(c) \/ Send(c) \/ Refuse(c) \/ DropCall(c)
        PROVE  UNCHANGED <<result, applied>>
    BY <2>6 DEF Call, BrokerReads, Proceed, Send, Refuse, DropCall, historyVars
  <2>7. CASE Place \/ Market \/ CancelOrder \/ UNCHANGED vars
    BY <2>7, <2>1 DEF Place, Market, CancelOrder, vars, callVars, historyVars
  <2>. QED  BY <2>1, <2>2, <2>4, <2>5, <2>6, <2>7 DEF Next
<1>. QED
  BY <1>1, <1>2, Invariance, PTL DEF Spec, AsPromised, Contract!ContractSpec
=============================================================================
