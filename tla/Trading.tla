------------------------------ MODULE Trading ------------------------------
(***************************************************************************)
(* TradingService of src/services.rs around one order: modify, which reads *)
(* the order and writes only if it may still be modified, against place,   *)
(* cancel, the market and other modify calls.                              *)
(*                                                                         *)
(* Between the read and the write lie two awaits, so the order a call      *)
(* looked at may be gone, or be another's work, when its PUT arrives.  One *)
(* execute() is two or three steps here: what the broker saw, what came    *)
(* back, and, for the write, whether the answer was lost on the way;       *)
(* module RestExecute has the retries, deadlines and quota behind them.    *)
(***************************************************************************)
EXTENDS OrderRules

CONSTANTS Callers,      \* concurrent calls of modify for the one order
          Changes,      \* what applications ask ModifyOrderBuilder for
          Placements,   \* what they ask PlaceOrderBuilder for, as an order's fields
          Values,       \* per field, what it can hold
          Side          \* buy or sell, which no modification changes

IsTerms(t) ==
    /\ DOMAIN t = OrderFields
    /\ \A f \in OrderFields : t[f] \in Values[f] \cup {None}

PlaceOrderBuild(p) ==
    /\ Selects(p, "validity")
    /\ NumbersFit(Side, p)

Modifications == {change \in Changes : ModifyOrderBuild(change)}
NewOrders     == {p \in Placements : PlaceOrderBuild(p)}

ASSUME CallersAssumption == None \notin Callers
ASSUME TermsAssumption == \A t \in Changes \cup Placements : IsTerms(t)

VARIABLES status,    \* the broker's word for the order's state
          order,     \* the fields the broker holds
          pc, request,
          look,      \* the answer to the read, of its latest attempt
          atBroker,  \* writes the broker has, or may yet receive
          reply,     \* the broker's verdict on the write
          result,    \* what the caller was told
          placed,    \* history: the order as placed
          writer,    \* history: who last wrote each field
          applied,   \* history: writes the broker carried out
          sawOpen,   \* history: calls that overlapped an open order
          sent       \* history: calls whose PUT went out

callVars == <<pc, request, look, reply, result>>
historyVars == <<placed, writer, applied, sawOpen, sent>>
vars == <<status, order, callVars, atBroker, historyVars>>

----------------------------------------------------------------------------
(* The broker's words for a state, some spelled in several ways.           *)

Open     == {"Requested", "Ordered", "Partially Executed"}
Terminal == {"Executed", "Complete", "Cancelled", "canceled", "Rejected"}
Statuses == Open \cup Terminal \cup {"Expired"}

\* OrderStatus as deserialized, whatever the capitals.
Parsed(text) ==
    CASE text = "Requested"                   -> "Requested"
      [] text = "Ordered"                     -> "Ordered"
      [] text \in {"Executed", "Complete"}    -> "Executed"
      [] text \in {"Cancelled", "canceled"}   -> "Cancelled"
      [] text = "Rejected"                    -> "Rejected"
      [] OTHER                                -> "Other"

\* Mutant of Modifiable: any word the client does not know counts as open.
X_Modifiable(text) == Parsed(text) \notin {"Executed", "Cancelled", "Rejected"}

Modifiable(text) ==
    \/ Parsed(text) \in {"Ordered", "Requested"}
    \/ Parsed(text) = "Other" /\ text = "Partially Executed"

Phase == {"idle", "reading", "writing", "sent", "done", "dropped"}
Answers == {"none", "Ok", "Error", "Unknown"}
Missing == "missing"     \* the order list came back empty
Unread  == "unread"

Init ==
    /\ status = Missing
    /\ order = Unchanged
    /\ pc = [c \in Callers |-> "idle"]
    /\ request \in [Callers -> Modifications]
    /\ look = [c \in Callers |-> Unread]
    /\ atBroker = {}
    /\ reply = [c \in Callers |-> "none"]
    /\ result = [c \in Callers |-> "none"]
    /\ placed = Unchanged
    /\ writer = [f \in OrderFields |-> None]
    /\ applied = {}
    /\ sawOpen = {}
    /\ sent = {}

Calling == {"reading", "writing", "sent"}

----------------------------------------------------------------------------
(* The order at the broker.                                                *)

\* place: a request that passed PlaceOrderBuilder::build becomes the order.
Place ==
    /\ status = Missing
    /\ \E p \in NewOrders : order' = p /\ placed' = p
    /\ status' = "Requested"
    /\ sawOpen' = sawOpen \cup {c \in Callers : pc[c] \in Calling}
    /\ UNCHANGED <<callVars, atBroker, writer, applied, sent>>

\* The exchange takes the order up, fills it in part or in whole, refuses it
\* or lets it expire.
Market ==
    /\ status \in Open
    /\ status' \in {"Ordered", "Partially Executed", "Executed", "Complete",
                    "Rejected", "Expired"} \ {status}
    /\ ~ (status = "Partially Executed" /\ status' = "Ordered")
    /\ UNCHANGED <<order, callVars, atBroker, historyVars>>

\* cancel, by this client or another of the account's.
CancelOrder ==
    /\ status \in Open
    /\ status' \in {"Cancelled", "canceled"}
    /\ UNCHANGED <<order, callVars, atBroker, historyVars>>

----------------------------------------------------------------------------
(* One call of modify.                                                     *)

Finish(c, what) ==
    /\ pc' = [pc EXCEPT ![c] = "done"]
    /\ result' = [result EXCEPT ![c] = what]

Call(c) ==
    /\ pc[c] = "idle"
    /\ pc' = [pc EXCEPT ![c] = "reading"]
    /\ sawOpen' = IF status \in Open THEN sawOpen \cup {c} ELSE sawOpen
    /\ UNCHANGED <<status, order, request, look, reply, result, atBroker,
                   placed, writer, applied, sent>>

\* An attempt of the read reaches the broker.  A retry may read again, and
\* the latest answer is the one that counts.
BrokerReads(c) ==
    /\ pc[c] = "reading"
    /\ look' = [look EXCEPT ![c] = status]
    /\ UNCHANGED <<status, order, pc, request, reply, result, atBroker, historyVars>>

\* The read fails for good: the error of a read, whatever it is.
ReadFails(c) ==
    /\ pc[c] = "reading"
    /\ Finish(c, "Error")
    /\ UNCHANGED <<status, order, request, look, reply, atBroker, historyVars>>

\* "order not found", "already been executed or cannot be modified".
Decline(c) ==
    /\ pc[c] = "reading"
    /\ look[c] # Unread
    /\ look[c] = Missing \/ ~ Modifiable(look[c])
    /\ Finish(c, "Error")
    /\ UNCHANGED <<status, order, request, look, reply, atBroker, historyVars>>

Proceed(c) ==
    /\ pc[c] = "reading"
    /\ look[c] \notin {Unread, Missing}
    /\ Modifiable(look[c])
    /\ pc' = [pc EXCEPT ![c] = "writing"]
    /\ UNCHANGED <<status, order, request, look, reply, result, atBroker, historyVars>>

\* The write's own quota, deadline or preparation refuses it locally.
WriteRefused(c) ==
    /\ pc[c] = "writing"
    /\ Finish(c, "Error")
    /\ UNCHANGED <<status, order, request, look, reply, atBroker, historyVars>>

\* The one attempt of the PUT.
Send(c) ==
    /\ pc[c] = "writing"
    /\ pc' = [pc EXCEPT ![c] = "sent"]
    /\ atBroker' = atBroker \cup {c}
    /\ sent' = sent \cup {c}
    /\ UNCHANGED <<status, order, request, look, reply, result,
                   placed, writer, applied, sawOpen>>

\* The broker takes the body's fields over, if the order is still open.
Apply(c) ==
    LET body == ModifyOrderBody(request[c]) IN
    /\ c \in atBroker
    /\ status \in Open
    /\ order' = [f \in OrderFields |-> IF f \in DOMAIN body THEN body[f] ELSE order[f]]
    /\ writer' = [f \in OrderFields |->
                    IF Selects(request[c], f) THEN c ELSE writer[f]]
    /\ applied' = applied \cup {c}
    /\ reply' = [reply EXCEPT ![c] = "accepted"]
    /\ atBroker' = atBroker \ {c}
    /\ UNCHANGED <<status, pc, request, look, result, placed, sawOpen, sent>>

\* The broker refuses the write, for the order's state or its own reasons,
\* or never receives it.
Refuse(c) ==
    /\ c \in atBroker
    /\ reply' = [reply EXCEPT ![c] = "refused"]
    /\ atBroker' = atBroker \ {c}
    /\ UNCHANGED <<status, order, pc, request, look, result, historyVars>>

\* Mutant of Answer: a lost answer is reported as the error it came with.
X_Answer(c) ==
    /\ pc[c] = "sent"
    /\ \/ reply[c] = "accepted" /\ Finish(c, "Ok")
       \/ Finish(c, "Error")
    /\ UNCHANGED <<status, order, request, look, reply, atBroker, historyVars>>

Answer(c) ==
    /\ pc[c] = "sent"
    /\ \/ reply[c] = "accepted" /\ Finish(c, "Ok")
       \/ reply[c] = "refused"  /\ Finish(c, "Error")
       \/ Finish(c, "Unknown")   \* lost, late, a 5xx: AmbiguousMutation
    /\ UNCHANGED <<status, order, request, look, reply, atBroker, historyVars>>

\* The caller drops the future at an await.
DropCall(c) ==
    /\ pc[c] \in Calling
    /\ pc' = [pc EXCEPT ![c] = "dropped"]
    /\ UNCHANGED <<status, order, request, look, reply, result, atBroker, historyVars>>

Next ==
    \/ Place
    \/ Market
    \/ CancelOrder
    \/ \E c \in Callers :
        \/ Call(c)
        \/ BrokerReads(c)
        \/ ReadFails(c)
        \/ Decline(c)
        \/ Proceed(c)
        \/ WriteRefused(c)
        \/ Send(c)
        \/ Apply(c)
        \/ Refuse(c)
        \/ Answer(c)
        \/ DropCall(c)

Spec == Init /\ [][Next]_vars

----------------------------------------------------------------------------
(* Properties.                                                             *)

TypeOK ==
    /\ status \in Statuses \cup {Missing}
    /\ IsTerms(order) /\ IsTerms(placed)
    /\ pc \in [Callers -> Phase]
    /\ request \in [Callers -> Modifications]
    /\ look \in [Callers -> Statuses \cup {Missing, Unread}]
    /\ reply \in [Callers -> {"none", "accepted", "refused"}]
    /\ result \in [Callers -> Answers]
    /\ writer \in [OrderFields -> Callers \cup {None}]
    /\ sent \subseteq Callers /\ sawOpen \subseteq Callers
    /\ atBroker \subseteq sent /\ applied \subseteq sent

\* modify writes only on a look that found the order modifiable
\* (src/services.rs:201): whatever the retries, the stale answers and the
\* other callers do, a PUT goes out only from a call during which the order
\* was open at some moment.
WriteFollowsLook == sent \subseteq sawOpen

\* The look is used to decide and for nothing else: each field of the order
\* is what the last applied call that selected it asked for, and a field no
\* call selected is as it was placed.  A PUT that also carried the values
\* that were read (src/orders.rs:714) would undo another call's change.
EachFieldIsItsSelectors ==
    \A f \in OrderFields :
        order[f] = IF writer[f] = None THEN placed[f] ELSE request[writer[f]][f]

\* Both builders refuse a disclosed quantity above the quantity, but modify
\* can compare only what one request carries (src/orders.rs:660): the rule
\* is broken at the broker only after a change of one of the two alone.
OnlyUncoupledChangesBreak ==
    \/ DisclosedFits(order["quantity"], order["disclosed_quantity"])
    \/ \E c \in applied :
        Selects(request[c], "quantity") # Selects(request[c], "disclosed_quantity")

\* modify is one mutation to its caller although it is two requests: "Ok"
\* means the change was applied once, a plain error that it was not and
\* never will be, whichever of the two requests it came from, and only
\* AmbiguousMutation leaves it open.
Contract == INSTANCE MutationContract
    WITH Mutations <- Callers,
         answer    <- result,
         effects   <- [c \in Callers |-> IF c \in applied THEN 1 ELSE 0]
AsPromised == Contract!ContractSpec
=============================================================================
