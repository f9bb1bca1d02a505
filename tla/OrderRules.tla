----------------------------- MODULE OrderRules -----------------------------
(***************************************************************************)
(* What the order builders of src/orders.rs demand of the numbers they are *)
(* given, shared by the requests (module OrderRequests) and the broker's   *)
(* order that the requests write (module Trading).                         *)
(***************************************************************************)
EXTENDS Integers

CONSTANT None   \* an Option that is not set

\* The quantity shown to the market must not exceed the whole quantity.
DisclosedFits(quantity, disclosed) == disclosed # None => disclosed <= quantity

\* A buy's limit is at or above its trigger, a sell's at or below it.
StopLossRelation(action, limit, trigger) ==
    IF action = "buy" THEN limit >= trigger ELSE limit <= trigger

\* What PlaceOrderBuilder and SquareOffBuilder check of an order's numbers.
NumbersFit(action, t) ==
    /\ t["stop_loss"] # None => StopLossRelation(action, t["price"], t["stop_loss"])
    /\ DisclosedFits(t["quantity"], t["disclosed_quantity"])

Validities == {"day", "ioc", "vtc"}
OrderTypes == {"limit", "stoploss"}
Actions    == {"buy", "sell"}

\* The fields a modification can select, in ModifyOrderRequest's own names.
OrderFields ==
    {"quantity", "price", "order_type", "stop_loss", "validity", "disclosed_quantity"}

Unchanged == [f \in OrderFields |-> None]

Selects(change, f) == change[f] # None

\* Mutant of ModifyOrderBuild: the two quantities are not compared.
X_ModifyOrderBuild(change) == \E f \in OrderFields : Selects(change, f)

\* Something must change, and the two quantities are compared only when the
\* request itself carries both.
ModifyOrderBuild(change) ==
    /\ \E f \in OrderFields : Selects(change, f)
    /\ Selects(change, "quantity")
        => DisclosedFits(change["quantity"], change["disclosed_quantity"])

\* Mutant of ModifyOrderBody: fields that are not selected are sent as null.
X_NullsSent(change) == [f \in OrderFields |-> change[f]]

\* Mutant of ModifyOrderBody: the validity is filled from the order type.
X_ValidityFromType(change) ==
    [f \in {g \in OrderFields : Selects(change, g)} |->
        change[IF f = "validity" THEN "order_type" ELSE f]]

\* On the wire only the selected fields appear.
ModifyOrderBody(change) == [f \in {g \in OrderFields : Selects(change, g)} |-> change[f]]
=============================================================================
