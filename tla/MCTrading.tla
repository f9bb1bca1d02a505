------------------------------ MODULE MCTrading ------------------------------
(* Two calls of modify.  Their changes touch the same field, the two fields *)
(* of one rule together and alone, and unrelated fields, on an order placed *)
(* with and without a disclosed quantity.  Some of what is asked for no     *)
(* builder accepts.                                                         *)
EXTENDS Trading, TLC

MCValues ==
    [quantity |-> 1..2, disclosed_quantity |-> 1..3, price |-> 1..2, stop_loss |-> 1..2,
     order_type |-> OrderTypes, validity |-> Validities]

MCChanges ==
    {[Unchanged EXCEPT !["quantity"] = 1],
     [Unchanged EXCEPT !["disclosed_quantity"] = 2],
     [Unchanged EXCEPT !["quantity"] = 2, !["disclosed_quantity"] = 1],
     [Unchanged EXCEPT !["quantity"] = 1, !["disclosed_quantity"] = 2],
     [Unchanged EXCEPT !["order_type"] = "stoploss", !["stop_loss"] = 1],
     [Unchanged EXCEPT !["order_type"] = "limit", !["price"] = 1, !["validity"] = "ioc"]}

MCPlacements ==
    {[quantity |-> 2, disclosed_quantity |-> d, price |-> 1, stop_loss |-> None,
      order_type |-> "limit", validity |-> "day"] : d \in {None, 3}}
    \cup
    {[quantity |-> 2, disclosed_quantity |-> 1, price |-> 1, stop_loss |-> t,
      order_type |-> "stoploss", validity |-> "day"] : t \in 1..2}
==============================================================================
