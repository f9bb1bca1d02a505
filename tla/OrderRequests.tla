---------------------------- MODULE OrderRequests ----------------------------
(***************************************************************************)
(* The requests of src/orders.rs: for each, the drafts its constructors    *)
(* return, what the builder's setters set, what build() accepts and the    *)
(* endpoint, with its body, that a request becomes.                        *)
(***************************************************************************)
EXTENDS Instruments

Rules == INSTANCE OrderRules

\* An identifier is never blank, so the text "" can stand for none, and never
\* longer than 128 bytes.
OrderId == {t \in Texts : t \notin {"", "too long"}}

Action    == Rules!Actions
OrderType == Rules!OrderTypes
Validity  == Rules!Validities

validate_product(i, chosen, preview) ==
    \/ chosen = product(i)
    \/ product(i) = "cash" /\ chosen = "btst"
    \/ product(i) = "cash" /\ chosen = "mtf" /\ preview

\* The part of the body that all orders share.
OrderBody(d) ==
    [stock_code |-> d.instrument.stock_code, exchange_code |-> d.instrument.exchange,
     action |-> d.action, order_type |-> d.order_type,
     quantity |-> ToString(d.quantity), price |-> ToString(d.price)]

\* The product a constructor chooses.
Fits(d) == d.product = product(d.instrument)

----------------------------------------------------------------------------
(* PlaceOrderRequest.                                                      *)

PlaceOrderNew ==
    LET Drafts(type, trigger) ==
            [kind : {"place"}, instrument : Instrument, action : Action,
             quantity : Quantity, price : Money, order_type : {type},
             stop_loss : trigger, product : Product, settlement_id : {None},
             segment : {None}, lots : {None}, validity : {None},
             disclosed_quantity : {None}, user_remark : {None}] IN
    {d \in Drafts("limit", {None}) \cup Drafts("stoploss", Money) : Fits(d)}

PlaceOrderSetters ==
    [settlement_id |-> OrderId, segment |-> OrderId, lots |-> Quantity,
     product |-> Product, validity |-> Validity, user_remark |-> UserRemark,
     disclosed_quantity |-> Quantity]

PlaceOrderBuild(d) ==
    /\ validate_product(d.instrument, d.product, FALSE)
    /\ Rules!NumbersFit(d.action, d)
    /\ d.validity # None

PlaceOrderBody(d) ==
    LET i == d.instrument
        derivative == i.expiry # None
        order ==
            [product |-> d.product, validity |-> d.validity,
             settlement_id |-> Or(d.settlement_id, ""),
             order_segment_code |-> Or(d.segment, ""),
             lots |-> Number(d.lots, ""), user_remark |-> Or(d.user_remark, ""),
             stoploss |-> Number(d.stop_loss, None),
             disclosed_quantity |-> Number(d.disclosed_quantity, None)] IN
    Joined(Joined(OrderBody(d), order),
           IF derivative THEN Contract(i, None, "others", "0")
                         ELSE Contract(i, None, None, None))

PlaceOrderRequest(d) ==
    OfClass(EndpointRequest("POST", "/order", compact_json(PlaceOrderBody(d))), "PlaceOrder")

----------------------------------------------------------------------------
(* Reads and cancellation of one order, and the list.                      *)

OrderDetailNew == [kind : {"detail"}, exchange : Exchange, order_id : OrderId]

OrderDetailRequest(d) ==
    EndpointRequest("GET", "/order", [exchange_code |-> d.exchange, order_id |-> d.order_id])

TenDays == 10 * 24 * 3600 * 1000

OrderListNew ==
    [kind : {"list"}, exchange : Exchange,
     range : {r \in DateRange : r[2] - r[1] <= TenDays}]

RangeBody(d) ==
    [exchange_code |-> d.exchange,
     from_date |-> timestamp(d.range[1]), to_date |-> timestamp(d.range[2])]

OrderListRequest(d) == EndpointRequest("GET", "/order", RangeBody(d))

CancelOrderNew == [kind : {"cancel"}, exchange : Exchange, order_id : OrderId]

CancelOrderRequest(d) ==
    OfClass(EndpointRequest("DELETE", "/order",
                [order_id |-> d.order_id, exchange_code |-> d.exchange]), "CancelOrder")

----------------------------------------------------------------------------
(* ModifyOrderRequest.                                                     *)

ModifyOrderNew ==
    [kind : {"modify"}, exchange : Exchange, order_id : OrderId, quantity : {None},
     price : {None}, order_type : {None}, stop_loss : {None}, validity : {None},
     disclosed_quantity : {None}]

ModifyOrderSetters ==
    [quantity |-> Quantity, price |-> Money, order_type |-> OrderType,
     stop_loss |-> Money, validity |-> Validity, disclosed_quantity |-> Quantity]

ModifyOrderBuild(d) == Rules!ModifyOrderBuild(d)

ModifyOrderBody(d) ==
    [order_id |-> d.order_id, exchange_code |-> d.exchange,
     quantity |-> Number(d.quantity, None), price |-> Number(d.price, None),
     order_type |-> d.order_type, stoploss |-> Number(d.stop_loss, None),
     validity |-> d.validity, disclosed_quantity |-> Number(d.disclosed_quantity, None)]

ModifyOrderRequest(d) ==
    OfClass(EndpointRequest("PUT", "/order", compact_json(ModifyOrderBody(d))), "ModifyOrder")

----------------------------------------------------------------------------
(* SquareOffRequest.                                                       *)

SquareOffNew ==
    LET Drafts(type, trigger) ==
            [kind : {"squareoff"}, instrument : Instrument, action : Action,
             quantity : Quantity, price : Money, order_type : {type},
             stop_loss : trigger, validity : {None}, open_quantity : {None},
             disclosed_quantity : {None}] IN
    Drafts("limit", {None}) \cup Drafts("stoploss", Money)

SquareOffSetters ==
    [validity |-> Validity, open_quantity |-> Quantity, disclosed_quantity |-> Quantity]

SquareOffBuild(d) ==
    /\ Rules!NumbersFit(d.action, d)
    /\ d.validity # None
    /\ d.open_quantity # None

\* Eleven further fields are always sent empty.
SquareOffBody(d) ==
    Joined(Joined(OrderBody(d), Contract(d.instrument, "", "", "")),
           [product_type |-> product(d.instrument), validity |-> d.validity,
            stoploss_price |-> Number(d.stop_loss, ""),
            disclosed_quantity |-> Number(d.disclosed_quantity, "0"),
            open_quantity |-> ToString(d.open_quantity)])

SquareOffRequest(d) ==
    OfClass(EndpointRequest("POST", "/squareoff", SquareOffBody(d)), "SquareOff")

----------------------------------------------------------------------------
(* PreviewOrderRequest.                                                    *)

PreviewOrderNew ==
    {d \in [kind : {"preview"}, instrument : Instrument, action : Action,
            quantity : Quantity, price : Money, order_type : {"limit"},
            stop_loss : {None}, product : Product, special_flag : {None},
            fresh_order_rate : {None}] : Fits(d)}

PreviewOrderSetters ==
    [product |-> Product, order_type |-> OrderType, special_flag |-> {"N", "S"},
     stop_loss |-> Money, fresh_order_rate |-> Money]

PreviewOrderBuild(d) == validate_product(d.instrument, d.product, TRUE)

PreviewOrderBody(d) ==
    Joined(Joined(OrderBody(d), Contract(d.instrument, "", "", "")),
           [product |-> d.product, specialflag |-> Or(d.special_flag, ""),
            stoploss |-> Number(d.stop_loss, ""),
            order_rate_fresh |-> Number(d.fresh_order_rate, "")])

PreviewOrderRequest(d) == EndpointRequest("GET", "/preview_order", PreviewOrderBody(d))
=============================================================================
