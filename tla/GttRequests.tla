----------------------------- MODULE GttRequests -----------------------------
(***************************************************************************)
(* The requests of src/gtt.rs, good-till-triggered orders of one leg or of *)
(* a target and a stop-loss leg ("cover OCO").                             *)
(***************************************************************************)
EXTENDS OrderRequests

GttOrderId == OrderId

\* A sell's limit may not be beyond its trigger; a buy's is not looked at.
GttLegs(kind) ==
    {leg \in [kind : {kind}, action : Action, limit : Money, trigger : Money] :
        leg.action = "sell" =>
            IF kind = "target" THEN leg.limit >= leg.trigger ELSE leg.limit <= leg.trigger}

GttLeg == GttLegs("target") \cup GttLegs("stoploss")

\* The two legs of a cover OCO in either order, or nothing.
cover_oco(first, second) ==
    CASE first.kind = "target" /\ second.kind = "stoploss" -> {<<first, second>>}
      [] first.kind = "stoploss" /\ second.kind = "target" -> {<<second, first>>}
      [] OTHER                                             -> {}

GttLegSet == UNION {cover_oco(first, second) : first, second \in GttLeg}

wire_leg(leg) ==
    [gtt_leg_type |-> leg.kind, action |-> leg.action,
     limit_price |-> ToString(leg.limit), trigger_price |-> ToString(leg.trigger)]

wire_legs(legs) == [n \in DOMAIN legs |-> wire_leg(legs[n])]

GttType(legs) == IF Len(legs) = 1 THEN "single" ELSE "cover_oco"

Singles == {<<leg>> : leg \in GttLeg}

X_GttMutation(method, body) == EndpointRequest(method, "/gttorder", body)

GttMutation(method, body) ==
    OfClass(EndpointRequest(method, "/gttorder", body), "GttMutation")

----------------------------------------------------------------------------
(* GttOrderRequest.                                                        *)

GttOrderNew ==
    LET Drafts(fresh, price, legs) ==
            [kind : {"gtt"}, instrument : Instrument, quantity : Quantity,
             fresh_action : fresh, fresh_price : price, legs : legs,
             index_kind : {None}, trade_date : {None}] IN
    Drafts({None}, {None}, Singles) \cup Drafts(Action, Money, GttLegSet)

GttOrderSetters == [index_kind |-> {"index", "stock"}, trade_date |-> Dates]

X_GttOrderBuild(d) == d.instrument.expiry # None /\ d.index_kind # None

GttOrderBuild(d) ==
    /\ d.instrument.expiry # None
    /\ d.index_kind # None
    /\ d.trade_date # None

GttOrderBody(d) ==
    LET i == d.instrument IN
    Joined(Contract(i, None, "others", "0"),
           [exchange_code |-> i.exchange, stock_code |-> i.stock_code,
            product |-> product(i), quantity |-> ToString(d.quantity),
            gtt_type |-> GttType(d.legs), index_or_stock |-> d.index_kind,
            trade_date |-> ToString(d.trade_date), order_details |-> wire_legs(d.legs),
            fresh_order_action |-> d.fresh_action,
            fresh_order_price |-> Number(d.fresh_price, None),
            fresh_order_type |-> IF Len(d.legs) = 1 THEN None ELSE "limit"])

\* The body expects what build() has checked.
GttOrderRequest(d) ==
    [GttMutation("POST", compact_json(GttOrderBody(d))) EXCEPT
        !.body = IF None \in {d.instrument.expiry, d.index_kind, d.trade_date}
                   THEN Panic ELSE @]

----------------------------------------------------------------------------
(* The book, cancellation and modification; all are about NFO unless told  *)
(* otherwise.                                                              *)

GttOrderListNew == [kind : {"gtt_list"}, exchange : {"NFO"}, range : DateRange]

GttOrderListRequest(d) == EndpointRequest("GET", "/gttorder", RangeBody(d))

CancelGttOrderNew == [kind : {"gtt_cancel"}, exchange : {"NFO"}, order_id : GttOrderId]

CancelGttOrderRequest(d) ==
    GttMutation("DELETE", [gtt_order_id |-> d.order_id, exchange_code |-> d.exchange])

ModifyGttOrderNew ==
    [kind : {"gtt_modify"}, exchange : {"NFO"}, order_id : GttOrderId,
     legs : Singles \cup GttLegSet]

ModifyGttOrderRequest(d) ==
    GttMutation("PUT",
        [exchange_code |-> d.exchange, gtt_order_id |-> d.order_id,
         gtt_type |-> GttType(d.legs), order_details |-> wire_legs(d.legs)])

\* The one setter these three have.
GttExchangeSetter == [exchange |-> Exchange]
=============================================================================
