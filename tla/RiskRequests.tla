---------------------------- MODULE RiskRequests ----------------------------
(***************************************************************************)
(* The calculators of src/risk.rs.  A margin request is a list of          *)
(* positions, each with builder methods of its own.                        *)
(***************************************************************************)
EXTENDS OrderRequests

MarginPositionNew ==
    [instrument : Instrument, action : Action, quantity : Quantity, price : Money,
     open_quantity : {0}, include_cover_fields : {FALSE}, cover_order_flow : {None},
     fresh_order_type : {None}, cover_limit_rate : {None}, cover_sltp_price : {None},
     fresh_limit_rate : {None}]

MarginPositionSetters ==
    [include_cover_fields |-> {TRUE}, cover_order_flow |-> Action,
     fresh_order_type |-> OrderType, cover_limit_rate |-> Money,
     cover_sltp_price |-> Money, fresh_limit_rate |-> Money, open_quantity |-> Count]

\* Mutant of SetPosition: a setter does not turn the cover fields on.
X_SetPosition(p, f, value) == [p EXCEPT ![f] = value]

\* Every setter also turns all six cover fields on.
SetPosition(p, f, value) ==
    [p EXCEPT ![f] = value, !.include_cover_fields = TRUE]

PositionBody(p) ==
    LET i == p.instrument
        Cover(value) == IF p.include_cover_fields THEN value ELSE None IN
    Joined(Contract(i, "", "others", "0"),
           [quantity |-> ToString(p.quantity), product |-> product(i), action |-> p.action,
            price |-> ToString(p.price), stock_code |-> i.stock_code,
            cover_order_flow |-> Cover(Or(p.cover_order_flow, "N")),
            fresh_order_type |-> Cover(Or(p.fresh_order_type, "N")),
            cover_limit_rate |-> Cover(Number(p.cover_limit_rate, "0")),
            cover_sltp_price |-> Cover(Number(p.cover_sltp_price, "0")),
            fresh_limit_rate |-> Cover(Number(p.fresh_limit_rate, "0")),
            open_quantity |-> Cover(ToString(p.open_quantity))])

wire_position(p) == compact_json(PositionBody(p))

MarginCalculationNew == {[kind |-> "margin_calculation", positions |-> <<>>]}

MarginCalculationBuild(d) == d.positions # <<>>

ExchangesOf(d) == {d.positions[n].instrument.exchange : n \in DOMAIN d.positions}

\* One exchange for all, which only body() checks.
MarginCalculationRequest(d) ==
    LET body == [list_of_positions |-> [n \in DOMAIN d.positions |->
                                            wire_position(d.positions[n])],
                 exchange_code |-> d.positions[1].instrument.exchange] IN
    [EndpointRequest("POST", "/margincalculator", <<>>) EXCEPT
        !.body = IF d.positions = <<>> THEN Panic
                 ELSE IF \E x, y \in ExchangesOf(d) : x # y THEN Err
                 ELSE Ok(body)]

----------------------------------------------------------------------------

LimitPriceNew ==
    {d \in [kind : {"limit_price"}, instrument : Instrument, action : Action,
            product : Product, stop_loss_trigger : {None}, source_flag : {None},
            limit_rate : {None}, order_reference : {None}, available_quantity : {None},
            fresh_order_limit : {None}] : Fits(d)}

LimitPriceSetters ==
    [product |-> Product, stop_loss_trigger |-> Money, source_flag |-> {"P", "O", "M"},
     limit_rate |-> Money, order_reference |-> OrderId, available_quantity |-> Count,
     fresh_order_limit |-> Money]

LimitPriceBuild(d) ==
    /\ d.product = product(d.instrument)
    /\ None \notin {d.stop_loss_trigger, d.source_flag, d.fresh_order_limit}

LimitPriceBody(d) ==
    LET i == d.instrument IN
    [strike_price |-> Number(i.strike, "0"), product_type |-> d.product,
     expiry_date |-> Number(i.expiry, ""), underlying |-> i.stock_code,
     exchange_code |-> i.exchange, order_flow |-> d.action,
     stop_loss_trigger |-> ToString(d.stop_loss_trigger),
     option_type |-> Or(i.right, "others"), source_flag |-> d.source_flag,
     limit_rate |-> Number(d.limit_rate, ""),
     order_reference |-> Or(d.order_reference, ""),
     available_quantity |-> Number(d.available_quantity, ""),
     market_type |-> "limit", fresh_order_limit |-> ToString(d.fresh_order_limit)]

LimitPriceRequest(d) == EndpointRequest("POST", "/fnolmtpriceandqtycal", LimitPriceBody(d))
=============================================================================
