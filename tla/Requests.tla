------------------------------ MODULE Requests ------------------------------
(***************************************************************************)
(* The way of one request to the wire: a constructor, builder methods in   *)
(* any order and number, build(), and prepare_request of src/client.rs,    *)
(* which every method of the services in src/services.rs comes to.         *)
(***************************************************************************)
EXTENDS GttRequests, MarketRequests, AccountRequests, RiskRequests, FiniteSets

CONSTANT MaxCalls(_)   \* bound on the calls of builder methods, by kind

VARIABLES draft,   \* the builder's fields
          calls,   \* calls of builder methods so far
          stage,
          sent     \* the PreparedRequest

requestVars == <<draft, calls, stage, sent>>

----------------------------------------------------------------------------
(* All requests by kind.                                                   *)

New ==
    UNION {PlaceOrderNew, OrderDetailNew, OrderListNew, CancelOrderNew, ModifyOrderNew,
           SquareOffNew, PreviewOrderNew, GttOrderNew, GttOrderListNew,
           CancelGttOrderNew, ModifyGttOrderNew, HistoricalV1New, HistoricalV2New,
           QuoteNew, OptionChainNew, UNION {try_from(i) : i \in Instrument},
           CustomerDetailsNew, Plain("demat_holdings"), Plain("funds"), SetFundsNew,
           GetMarginNew, HoldingsNew, Plain("positions"), TradeListNew, TradeDetailNew,
           MarginCalculationNew, LimitPriceNew}

Setters ==
    [place |-> PlaceOrderSetters, modify |-> ModifyOrderSetters,
     squareoff |-> SquareOffSetters, preview |-> PreviewOrderSetters,
     gtt |-> GttOrderSetters, gtt_list |-> GttExchangeSetter,
     gtt_cancel |-> GttExchangeSetter, gtt_modify |-> GttExchangeSetter,
     option_chain |-> OptionChainSetters, holdings |-> HoldingsSetters,
     trades |-> TradeListSetters, limit_price |-> LimitPriceSetters]

SettersOf(d) == IF d.kind \in DOMAIN Setters THEN Setters[d.kind] ELSE << >>

\* What build() accepts; the others have none, or one that cannot fail.
Builds(d) ==
    CASE d.kind = "place"              -> PlaceOrderBuild(d)
      [] d.kind = "modify"             -> ModifyOrderBuild(d)
      [] d.kind = "squareoff"          -> SquareOffBuild(d)
      [] d.kind = "preview"            -> PreviewOrderBuild(d)
      [] d.kind = "gtt"                -> GttOrderBuild(d)
      [] d.kind = "option_chain"       -> OptionChainBuild(d)
      [] d.kind = "margin_calculation" -> MarginCalculationBuild(d)
      [] d.kind = "limit_price"        -> LimitPriceBuild(d)
      [] OTHER                         -> TRUE

Endpoint(d) ==
    CASE d.kind = "place"              -> PlaceOrderRequest(d)
      [] d.kind = "detail"             -> OrderDetailRequest(d)
      [] d.kind = "list"               -> OrderListRequest(d)
      [] d.kind = "cancel"             -> CancelOrderRequest(d)
      [] d.kind = "modify"             -> ModifyOrderRequest(d)
      [] d.kind = "squareoff"          -> SquareOffRequest(d)
      [] d.kind = "preview"            -> PreviewOrderRequest(d)
      [] d.kind = "gtt"                -> GttOrderRequest(d)
      [] d.kind = "gtt_list"           -> GttOrderListRequest(d)
      [] d.kind = "gtt_cancel"         -> CancelGttOrderRequest(d)
      [] d.kind = "gtt_modify"         -> ModifyGttOrderRequest(d)
      [] d.kind = "historical_v1"      -> HistoricalV1Request(d)
      [] d.kind = "historical_v2"      -> HistoricalV2Request(d)
      [] d.kind = "quotes"             -> QuoteRequest(d)
      [] d.kind = "option_chain"       -> OptionChainRequest(d)
      [] d.kind = "customer"           -> CustomerDetailsRequest(d)
      [] d.kind = "demat_holdings"     -> PlainRequest("/dematholdings")
      [] d.kind = "funds"              -> PlainRequest("/funds")
      [] d.kind = "set_funds"          -> SetFundsRequest(d)
      [] d.kind = "margin"             -> GetMarginRequest(d)
      [] d.kind = "holdings"           -> HoldingsRequest(d)
      [] d.kind = "positions"          -> PlainRequest("/portfoliopositions")
      [] d.kind = "trades"             -> TradeListRequest(d)
      [] d.kind = "trade_detail"       -> TradeDetailRequest(d)
      [] d.kind = "margin_calculation" -> MarginCalculationRequest(d)
      [] d.kind = "limit_price"        -> LimitPriceRequest(d)

\* TradingService's methods, and the one mutation AccountService has.
TradingService ==
    {"place", "modify", "cancel", "squareoff", "gtt", "gtt_modify", "gtt_cancel"}
Mutations == TradingService \cup {"set_funds"}

----------------------------------------------------------------------------

HeaderNames(e) ==
    CASE e.authentication = "SessionExchange" -> {"content-type"}
      [] e.authentication = "SignedV1"  ->
            {"content-type", "x-timestamp", "x-checksum", "x-appkey", "x-sessiontoken"}
      [] e.authentication = "SessionV2" -> {"content-type", "x-sessiontoken", "apikey"}

\* The body and, unless this is the login, a token are needed.
CanPrepare(e, token) ==
    /\ e.body.is = "Ok"
    /\ e.authentication = "SessionExchange" \/ token

prepare_request(e) ==
    [method |-> e.method, url |-> <<e.base, e.path, e.query>>, headers |-> HeaderNames(e),
     body |-> e.body]

Init ==
    /\ draft \in New
    /\ calls = 0
    /\ stage = "draft"
    /\ sent = None

Call ==
    /\ stage = "draft"
    /\ calls < MaxCalls(draft.kind)
    /\ calls' = calls + 1
    /\ UNCHANGED <<stage, sent>>

SetField ==
    /\ Call
    /\ \E f \in DOMAIN SettersOf(draft) : \E value \in SettersOf(draft)[f] :
        draft' = [draft EXCEPT ![f] = value]

\* The positions are made before the calculation is; the latest is changed.
AddPosition ==
    /\ draft.kind = "margin_calculation"
    /\ Call
    /\ \E p \in MarginPositionNew :
        draft' = [draft EXCEPT !.positions = Append(@, p)]

ChangePosition ==
    /\ draft.kind = "margin_calculation"
    /\ draft.positions # <<>>
    /\ Call
    /\ \E f \in DOMAIN MarginPositionSetters : \E value \in MarginPositionSetters[f] :
        draft' = [draft EXCEPT !.positions[Len(draft.positions)] =
                    SetPosition(@, f, value)]

Build ==
    /\ stage = "draft"
    /\ stage' = IF Builds(draft) THEN "request" ELSE "refused"
    /\ UNCHANGED <<draft, calls, sent>>

\* By a client that has a session token or, before login, has none.
Send(token) ==
    /\ stage = "request"
    /\ IF CanPrepare(Endpoint(draft), token)
         THEN stage' = "sent" /\ sent' = prepare_request(Endpoint(draft))
         ELSE stage' = "refused" /\ sent' = None
    /\ UNCHANGED <<draft, calls>>

Next == SetField \/ AddPosition \/ ChangePosition \/ Build \/ \E token \in BOOLEAN : Send(token)

Spec == Init /\ [][Next]_requestVars

----------------------------------------------------------------------------
(* Properties.                                                             *)

\* What callers can vary besides what Setters has.
Arguments ==
    [instrument |-> Instrument, action |-> Action, quantity |-> Quantity, price |-> Money,
     stop_loss |-> Money, exchange |-> Exchange, order_id |-> OrderId, range |-> DateRange,
     interval |-> Interval, stock_code |-> StockCodes, fresh_action |-> Action,
     fresh_price |-> Money, transaction |-> FundTransaction, amount |-> Quantity,
     segment |-> FundSegment, app_key |-> Secret, api_session |-> Secret,
     legs |-> Singles \cup GttLegSet]

Values(f, setters) == IF f \in DOMAIN setters THEN setters[f] ELSE Arguments[f]

\* The fields of d that could have been given another value.
Varied(d, setters) ==
    {f \in DOMAIN d : f \in DOMAIN setters \/ (f \in DOMAIN Arguments /\ d[f] # None)}

\* What a request asks for: ranges to the second; and where the six cover
\* fields are sent, those not chosen are a documented "N" or zero.
Chosen(p) ==
    IF p.include_cover_fields
      THEN [p EXCEPT !.cover_limit_rate = Or(@, 0), !.cover_sltp_price = Or(@, 0),
                     !.fresh_limit_rate = Or(@, 0)]
      ELSE p

Meaning(d) ==
    CASE d.kind = "margin_calculation" ->
            [n \in DOMAIN d.positions |-> Chosen(d.positions[n])]
      [] "range" \in DOMAIN d /\ d.kind # "margin_calculation" ->
            [d EXCEPT !.range = <<FromDate(d), ToDate(d)>>]
      [] OTHER -> d

Distinguished(other) ==
    Builds(other) /\ prepare_request(Endpoint(other)) = sent => Meaning(other) = Meaning(draft)

\* The same, of calculations with another position in place of the n-th.
PositionDistinguished(n) ==
    LET p == draft.positions[n]
        With(position) == [draft EXCEPT !.positions[n] = position] IN
    /\ \A f \in Varied(p, << >>) : \A value \in Values(f, << >>) :
        Distinguished(With([p EXCEPT ![f] = value]))
    /\ \A f \in DOMAIN MarginPositionSetters : \A value \in MarginPositionSetters[f] :
        Distinguished(With(SetPosition(p, f, value)))

\* Whatever builder methods were called and in whatever order, two requests
\* that ask for different things are different on the wire: no argument is
\* dropped, none is sent under another's name, and no value coincides with
\* the text that stands for an absent one ("", "0", "others", "N", a missing
\* field; src/orders.rs:372, src/risk.rs:186, src/gtt.rs:289).
WireDistinguishes ==
    stage = "sent" =>
        IF draft.kind = "margin_calculation"
          THEN \A n \in DOMAIN draft.positions : PositionDistinguished(n)
          ELSE \A f \in Varied(draft, SettersOf(draft)) :
                \A value \in Values(f, SettersOf(draft)) :
                    Distinguished([draft EXCEPT ![f] = value])

\* What build() accepts, body() can serialize: no expect() fails
\* (src/gtt.rs:293) and no index (src/risk.rs:154), and only the mixed
\* exchanges of a margin calculation are refused later.
BuiltBodiesHold ==
    stage = "request" =>
        /\ Endpoint(draft).body # Panic
        /\ Endpoint(draft).body = Err => Cardinality(ExchangesOf(draft)) > 1

\* The class decides whether a lost answer is retried, and defaults to Read
\* (src/request.rs:53): every method of the trading service, and the funds
\* mutation, must have been given another, and its quota.
MutationsAreNotReads ==
    stage = "sent" => (draft.kind \in Mutations <=> Endpoint(draft).class # "Read")

\* A quote and the chain made from the same instrument name one contract
\* (src/market.rs:411).
ChainKeepsIdentity ==
    stage = "sent" /\ draft.kind = "quotes" =>
        \A c \in try_from(draft.instrument) : OptionChainRequest(c).body = sent.body
=============================================================================
