--------------------------- MODULE RequestsProofs ---------------------------
(***************************************************************************)
(* Proofs about requests: every method's class, that a body which was      *)
(* accepted can be written, that a chain keeps its instrument, and that    *)
(* requests for different things are different on the wire.                *)
(*                                                                         *)
(* A draft has a type for each kind, which no builder method leaves, so    *)
(* each property is one of the endpoints, kind by kind.  To be told apart  *)
(* on the wire, drafts of a kind must be told by their bodies: field by    *)
(* field, what is sent for an absent value is none that is sent for one.   *)
(***************************************************************************)
EXTENDS Requests, FiniteSetTheorems, SequenceTheorems, TLAPS

Kinds ==
    {"place", "detail", "list", "cancel", "modify", "squareoff", "preview", "gtt",
     "gtt_list", "gtt_cancel", "gtt_modify", "historical_v1", "historical_v2", "quotes",
     "option_chain", "customer", "demat_holdings", "funds", "set_funds", "margin",
     "holdings", "positions", "trades", "trade_detail", "margin_calculation", "limit_price"}

\* A draft has a kind and, to be a calculation, positions.
Kinded(d) ==
    /\ "kind" \in DOMAIN d
    /\ d.kind \in Kinds
    /\ d.kind = "margin_calculation" =>
        /\ "positions" \in DOMAIN d
        /\ \E S : d.positions \in Seq(S)

----------------------------------------------------------------------------
(* The drafts of each kind: a setter, or another argument, keeps the type. *)

Maybe(S) == S \cup {None}

PlaceDrafts ==
    [kind : {"place"}, instrument : Instrument, action : Action, quantity : Quantity,
     price : Money, order_type : OrderType, stop_loss : Maybe(Money), product : Product,
     settlement_id : Maybe(OrderId), segment : Maybe(OrderId), lots : Maybe(Quantity),
     validity : Maybe(Validity), disclosed_quantity : Maybe(Quantity),
     user_remark : Maybe(UserRemark)]

ListDrafts == [kind : {"list"}, exchange : Exchange, range : DateRange]

ModifyDrafts ==
    [kind : {"modify"}, exchange : Exchange, order_id : OrderId, quantity : Maybe(Quantity),
     price : Maybe(Money), order_type : Maybe(OrderType), stop_loss : Maybe(Money),
     validity : Maybe(Validity), disclosed_quantity : Maybe(Quantity)]

SquareOffDrafts ==
    [kind : {"squareoff"}, instrument : Instrument, action : Action, quantity : Quantity,
     price : Money, order_type : OrderType, stop_loss : Maybe(Money),
     validity : Maybe(Validity), open_quantity : Maybe(Quantity),
     disclosed_quantity : Maybe(Quantity)]

PreviewDrafts ==
    [kind : {"preview"}, instrument : Instrument, action : Action, quantity : Quantity,
     price : Money, order_type : OrderType, stop_loss : Maybe(Money), product : Product,
     special_flag : Maybe({"N", "S"}), fresh_order_rate : Maybe(Money)]

Legs == Singles \cup GttLegSet

GttDrafts ==
    [kind : {"gtt"}, instrument : Instrument, quantity : Quantity,
     fresh_action : Maybe(Action), fresh_price : Maybe(Money), legs : Legs,
     index_kind : Maybe({"index", "stock"}), trade_date : Maybe(Dates)]

GttListDrafts == [kind : {"gtt_list"}, exchange : Exchange, range : DateRange]

GttCancelDrafts == [kind : {"gtt_cancel"}, exchange : Exchange, order_id : GttOrderId]

GttModifyDrafts ==
    [kind : {"gtt_modify"}, exchange : Exchange, order_id : GttOrderId, legs : Legs]

ChainDrafts ==
    [kind : {"option_chain"}, exchange : Exchange, stock_code : StockCodes,
     product : {"options", "futures"}, expiry : Maybe(Dates), right : Maybe(OptionRight),
     strike : Maybe(Money)]

HoldingsDrafts ==
    [kind : {"holdings"}, exchange : Exchange, range : Maybe(DateRange),
     stock_code : Maybe(StockCodes), portfolio_type : Maybe(PortfolioType)]

TradesDrafts ==
    [kind : {"trades"}, exchange : Exchange, range : Maybe(DateRange),
     product : Maybe(Product), action : Maybe(Action), stock_code : Maybe(StockCodes)]

LimitPriceDrafts ==
    [kind : {"limit_price"}, instrument : Instrument, action : Action, product : Product,
     stop_loss_trigger : Maybe(Money), source_flag : Maybe({"P", "O", "M"}),
     limit_rate : Maybe(Money), order_reference : Maybe(OrderId),
     available_quantity : Maybe(Count), fresh_order_limit : Maybe(Money)]

PositionFields ==
    [instrument : Instrument, action : Action, quantity : Quantity, price : Money,
     open_quantity : Count \cup {0}, include_cover_fields : BOOLEAN,
     cover_order_flow : Maybe(Action), fresh_order_type : Maybe(OrderType),
     cover_limit_rate : Maybe(Money), cover_sltp_price : Maybe(Money),
     fresh_limit_rate : Maybe(Money)]

\* Cover fields are as they were until one of them turns all on.
Positions ==
    {p \in PositionFields :
        ~ p.include_cover_fields =>
            /\ p.open_quantity = 0
            /\ {p.cover_order_flow, p.fresh_order_type, p.cover_limit_rate,
                p.cover_sltp_price, p.fresh_limit_rate} = {None}}

CalculationDrafts == [kind : {"margin_calculation"}, positions : Seq(Positions)]

PlainDrafts == [kind : {"demat_holdings", "funds", "positions"}]

OrderDrafts ==
    PlaceDrafts \cup OrderDetailNew \cup ListDrafts \cup CancelOrderNew \cup ModifyDrafts
        \cup SquareOffDrafts \cup PreviewDrafts

GttAllDrafts == GttDrafts \cup GttListDrafts \cup GttCancelDrafts \cup GttModifyDrafts

MarketDrafts ==
    HistoricalDrafts("historical_v1") \cup HistoricalDrafts("historical_v2") \cup QuoteNew
        \cup ChainDrafts

AccountDrafts ==
    CustomerDetailsNew \cup PlainDrafts \cup SetFundsNew \cup GetMarginNew
        \cup HoldingsDrafts \cup TradesDrafts \cup TradeDetailNew

Drafts ==
    OrderDrafts \cup GttAllDrafts \cup MarketDrafts \cup AccountDrafts \cup LimitPriceDrafts
        \cup CalculationDrafts

(* What a constructor makes is a draft. *)
LEMMA NewOrdersTyped ==
    /\ PlaceOrderNew \subseteq PlaceDrafts /\ OrderListNew \subseteq ListDrafts
    /\ ModifyOrderNew \subseteq ModifyDrafts /\ SquareOffNew \subseteq SquareOffDrafts
    /\ PreviewOrderNew \subseteq PreviewDrafts
<1>1. PlaceOrderNew \subseteq PlaceDrafts
  BY DEF PlaceOrderNew, PlaceDrafts, Maybe, OrderType, Rules!OrderTypes
<1>2. OrderListNew \subseteq ListDrafts
  BY DEF OrderListNew, ListDrafts
<1>3. ModifyOrderNew \subseteq ModifyDrafts
  BY DEF ModifyOrderNew, ModifyDrafts, Maybe
<1>4. SquareOffNew \subseteq SquareOffDrafts
  BY DEF SquareOffNew, SquareOffDrafts, Maybe, OrderType, Rules!OrderTypes
<1>5. PreviewOrderNew \subseteq PreviewDrafts
  BY DEF PreviewOrderNew, PreviewDrafts, Maybe, OrderType, Rules!OrderTypes
<1>. QED
  BY <1>1, <1>2, <1>3, <1>4, <1>5

LEMMA NewGttTyped ==
    /\ GttOrderNew \subseteq GttDrafts /\ GttOrderListNew \subseteq GttListDrafts
    /\ CancelGttOrderNew \subseteq GttCancelDrafts /\ ModifyGttOrderNew \subseteq GttModifyDrafts
<1>1. GttOrderNew \subseteq GttDrafts
  BY DEF GttOrderNew, GttDrafts, Maybe, Legs
<1>2. GttOrderListNew \subseteq GttListDrafts
  BY DEF GttOrderListNew, GttListDrafts, Exchange
<1>3. CancelGttOrderNew \subseteq GttCancelDrafts
  BY DEF CancelGttOrderNew, GttCancelDrafts, Exchange
<1>4. ModifyGttOrderNew \subseteq GttModifyDrafts
  BY DEF ModifyGttOrderNew, GttModifyDrafts, Exchange, Legs
<1>. QED
  BY <1>1, <1>2, <1>3, <1>4

LEMMA NewMarketTyped ==
    /\ HistoricalV1New \subseteq HistoricalDrafts("historical_v1")
    /\ HistoricalV2New \subseteq HistoricalDrafts("historical_v2")
    /\ OptionChainNew \subseteq ChainDrafts
    /\ \A i \in Instrument : try_from(i) \subseteq ChainDrafts
<1>1. HistoricalV1New \subseteq HistoricalDrafts("historical_v1")
  BY DEF HistoricalV1New
<1>2. HistoricalV2New \subseteq HistoricalDrafts("historical_v2")
  BY DEF HistoricalV2New
<1>3. OptionChainNew \subseteq ChainDrafts
  BY DEF OptionChainNew, ChainDraft, ChainDrafts, Maybe, Exchange, DerivativeExchange
<1>4. ASSUME NEW i \in Instrument, NEW c \in try_from(i) PROVE c \in ChainDrafts
  <2>1. /\ i.stock_code \in StockCodes /\ i.exchange \in Exchange
        /\ i.expiry \in Maybe(Dates) /\ i.right \in Maybe(OptionRight)
        /\ i.strike \in Maybe(Money)
    BY DEF Instrument, Equities, Futures, Options, Exchange, DerivativeExchange, Maybe
  <2>2. c = [kind |-> "option_chain", exchange |-> i.exchange, stock_code |-> i.stock_code,
             product |-> product(i), expiry |-> i.expiry, right |-> i.right,
             strike |-> i.strike]
    BY DEF try_from, ChainDraft
  <2>3. product(i) \in {"options", "futures"}
    BY DEF try_from
  <2>. QED
    BY <2>1, <2>2, <2>3 DEF ChainDrafts
<1>. QED
  BY <1>1, <1>2, <1>3, <1>4

LEMMA NewAccountTyped ==
    /\ HoldingsNew \subseteq HoldingsDrafts /\ TradeListNew \subseteq TradesDrafts
    /\ LimitPriceNew \subseteq LimitPriceDrafts /\ MarginCalculationNew \subseteq CalculationDrafts
    /\ \A kind \in {"demat_holdings", "funds", "positions"} : Plain(kind) \subseteq PlainDrafts
    /\ MarginPositionNew \subseteq Positions
<1>1. HoldingsNew \subseteq HoldingsDrafts
  BY DEF HoldingsNew, HoldingsDrafts, Maybe
<1>2. TradeListNew \subseteq TradesDrafts
  BY DEF TradeListNew, TradesDrafts, Maybe
<1>3. LimitPriceNew \subseteq LimitPriceDrafts
  BY DEF LimitPriceNew, LimitPriceDrafts, Maybe
<1>4. MarginCalculationNew \subseteq CalculationDrafts
  <2>1. <<>> \in Seq(Positions)
    OBVIOUS
  <2>. QED
    BY <2>1 DEF MarginCalculationNew, CalculationDrafts
<1>5. \A kind \in {"demat_holdings", "funds", "positions"} : Plain(kind) \subseteq PlainDrafts
  BY DEF Plain, PlainDrafts
<1>6. MarginPositionNew \subseteq Positions
  BY DEF MarginPositionNew, Positions, PositionFields, Maybe
<1>. QED
  BY <1>1, <1>2, <1>3, <1>4, <1>5, <1>6

LEMMA NewTyped == New \subseteq Drafts
  BY NewOrdersTyped, NewGttTyped, NewMarketTyped, NewAccountTyped
     DEF New, Drafts, OrderDrafts, GttAllDrafts, MarketDrafts, AccountDrafts

(* Every draft has its kind and, to be a calculation, positions. *)
LEMMA DraftsKinded == \A d \in Drafts : Kinded(d)
<1>1. \A d \in OrderDrafts : Kinded(d)
  BY DEF OrderDrafts, PlaceDrafts, OrderDetailNew, ListDrafts, CancelOrderNew, ModifyDrafts,
         SquareOffDrafts, PreviewDrafts, Kinds, Kinded
<1>2. \A d \in GttAllDrafts : Kinded(d)
  BY DEF GttAllDrafts, GttDrafts, GttListDrafts, GttCancelDrafts, GttModifyDrafts, Kinds, Kinded
<1>3. \A d \in MarketDrafts : Kinded(d)
  BY DEF MarketDrafts, HistoricalDrafts, QuoteNew, ChainDrafts, Kinds, Kinded
<1>4. \A d \in AccountDrafts \cup LimitPriceDrafts : Kinded(d)
  BY DEF AccountDrafts, CustomerDetailsNew, PlainDrafts, SetFundsNew, GetMarginNew,
         HoldingsDrafts, TradesDrafts, TradeDetailNew, LimitPriceDrafts, Kinds, Kinded
<1>5. \A d \in CalculationDrafts : Kinded(d)
  BY DEF CalculationDrafts, Kinds, Kinded
<1>. QED
  BY <1>1, <1>2, <1>3, <1>4, <1>5 DEF Drafts

(* Another argument, or what a builder method sets, keeps a draft's type. *)
LEMMA PlaceClosed ==
    ASSUME NEW d \in PlaceDrafts, NEW f \in Varied(d, PlaceOrderSetters),
           NEW v \in Values(f, PlaceOrderSetters)
    PROVE  [d EXCEPT ![f] = v] \in PlaceDrafts
  BY DEF PlaceDrafts, Varied, Values, PlaceOrderSetters, Arguments, Maybe

LEMMA ModifyClosed ==
    ASSUME NEW d \in ModifyDrafts, NEW f \in Varied(d, ModifyOrderSetters),
           NEW v \in Values(f, ModifyOrderSetters)
    PROVE  [d EXCEPT ![f] = v] \in ModifyDrafts
  BY DEF ModifyDrafts, Varied, Values, ModifyOrderSetters, Arguments, Maybe

LEMMA SquareOffClosed ==
    ASSUME NEW d \in SquareOffDrafts, NEW f \in Varied(d, SquareOffSetters),
           NEW v \in Values(f, SquareOffSetters)
    PROVE  [d EXCEPT ![f] = v] \in SquareOffDrafts
  BY DEF SquareOffDrafts, Varied, Values, SquareOffSetters, Arguments, Maybe

LEMMA PreviewClosed ==
    ASSUME NEW d \in PreviewDrafts, NEW f \in Varied(d, PreviewOrderSetters),
           NEW v \in Values(f, PreviewOrderSetters)
    PROVE  [d EXCEPT ![f] = v] \in PreviewDrafts
  BY DEF PreviewDrafts, Varied, Values, PreviewOrderSetters, Arguments, Maybe

LEMMA GttClosed ==
    ASSUME NEW d \in GttDrafts, NEW f \in Varied(d, GttOrderSetters),
           NEW v \in Values(f, GttOrderSetters)
    PROVE  [d EXCEPT ![f] = v] \in GttDrafts
  BY DEF GttDrafts, Varied, Values, GttOrderSetters, Arguments, Maybe, Legs

LEMMA GttOthersClosed ==
    ASSUME NEW S \in {GttListDrafts, GttCancelDrafts, GttModifyDrafts}, NEW d \in S,
           NEW f \in Varied(d, GttExchangeSetter), NEW v \in Values(f, GttExchangeSetter)
    PROVE  [d EXCEPT ![f] = v] \in S
<1>1. CASE S = GttListDrafts
  BY <1>1 DEF GttListDrafts, Varied, Values, GttExchangeSetter, Arguments
<1>2. CASE S = GttCancelDrafts
  BY <1>2 DEF GttCancelDrafts, Varied, Values, GttExchangeSetter, Arguments, GttOrderId
<1>3. CASE S = GttModifyDrafts
  BY <1>3 DEF GttModifyDrafts, Varied, Values, GttExchangeSetter, Arguments, GttOrderId, Legs
<1>. QED
  BY <1>1, <1>2, <1>3

LEMMA ChainClosed ==
    ASSUME NEW d \in ChainDrafts, NEW f \in Varied(d, OptionChainSetters),
           NEW v \in Values(f, OptionChainSetters)
    PROVE  [d EXCEPT ![f] = v] \in ChainDrafts
  BY DEF ChainDrafts, Varied, Values, OptionChainSetters, Arguments, Maybe

LEMMA HoldingsClosed ==
    ASSUME NEW d \in HoldingsDrafts, NEW f \in Varied(d, HoldingsSetters),
           NEW v \in Values(f, HoldingsSetters)
    PROVE  [d EXCEPT ![f] = v] \in HoldingsDrafts
  BY DEF HoldingsDrafts, Varied, Values, HoldingsSetters, Arguments, Maybe

LEMMA TradesClosed ==
    ASSUME NEW d \in TradesDrafts, NEW f \in Varied(d, TradeListSetters),
           NEW v \in Values(f, TradeListSetters)
    PROVE  [d EXCEPT ![f] = v] \in TradesDrafts
  BY DEF TradesDrafts, Varied, Values, TradeListSetters, Arguments, Maybe

LEMMA LimitPriceClosed ==
    ASSUME NEW d \in LimitPriceDrafts, NEW f \in Varied(d, LimitPriceSetters),
           NEW v \in Values(f, LimitPriceSetters)
    PROVE  [d EXCEPT ![f] = v] \in LimitPriceDrafts
  BY DEF LimitPriceDrafts, Varied, Values, LimitPriceSetters, Arguments, Maybe

PlainKinds ==
    {OrderDetailNew, ListDrafts, CancelOrderNew, HistoricalDrafts("historical_v1"),
     HistoricalDrafts("historical_v2"), QuoteNew, CustomerDetailsNew, PlainDrafts,
     SetFundsNew, GetMarginNew, TradeDetailNew}

LEMMA OthersClosed ==
    ASSUME NEW S \in PlainKinds, NEW d \in S, NEW f \in Varied(d, << >>),
           NEW v \in Values(f, << >>)
    PROVE  [d EXCEPT ![f] = v] \in S
<1>1. CASE S = OrderDetailNew
  BY <1>1 DEF OrderDetailNew, Varied, Values, Arguments
<1>7. CASE S = CancelOrderNew
  BY <1>7 DEF CancelOrderNew, Varied, Values, Arguments
<1>8. CASE S = TradeDetailNew
  BY <1>8 DEF TradeDetailNew, Varied, Values, Arguments
<1>2. CASE S = ListDrafts
  BY <1>2 DEF ListDrafts, Varied, Values, Arguments
<1>3. CASE S = HistoricalDrafts("historical_v1")
  BY <1>3 DEF HistoricalDrafts, Varied, Values, Arguments
<1>9. CASE S = HistoricalDrafts("historical_v2")
  BY <1>9 DEF HistoricalDrafts, Varied, Values, Arguments
<1>4. CASE S = QuoteNew
  BY <1>4 DEF QuoteNew, Varied, Values, Arguments
<1>10. CASE S = PlainDrafts
  BY <1>10 DEF PlainDrafts, Varied, Values, Arguments
<1>11. CASE S = GetMarginNew
  BY <1>11 DEF GetMarginNew, Varied, Values, Arguments
<1>5. CASE S = CustomerDetailsNew
  BY <1>5 DEF CustomerDetailsNew, Varied, Values, Arguments
<1>6. CASE S = SetFundsNew
  BY <1>6 DEF SetFundsNew, Varied, Values, Arguments
<1>. QED
  BY <1>1, <1>2, <1>3, <1>4, <1>5, <1>6, <1>7, <1>8, <1>9, <1>10, <1>11
     DEF PlainKinds

LEMMA PositionClosed ==
    ASSUME NEW p \in Positions
    PROVE  /\ \A f \in Varied(p, << >>) : \A v \in Values(f, << >>) :
                [p EXCEPT ![f] = v] \in Positions
           /\ \A f \in DOMAIN MarginPositionSetters : \A v \in MarginPositionSetters[f] :
                SetPosition(p, f, v) \in Positions
<1>1. ASSUME NEW f \in Varied(p, << >>), NEW v \in Values(f, << >>)
      PROVE  [p EXCEPT ![f] = v] \in Positions
  BY DEF Positions, PositionFields, Varied, Values, Arguments, Maybe
<1>2. ASSUME NEW f \in DOMAIN MarginPositionSetters, NEW v \in MarginPositionSetters[f]
      PROVE  SetPosition(p, f, v) \in Positions
  <2>1. [p EXCEPT ![f] = v] \in PositionFields
    <3>1. CASE f = "include_cover_fields"
      <4>1. v \in {TRUE}
        BY <3>1 DEF MarginPositionSetters
      <4>2. [p EXCEPT !.include_cover_fields = TRUE] \in PositionFields
        BY DEF Positions, PositionFields
      <4>. QED
        BY <3>1, <4>1, <4>2
    <3>2. CASE f # "include_cover_fields"
      <4>. DEFINE M == [cover_order_flow |-> Action, fresh_order_type |-> OrderType,
                        cover_limit_rate |-> Money, cover_sltp_price |-> Money,
                        fresh_limit_rate |-> Money, open_quantity |-> Count]
      <4>1. f \in DOMAIN M /\ v \in M[f]
        BY <3>2 DEF MarginPositionSetters
      <4>. QED
        BY <4>1 DEF Positions, PositionFields, Maybe
    <3>. QED
      BY <3>1, <3>2
  <2>2. SetPosition(p, f, v) = [[p EXCEPT ![f] = v] EXCEPT !.include_cover_fields = TRUE]
    BY DEF SetPosition
  <2>3. \A q \in PositionFields : [q EXCEPT !.include_cover_fields = TRUE] \in Positions
    BY DEF Positions, PositionFields
  <2>. QED
    BY <2>1, <2>2, <2>3
<1>. QED
  BY <1>1, <1>2

----------------------------------------------------------------------------
(* Endpoints, kind by kind.                                                *)

LEMMA OrderEndpoints ==
    ASSUME NEW d, d.kind \in {"place", "detail", "list", "cancel", "modify", "squareoff",
                              "preview"}
    PROVE  /\ d.kind \in {"detail", "list", "preview"} <=> Endpoint(d).class = "Read"
           /\ Endpoint(d).body.is = "Ok"
  BY DEF Endpoint, PlaceOrderRequest, OrderDetailRequest, OrderListRequest,
         CancelOrderRequest, ModifyOrderRequest, SquareOffRequest, PreviewOrderRequest,
         OfClass, EndpointRequest, Ok

LEMMA GttEndpoints ==
    ASSUME NEW d, d.kind \in {"gtt", "gtt_list", "gtt_cancel", "gtt_modify"}
    PROVE  /\ d.kind = "gtt_list" <=> Endpoint(d).class = "Read"
           /\ Endpoint(d).body.is = "Ok" \/ (d.kind = "gtt" /\ ~ Builds(d))
  BY DEF Endpoint, GttOrderRequest, GttOrderListRequest, CancelGttOrderRequest,
         ModifyGttOrderRequest, GttMutation, OfClass, EndpointRequest, Ok, Builds,
         GttOrderBuild

LEMMA MarketEndpoints ==
    ASSUME NEW d, d.kind \in {"historical_v1", "historical_v2", "quotes", "option_chain"}
    PROVE  Endpoint(d).class = "Read" /\ Endpoint(d).body.is = "Ok"
  BY DEF Endpoint, HistoricalV1Request, HistoricalV2Request, QuoteRequest,
         OptionChainRequest, EndpointRequest, Ok

LEMMA AccountEndpoints ==
    ASSUME NEW d, d.kind \in {"customer", "demat_holdings", "funds", "set_funds", "margin",
                              "holdings", "positions", "trades", "trade_detail",
                              "limit_price"}
    PROVE  /\ d.kind # "set_funds" <=> Endpoint(d).class = "Read"
           /\ Endpoint(d).body.is = "Ok"
  BY DEF Endpoint, CustomerDetailsRequest, PlainRequest, SetFundsRequest, GetMarginRequest,
         HoldingsRequest, TradeListRequest, TradeDetailRequest, LimitPriceRequest, OfClass,
         EndpointRequest, Ok

LEMMA CalculationEndpoint ==
    ASSUME NEW d, d.kind = "margin_calculation"
    PROVE  /\ Endpoint(d).class = "Read"
           /\ Endpoint(d).body.is = "panic" => d.positions = <<>>
           /\ Endpoint(d).body.is = "Err" => \E x, y \in ExchangesOf(d) : x # y
           /\ Endpoint(d).body.is \in {"Ok", "Err", "panic"}
  BY DEF Endpoint, MarginCalculationRequest, EndpointRequest, Ok, Err, Panic

(* The class is Read exactly of what changes nothing. *)
LEMMA Classes ==
    ASSUME NEW d, d.kind \in Kinds
    PROVE  d.kind \in Mutations <=> Endpoint(d).class # "Read"
  BY OrderEndpoints, GttEndpoints, MarketEndpoints, AccountEndpoints, CalculationEndpoint
     DEF Kinds, Mutations, TradingService

(* Two exchanges are more than one. *)
LEMMA TwoExchanges ==
    ASSUME NEW d, Kinded(d), d.kind = "margin_calculation",
           NEW x \in ExchangesOf(d), NEW y \in ExchangesOf(d), x # y
    PROVE  Cardinality(ExchangesOf(d)) > 1
<1>1. IsFiniteSet(DOMAIN d.positions)
  <2>1. PICK S : d.positions \in Seq(S)
    BY DEF Kinded
  <2>. QED
    BY <2>1, LenProperties, FS_Interval
<1>2. IsFiniteSet(ExchangesOf(d))
  <2>. DEFINE f == [n \in DOMAIN d.positions |-> d.positions[n].instrument.exchange]
  <2>1. f \in Surjection(DOMAIN d.positions, ExchangesOf(d))
    BY DEF Surjection, ExchangesOf
  <2>. QED
    BY <1>1, <2>1, FS_Surjection
<1>3. Cardinality(ExchangesOf(d)) \in Nat
  BY <1>2, FS_CardinalityType
<1>4. Cardinality(ExchangesOf(d)) # 0
  BY <1>2, FS_EmptySet
<1>5. Cardinality(ExchangesOf(d)) # 1
  BY <1>2, FS_Singleton
<1>. QED
  BY <1>3, <1>4, <1>5

(* What build() accepts has a body, but for calculations over exchanges. *)
LEMMA Bodies ==
    ASSUME NEW d, Kinded(d), Builds(d)
    PROVE  /\ Endpoint(d).body # Panic
           /\ Endpoint(d).body = Err => Cardinality(ExchangesOf(d)) > 1
<1>1. CASE d.kind = "margin_calculation"
  <2>1. d.positions # <<>>
    BY <1>1 DEF Builds, MarginCalculationBuild
  <2>. QED
    BY <1>1, <2>1, CalculationEndpoint, TwoExchanges DEF Err, Panic
<1>2. CASE d.kind # "margin_calculation"
  <2>1. Endpoint(d).body.is = "Ok"
    BY <1>2, OrderEndpoints, GttEndpoints, MarketEndpoints, AccountEndpoints DEF Kinded, Kinds
  <2>. QED
    BY <2>1 DEF Err, Panic
<1>. QED
  BY <1>1, <1>2

(* The chain of an instrument asks for what a quote of it asks for. *)
LEMMA ChainBody ==
    ASSUME NEW i, NEW c \in try_from(i)
    PROVE  OptionChainRequest(c).body = Ok(compact_json(InstrumentBody(i)))
<1>1. /\ c.stock_code = i.stock_code /\ c.exchange = i.exchange /\ c.product = product(i)
      /\ c.expiry = i.expiry /\ c.right = i.right /\ c.strike = i.strike
  BY DEF try_from, ChainDraft
<1>2. Contract(c, None, None, None) = Contract(i, None, None, None)
  BY <1>1 DEF Contract
<1>. QED
  BY <1>1, <1>2 DEF OptionChainRequest, OptionChainBody, EndpointRequest, InstrumentBody

----------------------------------------------------------------------------
(* What texts and bodies tell.                                             *)

\* All numbers that are printed.
Numbers == Amounts \cup Counts \cup Dates \cup {0}

LEMMA TextTold ==
    ASSUME NEW m \in Numbers, NEW n \in Numbers, ToString(m) = ToString(n)
    PROVE  m = n
  BY TextAssumption DEF Numbers

LEMMA NumberTold ==
    ASSUME NEW m \in Maybe(Numbers), NEW n \in Maybe(Numbers), NEW absent \in {"", None},
           Number(m, absent) = Number(n, absent)
    PROVE  m = n
  BY TextTold, TextAssumption DEF Number, Maybe, Numbers

LEMMA ZeroTold ==
    ASSUME NEW m \in Maybe(Numbers), NEW n \in Maybe(Numbers),
           Number(m, "0") = Number(n, "0")
    PROVE  Or(m, 0) = Or(n, 0)
  BY TextTold, TextAssumption DEF Number, Or, Maybe, Numbers

LEMMA WordTold ==
    ASSUME NEW S, NEW x \in Maybe(S), NEW y \in Maybe(S), NEW absent, absent \notin S,
           Or(x, absent) = Or(y, absent)
    PROVE  x = y
  BY DEF Or, Maybe

LEMMA CompactTold ==
    ASSUME NEW a, NEW b, DOMAIN a = DOMAIN b, compact_json(a) = compact_json(b)
    PROVE  \A f \in DOMAIN a : a[f] = b[f]
<1>. SUFFICES ASSUME NEW f \in DOMAIN a PROVE a[f] = b[f]
  OBVIOUS
<1>1. /\ DOMAIN compact_json(a) = {g \in DOMAIN a : a[g] # None}
      /\ DOMAIN compact_json(b) = {g \in DOMAIN b : b[g] # None}
      /\ a[f] # None => compact_json(a)[f] = a[f]
      /\ b[f] # None => compact_json(b)[f] = b[f]
  BY DEF compact_json
<1>2. a[f] # None <=> b[f] # None
  BY <1>1
<1>. QED
  BY <1>1, <1>2

LEMMA JoinedFields ==
    ASSUME NEW a, NEW b
    PROVE  /\ DOMAIN Joined(a, b) = DOMAIN a \cup DOMAIN b
           /\ \A f \in DOMAIN a : Joined(a, b)[f] = a[f]
           /\ \A f \in DOMAIN b : f \notin DOMAIN a => Joined(a, b)[f] = b[f]
  BY DEF Joined

\* A function whose values can be compared.
Agree(a, b) == DOMAIN a = DOMAIN b /\ \A f \in DOMAIN a : a[f] = b[f]

LEMMA JoinedTold ==
    ASSUME NEW a, NEW b, NEW c, NEW e, DOMAIN a = DOMAIN c, DOMAIN b = DOMAIN e,
           DOMAIN a \cap DOMAIN b = {}, Agree(Joined(a, b), Joined(c, e))
    PROVE  Agree(a, c) /\ Agree(b, e)
<1>. DEFINE x == Joined(a, b)  y == Joined(c, e)
<1>3. /\ DOMAIN x = DOMAIN a \cup DOMAIN b
      /\ \A f \in DOMAIN a : x[f] = a[f]
      /\ \A f \in DOMAIN b : f \notin DOMAIN a => x[f] = b[f]
  BY JoinedFields
<1>4. /\ \A f \in DOMAIN c : y[f] = c[f]
      /\ \A f \in DOMAIN e : f \notin DOMAIN c => y[f] = e[f]
  BY JoinedFields
<1>5. \A f \in DOMAIN x : x[f] = y[f]
  BY DEF Agree
<1>. HIDE DEF x, y
<1>1. \A f \in DOMAIN a : a[f] = c[f]
  BY <1>3, <1>4, <1>5
<1>2. \A f \in DOMAIN b : b[f] = e[f]
  BY <1>3, <1>4, <1>5
<1>. QED
  BY <1>1, <1>2 DEF Agree

LEMMA OkTold ==
    ASSUME NEW x, NEW y, Ok(x) = Ok(y)
    PROVE  x = y
<1>1. Ok(x).text = x /\ Ok(y).text = y
  BY DEF Ok
<1>. QED
  BY <1>1

\* Of a body in two parts, and in three, whether sent in full or without None.
LEMMA TwoTold ==
    ASSUME NEW a, NEW b, NEW c, NEW e, DOMAIN a = DOMAIN c, DOMAIN b = DOMAIN e,
           DOMAIN a \cap DOMAIN b = {},
           compact_json(Joined(a, b)) = compact_json(Joined(c, e))
    PROVE  Agree(a, c) /\ Agree(b, e)
<1>1. DOMAIN Joined(a, b) = DOMAIN Joined(c, e)
  <2>1. DOMAIN Joined(a, b) = DOMAIN a \cup DOMAIN b
    BY JoinedFields
  <2>2. DOMAIN Joined(c, e) = DOMAIN c \cup DOMAIN e
    BY JoinedFields
  <2>. QED
    BY <2>1, <2>2
<1>2. Agree(Joined(a, b), Joined(c, e))
  BY <1>1, CompactTold DEF Agree
<1>. QED
  BY <1>2, JoinedTold

LEMMA ThreeTold ==
    ASSUME NEW a, NEW b, NEW c, NEW a2, NEW b2, NEW c2, DOMAIN a = DOMAIN a2,
           DOMAIN b = DOMAIN b2, DOMAIN c = DOMAIN c2, DOMAIN a \cap DOMAIN b = {},
           (DOMAIN a \cup DOMAIN b) \cap DOMAIN c = {},
           compact_json(Joined(Joined(a, b), c)) = compact_json(Joined(Joined(a2, b2), c2))
    PROVE  Agree(a, a2) /\ Agree(b, b2) /\ Agree(c, c2)
<1>1. /\ DOMAIN Joined(a, b) = DOMAIN a \cup DOMAIN b
      /\ DOMAIN Joined(a2, b2) = DOMAIN a2 \cup DOMAIN b2
  BY JoinedFields
<1>2. Agree(Joined(a, b), Joined(a2, b2)) /\ Agree(c, c2)
  BY <1>1, TwoTold
<1>. QED
  BY <1>2, JoinedTold

LEMMA SameParts ==
    ASSUME NEW i \in Instrument, NEW j \in Instrument, i.stock_code = j.stock_code,
           i.exchange = j.exchange, i.expiry = j.expiry, i.right = j.right,
           i.strike = j.strike
    PROVE  i = j
<1>1. ASSUME NEW k \in Instrument
      PROVE  k = [stock_code |-> k.stock_code, exchange |-> k.exchange,
                  expiry |-> k.expiry, right |-> k.right, strike |-> k.strike]
  BY DEF Instrument, Equities, Futures, Options
<1>. QED
  BY <1>1

(* The contract of an instrument, once its exchange is known: derivatives  *)
(* and shares have none in common, and futures have no right.              *)
LEMMA ContractTold ==
    ASSUME NEW i \in Instrument, NEW j \in Instrument, i.stock_code = j.stock_code,
           i.exchange = j.exchange, NEW expiry, NEW right \in {None, "", "others"},
           NEW strike,
           Agree(Contract(i, expiry, right, strike), Contract(j, expiry, right, strike))
    PROVE  i = j
<1>4. /\ Number(i.expiry, expiry) = Number(j.expiry, expiry)
      /\ Or(i.right, right) = Or(j.right, right)
      /\ Number(i.strike, strike) = Number(j.strike, strike)
  BY DEF Agree, Contract
<1>1. i \in Equities \cup Futures \cup Options /\ j \in Equities \cup Futures \cup Options
  BY DEF Instrument
<1>2. CASE i \in Equities
  <2>1. j \in Equities
    BY <1>1, <1>2 DEF Equities, Futures, Options, DerivativeExchange
  <2>. QED
    BY <1>2, <2>1, SameParts DEF Equities
<1>3. CASE i \notin Equities
  <2>1. j \notin Equities
    BY <1>1, <1>3 DEF Equities, Futures, Options, DerivativeExchange
  <2>2. i.expiry = j.expiry
    BY <1>1, <1>3, <2>1, <1>4, TextTold, NoneAssumption DEF Futures, Options, Number, Numbers
  <2>3. i.right = j.right
    BY <1>1, <1>3, <2>1, <1>4, NoneAssumption DEF Futures, Options, Or, OptionRight
  <2>4. i \in Futures <=> j \in Futures
    BY <1>1, <1>3, <2>1, <2>3, NoneAssumption DEF Futures, Options, OptionRight
  <2>5. i.strike = j.strike
    BY <1>1, <1>3, <2>1, <2>4, <1>4, TextTold, NoneAssumption
       DEF Futures, Options, Number, Numbers, Money
  <2>. QED
    BY <2>2, <2>3, <2>5, SameParts
<1>. QED
  BY <1>2, <1>3

LEMMA AgreeSame ==
    ASSUME NEW d, NEW e, d = [f \in DOMAIN d |-> d[f]], e = [f \in DOMAIN e |-> e[f]],
           Agree(d, e)
    PROVE  d = e
  BY DEF Agree

----------------------------------------------------------------------------
(* Kind by kind, the body tells the draft.                                 *)

LEMMA OrderBodyTold ==
    ASSUME NEW d, NEW e, d.quantity \in Quantity, e.quantity \in Quantity, d.price \in Money,
           e.price \in Money, Agree(OrderBody(d), OrderBody(e))
    PROVE  /\ d.instrument.stock_code = e.instrument.stock_code
           /\ d.instrument.exchange = e.instrument.exchange
           /\ d.action = e.action /\ d.order_type = e.order_type
           /\ d.quantity = e.quantity /\ d.price = e.price
<1>1. ToString(d.quantity) = ToString(e.quantity) /\ ToString(d.price) = ToString(e.price)
  BY DEF Agree, OrderBody
<1>2. d.quantity = e.quantity /\ d.price = e.price
  BY <1>1, TextTold DEF Quantity, Money, Numbers
<1>. QED
  BY <1>2 DEF Agree, OrderBody

LEMMA PlaceTold ==
    ASSUME NEW d \in PlaceDrafts, NEW e \in PlaceDrafts, Endpoint(d).body = Endpoint(e).body
    PROVE  d = e
<1>. DEFINE Order(x) ==
              [product |-> x.product, validity |-> x.validity,
               settlement_id |-> Or(x.settlement_id, ""),
               order_segment_code |-> Or(x.segment, ""),
               lots |-> Number(x.lots, ""), user_remark |-> Or(x.user_remark, ""),
               stoploss |-> Number(x.stop_loss, None),
               disclosed_quantity |-> Number(x.disclosed_quantity, None)]
            Parts(x) ==
              IF x.instrument.expiry # None THEN Contract(x.instrument, None, "others", "0")
                                            ELSE Contract(x.instrument, None, None, None)
<1>1. ASSUME NEW x \in PlaceDrafts
      PROVE  Endpoint(x).body = Ok(compact_json(Joined(Joined(OrderBody(x), Order(x)), Parts(x))))
  BY DEF PlaceDrafts, Endpoint, PlaceOrderRequest, PlaceOrderBody, OfClass, EndpointRequest
<1>2. compact_json(Joined(Joined(OrderBody(d), Order(d)), Parts(d)))
        = compact_json(Joined(Joined(OrderBody(e), Order(e)), Parts(e)))
  <2>. HIDE DEF Order, Parts
  <2>. QED
    BY <1>1, OkTold
<1>3. ASSUME NEW x
      PROVE  /\ DOMAIN OrderBody(x) = {"stock_code", "exchange_code", "action", "order_type",
                                       "quantity", "price"}
             /\ DOMAIN Order(x) = {"product", "validity", "settlement_id",
                                   "order_segment_code", "lots", "user_remark", "stoploss",
                                   "disclosed_quantity"}
             /\ DOMAIN Parts(x) = {"expiry_date", "right", "strike_price"}
  BY DEF OrderBody, Contract
<1>4. Agree(OrderBody(d), OrderBody(e)) /\ Agree(Order(d), Order(e)) /\ Agree(Parts(d), Parts(e))
  <2>. HIDE DEF Order, Parts
  <2>. QED
    BY <1>2, <1>3, ThreeTold
<1>5. /\ d.instrument.stock_code = e.instrument.stock_code
      /\ d.instrument.exchange = e.instrument.exchange
      /\ d.action = e.action /\ d.order_type = e.order_type
      /\ d.quantity = e.quantity /\ d.price = e.price
  BY <1>4, OrderBodyTold DEF PlaceDrafts
<1>6. d.instrument = e.instrument
  <2>1. d.instrument.expiry = None <=> e.instrument.expiry = None
    BY <1>5, NoneAssumption
       DEF PlaceDrafts, Instrument, Equities, Futures, Options, DerivativeExchange
  <2>2. CASE d.instrument.expiry = None
    BY <1>4, <1>5, <2>1, <2>2, ContractTold DEF PlaceDrafts
  <2>3. CASE d.instrument.expiry # None
    BY <1>4, <1>5, <2>1, <2>3, ContractTold DEF PlaceDrafts
  <2>. QED
    BY <2>2, <2>3
<1>7. /\ d.product = e.product /\ d.validity = e.validity
      /\ Or(d.settlement_id, "") = Or(e.settlement_id, "")
      /\ Or(d.segment, "") = Or(e.segment, "") /\ Number(d.lots, "") = Number(e.lots, "")
      /\ Or(d.user_remark, "") = Or(e.user_remark, "")
      /\ Number(d.stop_loss, None) = Number(e.stop_loss, None)
      /\ Number(d.disclosed_quantity, None) = Number(e.disclosed_quantity, None)
  BY <1>4 DEF Agree
<1>8. d.settlement_id = e.settlement_id /\ d.segment = e.segment /\ d.user_remark = e.user_remark
  <2>1. "" \notin OrderId /\ "" \notin UserRemark
    BY DEF OrderId, UserRemark
  <2>2. /\ {d.settlement_id, e.settlement_id, d.segment, e.segment} \subseteq Maybe(OrderId)
        /\ {d.user_remark, e.user_remark} \subseteq Maybe(UserRemark)
    BY DEF PlaceDrafts
  <2>. QED
    BY <1>7, <2>1, <2>2, WordTold
<1>9. /\ d.lots = e.lots /\ d.stop_loss = e.stop_loss
      /\ d.disclosed_quantity = e.disclosed_quantity
  BY <1>7, NumberTold DEF PlaceDrafts, Maybe, Numbers, Quantity, Money
<1>. QED
  <2>1. ASSUME NEW x \in PlaceDrafts
        PROVE  /\ x = [f \in DOMAIN x |-> x[f]] /\ x.kind = "place"
               /\ DOMAIN x = {"kind", "instrument", "action", "quantity", "price", "order_type",
                              "stop_loss", "product", "settlement_id", "segment", "lots",
                              "validity", "disclosed_quantity", "user_remark"}
    BY DEF PlaceDrafts
  <2>2. Agree(d, e)
    BY <1>5, <1>6, <1>7, <1>8, <1>9, <2>1 DEF Agree
  <2>. QED
    BY <2>1, <2>2, AgreeSame

LEMMA ModifyTold ==
    ASSUME NEW d \in ModifyDrafts, NEW e \in ModifyDrafts, Endpoint(d).body = Endpoint(e).body
    PROVE  d = e
<1>1. ASSUME NEW x \in ModifyDrafts PROVE Endpoint(x).body = Ok(compact_json(ModifyOrderBody(x)))
  BY DEF ModifyDrafts, Endpoint, ModifyOrderRequest, OfClass, EndpointRequest
<1>2. compact_json(ModifyOrderBody(d)) = compact_json(ModifyOrderBody(e))
  BY <1>1, OkTold
<1>3. DOMAIN ModifyOrderBody(d) = DOMAIN ModifyOrderBody(e)
  BY DEF ModifyOrderBody
<1>4. Agree(ModifyOrderBody(d), ModifyOrderBody(e))
  BY <1>2, <1>3, CompactTold DEF Agree
<1>5. /\ d.order_id = e.order_id /\ d.exchange = e.exchange
      /\ Number(d.quantity, None) = Number(e.quantity, None)
      /\ Number(d.price, None) = Number(e.price, None) /\ d.order_type = e.order_type
      /\ Number(d.stop_loss, None) = Number(e.stop_loss, None) /\ d.validity = e.validity
      /\ Number(d.disclosed_quantity, None) = Number(e.disclosed_quantity, None)
  BY <1>4 DEF Agree, ModifyOrderBody
<1>6. /\ d.quantity = e.quantity /\ d.price = e.price /\ d.stop_loss = e.stop_loss
      /\ d.disclosed_quantity = e.disclosed_quantity
  BY <1>5, NumberTold DEF ModifyDrafts, Maybe, Numbers, Quantity, Money
<1>7. ASSUME NEW x \in ModifyDrafts
      PROVE  /\ x = [f \in DOMAIN x |-> x[f]] /\ x.kind = "modify"
             /\ DOMAIN x = {"kind", "exchange", "order_id", "quantity", "price", "order_type",
                            "stop_loss", "validity", "disclosed_quantity"}
  BY DEF ModifyDrafts
<1>8. Agree(d, e)
  BY <1>5, <1>6, <1>7 DEF Agree
<1>. QED
  BY <1>7, <1>8, AgreeSame

LEMMA SquareOffTold ==
    ASSUME NEW d \in SquareOffDrafts, NEW e \in SquareOffDrafts, Builds(d), Builds(e),
           Endpoint(d).body = Endpoint(e).body
    PROVE  d = e
<1>. DEFINE Rest(x) ==
              [product_type |-> product(x.instrument), validity |-> x.validity,
               stoploss_price |-> Number(x.stop_loss, ""),
               disclosed_quantity |-> Number(x.disclosed_quantity, "0"),
               open_quantity |-> ToString(x.open_quantity)]
            Parts(x) == Contract(x.instrument, "", "", "")
<1>1. ASSUME NEW x \in SquareOffDrafts
      PROVE  Endpoint(x).body = Ok(Joined(Joined(OrderBody(x), Parts(x)), Rest(x)))
  BY DEF SquareOffDrafts, Endpoint, SquareOffRequest, SquareOffBody, OfClass, EndpointRequest
<1>2. Joined(Joined(OrderBody(d), Parts(d)), Rest(d)) = Joined(Joined(OrderBody(e), Parts(e)), Rest(e))
  <2>. HIDE DEF Rest, Parts
  <2>. QED
    BY <1>1, OkTold
<1>3. ASSUME NEW x
      PROVE  /\ DOMAIN OrderBody(x) = {"stock_code", "exchange_code", "action", "order_type",
                                       "quantity", "price"}
             /\ DOMAIN Rest(x) = {"product_type", "validity", "stoploss_price",
                                  "disclosed_quantity", "open_quantity"}
             /\ DOMAIN Parts(x) = {"expiry_date", "right", "strike_price"}
  BY DEF OrderBody, Contract
<1>4. Agree(OrderBody(d), OrderBody(e)) /\ Agree(Parts(d), Parts(e)) /\ Agree(Rest(d), Rest(e))
  <2>. HIDE DEF Rest, Parts
  <2>. QED
    BY <1>2, <1>3, ThreeTold
<1>5. /\ d.instrument.stock_code = e.instrument.stock_code
      /\ d.instrument.exchange = e.instrument.exchange
      /\ d.action = e.action /\ d.order_type = e.order_type
      /\ d.quantity = e.quantity /\ d.price = e.price
  BY <1>4, OrderBodyTold DEF SquareOffDrafts
<1>6. d.instrument = e.instrument
  BY <1>4, <1>5, ContractTold DEF SquareOffDrafts
<1>7. /\ d.validity = e.validity /\ Number(d.stop_loss, "") = Number(e.stop_loss, "")
      /\ Number(d.disclosed_quantity, "0") = Number(e.disclosed_quantity, "0")
      /\ ToString(d.open_quantity) = ToString(e.open_quantity)
  BY <1>4 DEF Agree
<1>8. d.stop_loss = e.stop_loss
  BY <1>7, NumberTold DEF SquareOffDrafts, Maybe, Numbers, Money
<1>9. d.disclosed_quantity = e.disclosed_quantity
  <2>1. {d.disclosed_quantity, e.disclosed_quantity} \subseteq Maybe(Quantity)
    BY DEF SquareOffDrafts
  <2>2. Or(d.disclosed_quantity, 0) = Or(e.disclosed_quantity, 0)
    BY <1>7, <2>1, ZeroTold DEF Maybe, Numbers, Quantity
  <2>. QED
    BY <2>1, <2>2 DEF Or, Maybe, Quantity
<1>10. d.open_quantity = e.open_quantity
  <2>1. d.open_quantity # None /\ e.open_quantity # None
    BY DEF SquareOffDrafts, Builds, SquareOffBuild
  <2>. QED
    BY <1>7, <2>1, TextTold DEF SquareOffDrafts, Maybe, Numbers, Quantity
<1>. QED
  <2>1. ASSUME NEW x \in SquareOffDrafts
        PROVE  /\ x = [f \in DOMAIN x |-> x[f]] /\ x.kind = "squareoff"
               /\ DOMAIN x = {"kind", "instrument", "action", "quantity", "price", "order_type",
                              "stop_loss", "validity", "open_quantity", "disclosed_quantity"}
    BY DEF SquareOffDrafts
  <2>2. Agree(d, e)
    BY <1>5, <1>6, <1>7, <1>8, <1>9, <1>10, <2>1 DEF Agree
  <2>. QED
    BY <2>1, <2>2, AgreeSame

LEMMA PreviewTold ==
    ASSUME NEW d \in PreviewDrafts, NEW e \in PreviewDrafts,
           Endpoint(d).body = Endpoint(e).body
    PROVE  d = e
<1>. DEFINE Rest(x) ==
              [product |-> x.product, specialflag |-> Or(x.special_flag, ""),
               stoploss |-> Number(x.stop_loss, ""),
               order_rate_fresh |-> Number(x.fresh_order_rate, "")]
            Parts(x) == Contract(x.instrument, "", "", "")
<1>1. ASSUME NEW x \in PreviewDrafts
      PROVE  Endpoint(x).body = Ok(Joined(Joined(OrderBody(x), Parts(x)), Rest(x)))
  BY DEF PreviewDrafts, Endpoint, PreviewOrderRequest, PreviewOrderBody, EndpointRequest
<1>2. Joined(Joined(OrderBody(d), Parts(d)), Rest(d)) = Joined(Joined(OrderBody(e), Parts(e)), Rest(e))
  <2>. HIDE DEF Rest, Parts
  <2>. QED
    BY <1>1, OkTold
<1>3. ASSUME NEW x
      PROVE  /\ DOMAIN OrderBody(x) = {"stock_code", "exchange_code", "action", "order_type",
                                       "quantity", "price"}
             /\ DOMAIN Rest(x) = {"product", "specialflag", "stoploss", "order_rate_fresh"}
             /\ DOMAIN Parts(x) = {"expiry_date", "right", "strike_price"}
  BY DEF OrderBody, Contract
<1>4. Agree(OrderBody(d), OrderBody(e)) /\ Agree(Parts(d), Parts(e)) /\ Agree(Rest(d), Rest(e))
  <2>. HIDE DEF Rest, Parts
  <2>. QED
    BY <1>2, <1>3, ThreeTold
<1>5. /\ d.instrument.stock_code = e.instrument.stock_code
      /\ d.instrument.exchange = e.instrument.exchange
      /\ d.action = e.action /\ d.order_type = e.order_type
      /\ d.quantity = e.quantity /\ d.price = e.price
  BY <1>4, OrderBodyTold DEF PreviewDrafts
<1>6. d.instrument = e.instrument
  BY <1>4, <1>5, ContractTold DEF PreviewDrafts
<1>7. /\ d.product = e.product /\ Or(d.special_flag, "") = Or(e.special_flag, "")
      /\ Number(d.stop_loss, "") = Number(e.stop_loss, "")
      /\ Number(d.fresh_order_rate, "") = Number(e.fresh_order_rate, "")
  BY <1>4 DEF Agree
<1>8. d.stop_loss = e.stop_loss /\ d.fresh_order_rate = e.fresh_order_rate
  BY <1>7, NumberTold DEF PreviewDrafts, Maybe, Numbers, Money
<1>9. d.special_flag = e.special_flag
  BY <1>7 DEF PreviewDrafts, Maybe, Or
<1>. QED
  <2>1. ASSUME NEW x \in PreviewDrafts
        PROVE  /\ x = [f \in DOMAIN x |-> x[f]] /\ x.kind = "preview"
               /\ DOMAIN x = {"kind", "instrument", "action", "quantity", "price", "order_type",
                              "stop_loss", "product", "special_flag", "fresh_order_rate"}
    BY DEF PreviewDrafts
  <2>2. Agree(d, e)
    BY <1>5, <1>6, <1>7, <1>8, <1>9, <2>1 DEF Agree
  <2>. QED
    BY <2>1, <2>2, AgreeSame

(* Ranges that are sent alike mean the same. *)
LEMMA RangeTold ==
    ASSUME NEW d, NEW e, d = [f \in DOMAIN d |-> d[f]], e = [f \in DOMAIN e |-> e[f]],
           DOMAIN d = DOMAIN e, "kind" \in DOMAIN d, "range" \in DOMAIN d,
           d.kind # "margin_calculation",
           \A f \in DOMAIN d : f # "range" => d[f] = e[f],
           FromDate(d) = FromDate(e), ToDate(d) = ToDate(e)
    PROVE  Meaning(d) = Meaning(e)
<1>1. e.kind # "margin_calculation"
  OBVIOUS
<1>2. /\ Meaning(d) = [d EXCEPT !.range = <<FromDate(d), ToDate(d)>>]
      /\ Meaning(e) = [e EXCEPT !.range = <<FromDate(e), ToDate(e)>>]
  BY <1>1 DEF Meaning
<1>. DEFINE r == <<FromDate(d), ToDate(d)>>
<1>3. Meaning(d) = [d EXCEPT !.range = r] /\ Meaning(e) = [e EXCEPT !.range = r]
  BY <1>2
<1>. HIDE DEF r
<1>4. [d EXCEPT !.range = r] = [e EXCEPT !.range = r]
  OBVIOUS
<1>. QED
  BY <1>3, <1>4

\* Where a range is given, its bounds are those sent.
LEMMA BoundsTold ==
    ASSUME NEW d, NEW e, d.range \in DateRange, e.range \in DateRange,
           timestamp(d.range[1]) = timestamp(e.range[1]),
           timestamp(d.range[2]) = timestamp(e.range[2])
    PROVE  FromDate(d) = FromDate(e) /\ ToDate(d) = ToDate(e)
<1>1. d.range # None /\ e.range # None
  BY NoneAssumption DEF DateRange
<1>. QED
  BY <1>1 DEF FromDate, ToDate

LEMMA DetailTold ==
    ASSUME NEW d \in OrderDetailNew, NEW e \in OrderDetailNew,
           Endpoint(d).body = Endpoint(e).body
    PROVE  d = e
<1>. DEFINE Body(x) == [exchange_code |-> x.exchange, order_id |-> x.order_id]
<1>1. ASSUME NEW x \in OrderDetailNew PROVE Endpoint(x).body = Ok(Body(x))
  BY DEF OrderDetailNew, Endpoint, OrderDetailRequest, EndpointRequest
<1>2. Body(d) = Body(e)
  <2>. HIDE DEF Body
  <2>. QED
    BY <1>1, OkTold
<1>3. d.exchange = e.exchange /\ d.order_id = e.order_id
  BY <1>2
<1>. QED
  BY <1>3 DEF OrderDetailNew

LEMMA CancelTold ==
    ASSUME NEW d \in CancelOrderNew, NEW e \in CancelOrderNew,
           Endpoint(d).body = Endpoint(e).body
    PROVE  d = e
<1>. DEFINE Body(x) == [order_id |-> x.order_id, exchange_code |-> x.exchange]
<1>1. ASSUME NEW x \in CancelOrderNew PROVE Endpoint(x).body = Ok(Body(x))
  BY DEF CancelOrderNew, Endpoint, CancelOrderRequest, OfClass, EndpointRequest
<1>2. Body(d) = Body(e)
  <2>. HIDE DEF Body
  <2>. QED
    BY <1>1, OkTold
<1>3. d.exchange = e.exchange /\ d.order_id = e.order_id
  BY <1>2
<1>. QED
  BY <1>3 DEF CancelOrderNew

LEMMA RangeBodyTold ==
    ASSUME NEW S \in {ListDrafts, GttListDrafts}, NEW d \in S, NEW e \in S,
           Endpoint(d).body = Endpoint(e).body
    PROVE  Meaning(d) = Meaning(e)
<1>1. ASSUME NEW x \in S
      PROVE  /\ Endpoint(x).body = Ok(RangeBody(x)) /\ x = [f \in DOMAIN x |-> x[f]]
             /\ DOMAIN x = {"kind", "exchange", "range"} /\ x.range \in DateRange
  <2>1. CASE S = ListDrafts
    BY <2>1 DEF ListDrafts, Endpoint, OrderListRequest, EndpointRequest
  <2>2. CASE S = GttListDrafts
    BY <2>2 DEF GttListDrafts, Endpoint, GttOrderListRequest, EndpointRequest
  <2>. QED
    BY <2>1, <2>2
<1>2. d.kind = e.kind /\ d.kind # "margin_calculation"
  <2>1. CASE S = ListDrafts
    BY <2>1 DEF ListDrafts
  <2>2. CASE S = GttListDrafts
    BY <2>2 DEF GttListDrafts
  <2>. QED
    BY <2>1, <2>2
<1>3. RangeBody(d) = RangeBody(e)
  BY <1>1, OkTold
<1>4. /\ d.exchange = e.exchange /\ timestamp(d.range[1]) = timestamp(e.range[1])
      /\ timestamp(d.range[2]) = timestamp(e.range[2])
  BY <1>3 DEF RangeBody
<1>5. FromDate(d) = FromDate(e) /\ ToDate(d) = ToDate(e)
  BY <1>1, <1>4, BoundsTold
<1>6. \A f \in DOMAIN d : f # "range" => d[f] = e[f]
  BY <1>1, <1>2, <1>4
<1>. QED
  BY <1>1, <1>2, <1>5, <1>6, RangeTold

(* Legs, of which there are one or two. *)
LEMMA ShortSeqs ==
    ASSUME NEW S, NEW a \in S, NEW b \in S
    PROVE  <<a>> \in Seq(S) /\ <<a, b>> \in Seq(S)
  OBVIOUS

LEMMA LegsTyped == Legs \subseteq Seq(GttLeg)
<1>1. ASSUME NEW legs \in Singles PROVE legs \in Seq(GttLeg)
  BY ShortSeqs DEF Singles
<1>2. ASSUME NEW legs \in GttLegSet PROVE legs \in Seq(GttLeg)
  <2>1. PICK first \in GttLeg, second \in GttLeg : legs \in cover_oco(first, second)
    BY DEF GttLegSet
  <2>2. legs \in {<<first, second>>, <<second, first>>}
    BY <2>1 DEF cover_oco
  <2>. QED
    BY <2>2, ShortSeqs
<1>. QED
  BY <1>1, <1>2 DEF Legs

LEMMA LegTold ==
    ASSUME NEW a \in GttLeg, NEW b \in GttLeg, wire_leg(a) = wire_leg(b)
    PROVE  a = b
<1>1. /\ a.kind = b.kind /\ a.action = b.action /\ ToString(a.limit) = ToString(b.limit)
      /\ ToString(a.trigger) = ToString(b.trigger)
  BY DEF wire_leg
<1>2. ASSUME NEW x \in GttLeg
      PROVE  /\ x = [kind |-> x.kind, action |-> x.action, limit |-> x.limit,
                     trigger |-> x.trigger]
             /\ x.limit \in Numbers /\ x.trigger \in Numbers
  BY DEF GttLeg, GttLegs, Money, Numbers
<1>3. a.limit = b.limit /\ a.trigger = b.trigger
  BY <1>1, <1>2, TextTold
<1>. QED
  BY <1>1, <1>2, <1>3

LEMMA LegsTold ==
    ASSUME NEW a \in Legs, NEW b \in Legs, wire_legs(a) = wire_legs(b)
    PROVE  a = b
<1>1. a \in Seq(GttLeg) /\ b \in Seq(GttLeg)
  BY LegsTyped
<1>2. DOMAIN a = DOMAIN b /\ \A n \in DOMAIN a : wire_leg(a[n]) = wire_leg(b[n])
  <2>1. DOMAIN wire_legs(a) = DOMAIN a /\ DOMAIN wire_legs(b) = DOMAIN b
    BY DEF wire_legs
  <2>2. /\ \A n \in DOMAIN a : wire_legs(a)[n] = wire_leg(a[n])
        /\ \A n \in DOMAIN b : wire_legs(b)[n] = wire_leg(b[n])
    BY DEF wire_legs
  <2>. QED
    BY <2>1, <2>2
<1>3. \A n \in DOMAIN a : a[n] = b[n]
  BY <1>1, <1>2, LegTold
<1>. QED
  BY <1>1, <1>2, <1>3

LEMMA GttTold ==
    ASSUME NEW d \in GttDrafts, NEW e \in GttDrafts, Builds(d), Builds(e),
           Endpoint(d).body = Endpoint(e).body
    PROVE  d = e
<1>. DEFINE Rest(x) ==
              [exchange_code |-> x.instrument.exchange, stock_code |-> x.instrument.stock_code,
               product |-> product(x.instrument), quantity |-> ToString(x.quantity),
               gtt_type |-> GttType(x.legs), index_or_stock |-> x.index_kind,
               trade_date |-> ToString(x.trade_date), order_details |-> wire_legs(x.legs),
               fresh_order_action |-> x.fresh_action,
               fresh_order_price |-> Number(x.fresh_price, None),
               fresh_order_type |-> IF Len(x.legs) = 1 THEN None ELSE "limit"]
            Parts(x) == Contract(x.instrument, None, "others", "0")
<1>1. ASSUME NEW x \in GttDrafts, Builds(x)
      PROVE  /\ Endpoint(x).body = Ok(compact_json(Joined(Parts(x), Rest(x))))
             /\ x.trade_date # None
  <2>1. x.instrument.expiry # None /\ x.index_kind # None /\ x.trade_date # None
    BY <1>1 DEF GttDrafts, Builds, GttOrderBuild
  <2>2. Endpoint(x) = GttOrderRequest(x)
    BY DEF GttDrafts, Endpoint
  <2>3. GttOrderRequest(x).body = GttMutation("POST", compact_json(GttOrderBody(x))).body
    BY <2>1 DEF GttOrderRequest, GttMutation, OfClass, EndpointRequest
  <2>4. GttMutation("POST", compact_json(GttOrderBody(x))).body = Ok(compact_json(GttOrderBody(x)))
    BY DEF GttMutation, OfClass, EndpointRequest
  <2>5. GttOrderBody(x) = Joined(Parts(x), Rest(x))
    BY DEF GttOrderBody
  <2>. QED
    BY <2>1, <2>2, <2>3, <2>4, <2>5
<1>2. compact_json(Joined(Parts(d), Rest(d))) = compact_json(Joined(Parts(e), Rest(e)))
  <2>. HIDE DEF Rest, Parts
  <2>. QED
    BY <1>1, OkTold
<1>3. ASSUME NEW x
      PROVE  /\ DOMAIN Parts(x) = {"expiry_date", "right", "strike_price"}
             /\ DOMAIN Rest(x) = {"exchange_code", "stock_code", "product", "quantity",
                                  "gtt_type", "index_or_stock", "trade_date", "order_details",
                                  "fresh_order_action", "fresh_order_price",
                                  "fresh_order_type"}
  BY DEF Contract
<1>4. Agree(Parts(d), Parts(e)) /\ Agree(Rest(d), Rest(e))
  <2>. HIDE DEF Rest, Parts
  <2>. QED
    BY <1>2, <1>3, TwoTold
<1>5. /\ d.instrument.exchange = e.instrument.exchange
      /\ d.instrument.stock_code = e.instrument.stock_code
      /\ ToString(d.quantity) = ToString(e.quantity) /\ d.index_kind = e.index_kind
      /\ ToString(d.trade_date) = ToString(e.trade_date)
      /\ wire_legs(d.legs) = wire_legs(e.legs) /\ d.fresh_action = e.fresh_action
      /\ Number(d.fresh_price, None) = Number(e.fresh_price, None)
  BY <1>4 DEF Agree
<1>6. d.instrument = e.instrument
  BY <1>4, <1>5, ContractTold DEF GttDrafts
<1>7. d.quantity = e.quantity
  BY <1>5, TextTold DEF GttDrafts, Quantity, Numbers
<1>8. d.trade_date = e.trade_date
  BY <1>1, <1>5, TextTold DEF GttDrafts, Maybe, Numbers
<1>9. d.fresh_price = e.fresh_price
  BY <1>5, NumberTold DEF GttDrafts, Maybe, Numbers, Money
<1>10. d.legs = e.legs
  BY <1>5, LegsTold DEF GttDrafts
<1>. QED
  <2>1. ASSUME NEW x \in GttDrafts
        PROVE  /\ x = [f \in DOMAIN x |-> x[f]] /\ x.kind = "gtt"
               /\ DOMAIN x = {"kind", "instrument", "quantity", "fresh_action", "fresh_price",
                              "legs", "index_kind", "trade_date"}
    BY DEF GttDrafts
  <2>2. Agree(d, e)
    BY <1>5, <1>6, <1>7, <1>8, <1>9, <1>10, <2>1 DEF Agree
  <2>. QED
    BY <2>1, <2>2, AgreeSame

LEMMA GttCancelTold ==
    ASSUME NEW d \in GttCancelDrafts, NEW e \in GttCancelDrafts,
           Endpoint(d).body = Endpoint(e).body
    PROVE  d = e
<1>. DEFINE Body(x) == [gtt_order_id |-> x.order_id, exchange_code |-> x.exchange]
<1>1. ASSUME NEW x \in GttCancelDrafts PROVE Endpoint(x).body = Ok(Body(x))
  BY DEF GttCancelDrafts, Endpoint, CancelGttOrderRequest, GttMutation, OfClass, EndpointRequest
<1>2. Body(d) = Body(e)
  <2>. HIDE DEF Body
  <2>. QED
    BY <1>1, OkTold
<1>3. d.exchange = e.exchange /\ d.order_id = e.order_id
  BY <1>2
<1>. QED
  BY <1>3 DEF GttCancelDrafts

LEMMA GttModifyTold ==
    ASSUME NEW d \in GttModifyDrafts, NEW e \in GttModifyDrafts,
           Endpoint(d).body = Endpoint(e).body
    PROVE  d = e
<1>. DEFINE Body(x) == [exchange_code |-> x.exchange, gtt_order_id |-> x.order_id,
                        gtt_type |-> GttType(x.legs), order_details |-> wire_legs(x.legs)]
<1>1. ASSUME NEW x \in GttModifyDrafts
      PROVE  Endpoint(x).body = Ok(Body(x))
  BY DEF GttModifyDrafts, Endpoint, ModifyGttOrderRequest, GttMutation, OfClass, EndpointRequest
<1>2. Body(d) = Body(e)
  <2>. HIDE DEF Body
  <2>. QED
    BY <1>1, OkTold
<1>3. d.exchange = e.exchange /\ d.order_id = e.order_id /\ wire_legs(d.legs) = wire_legs(e.legs)
  BY <1>2
<1>4. d.legs = e.legs
  BY <1>3, LegsTold DEF GttModifyDrafts
<1>. QED
  BY <1>3, <1>4 DEF GttModifyDrafts

LEMMA InstrumentBodyTold ==
    ASSUME NEW i \in Instrument, NEW j \in Instrument,
           Agree(InstrumentBody(i), InstrumentBody(j))
    PROVE  i = j
<1>. DEFINE Lead(x) == [stock_code |-> x.stock_code, exchange_code |-> x.exchange,
                        product_type |-> product(x)]
            Parts(x) == Contract(x, None, None, None)
<1>1. InstrumentBody(i) = Joined(Lead(i), Parts(i)) /\ InstrumentBody(j) = Joined(Lead(j), Parts(j))
  BY DEF InstrumentBody
<1>2. ASSUME NEW x
      PROVE  /\ DOMAIN Lead(x) = {"stock_code", "exchange_code", "product_type"}
             /\ DOMAIN Parts(x) = {"expiry_date", "right", "strike_price"}
  BY DEF Contract
<1>3. Agree(Lead(i), Lead(j)) /\ Agree(Parts(i), Parts(j))
  <2>. HIDE DEF Lead, Parts
  <2>. QED
    BY <1>1, <1>2, JoinedTold
<1>4. i.stock_code = j.stock_code /\ i.exchange = j.exchange
  BY <1>3 DEF Agree
<1>. QED
  BY <1>3, <1>4, ContractTold

LEMMA InstrumentBodyFields ==
    ASSUME NEW i
    PROVE  DOMAIN InstrumentBody(i) = {"stock_code", "exchange_code", "product_type",
                                       "expiry_date", "right", "strike_price"}
<1>. DEFINE Lead == [stock_code |-> i.stock_code, exchange_code |-> i.exchange,
                     product_type |-> product(i)]
<1>1. DOMAIN InstrumentBody(i) = DOMAIN Lead \cup DOMAIN Contract(i, None, None, None)
  BY JoinedFields DEF InstrumentBody
<1>. QED
  BY <1>1 DEF Contract

LEMMA QuoteTold ==
    ASSUME NEW d \in QuoteNew, NEW e \in QuoteNew, Endpoint(d).body = Endpoint(e).body
    PROVE  d = e
<1>1. ASSUME NEW x \in QuoteNew
      PROVE  /\ Endpoint(x).body = Ok(compact_json(InstrumentBody(x.instrument)))
             /\ x.instrument \in Instrument
  BY DEF QuoteNew, Endpoint, QuoteRequest, EndpointRequest
<1>2. compact_json(InstrumentBody(d.instrument)) = compact_json(InstrumentBody(e.instrument))
  BY <1>1, OkTold
<1>3. Agree(InstrumentBody(d.instrument), InstrumentBody(e.instrument))
  <2>1. DOMAIN InstrumentBody(d.instrument) = DOMAIN InstrumentBody(e.instrument)
    BY InstrumentBodyFields
  <2>. QED
    BY <1>2, <2>1, CompactTold DEF Agree
<1>4. d.instrument = e.instrument
  BY <1>1, <1>3, InstrumentBodyTold
<1>. QED
  BY <1>4 DEF QuoteNew

(* Each protocol has words of its own for the intervals. *)
LEMMA IntervalTold ==
    ASSUME NEW a \in Interval, NEW b \in Interval, v1_wire(a) = v1_wire(b) \/ v2_wire(a) = v2_wire(b)
    PROVE  a = b
  BY DEF Interval, v1_wire, v2_wire

LEMMA BarsTold ==
    ASSUME NEW d \in HistoricalDrafts("historical_v1"),
           NEW e \in HistoricalDrafts("historical_v1"), Endpoint(d).body = Endpoint(e).body
    PROVE  Meaning(d) = Meaning(e)
<1>. DEFINE Lead(x) == InstrumentBody(x.instrument)
            Rest(x) == [interval |-> v1_wire(x.interval), from_date |-> timestamp(x.range[1]),
                        to_date |-> timestamp(x.range[2])]
<1>1. ASSUME NEW x \in HistoricalDrafts("historical_v1")
      PROVE  /\ Endpoint(x).body = Ok(compact_json(Joined(Lead(x), Rest(x))))
             /\ x = [f \in DOMAIN x |-> x[f]] /\ x.kind = "historical_v1"
             /\ DOMAIN x = {"kind", "interval", "range", "instrument"}
             /\ x.interval \in Interval /\ x.range \in DateRange /\ x.instrument \in Instrument
  BY DEF HistoricalDrafts, Endpoint, HistoricalV1Request, BarsBody, EndpointRequest
<1>2. compact_json(Joined(Lead(d), Rest(d))) = compact_json(Joined(Lead(e), Rest(e)))
  <2>. HIDE DEF Lead, Rest
  <2>. QED
    BY <1>1, OkTold
<1>3. ASSUME NEW x
      PROVE  /\ DOMAIN Lead(x) = {"stock_code", "exchange_code", "product_type",
                                  "expiry_date", "right", "strike_price"}
             /\ DOMAIN Rest(x) = {"interval", "from_date", "to_date"}
  BY InstrumentBodyFields
<1>4. Agree(Lead(d), Lead(e)) /\ Agree(Rest(d), Rest(e))
  <2>. HIDE DEF Lead, Rest
  <2>. QED
    BY <1>2, <1>3, TwoTold
<1>5. d.instrument = e.instrument
  BY <1>1, <1>4, InstrumentBodyTold
<1>6. /\ v1_wire(d.interval) = v1_wire(e.interval)
      /\ timestamp(d.range[1]) = timestamp(e.range[1])
      /\ timestamp(d.range[2]) = timestamp(e.range[2])
  BY <1>4 DEF Agree
<1>7. d.interval = e.interval
  BY <1>1, <1>6, IntervalTold
<1>8. FromDate(d) = FromDate(e) /\ ToDate(d) = ToDate(e)
  BY <1>1, <1>6, BoundsTold
<1>9. \A f \in DOMAIN d : f # "range" => d[f] = e[f]
  BY <1>1, <1>5, <1>7
<1>. QED
  BY <1>1, <1>8, <1>9, RangeTold

LEMMA QueryTold ==
    ASSUME NEW d \in HistoricalDrafts("historical_v2"),
           NEW e \in HistoricalDrafts("historical_v2"), Endpoint(d).query = Endpoint(e).query
    PROVE  Meaning(d) = Meaning(e)
<1>. DEFINE Lead(x) ==
              [interval |-> v2_wire(x.interval), from_date |-> timestamp(x.range[1]),
               to_date |-> timestamp(x.range[2]), stock_code |-> x.instrument.stock_code,
               exch_code |-> x.instrument.exchange, product_type |-> product(x.instrument)]
            Parts(x) == Contract(x.instrument, None, None, None)
<1>1. ASSUME NEW x \in HistoricalDrafts("historical_v2")
      PROVE  /\ Endpoint(x).query = compact_json(Joined(Lead(x), Parts(x)))
             /\ x = [f \in DOMAIN x |-> x[f]] /\ x.kind = "historical_v2"
             /\ DOMAIN x = {"kind", "interval", "range", "instrument"}
             /\ x.interval \in Interval /\ x.range \in DateRange /\ x.instrument \in Instrument
  BY DEF HistoricalDrafts, Endpoint, HistoricalV2Request, BarsQuery, EndpointRequest
<1>2. compact_json(Joined(Lead(d), Parts(d))) = compact_json(Joined(Lead(e), Parts(e)))
  <2>. HIDE DEF Lead, Parts
  <2>. QED
    BY <1>1
<1>3. ASSUME NEW x
      PROVE  /\ DOMAIN Lead(x) = {"interval", "from_date", "to_date", "stock_code",
                                  "exch_code", "product_type"}
             /\ DOMAIN Parts(x) = {"expiry_date", "right", "strike_price"}
  BY DEF Contract
<1>4. Agree(Lead(d), Lead(e)) /\ Agree(Parts(d), Parts(e))
  <2>. HIDE DEF Lead, Parts
  <2>. QED
    BY <1>2, <1>3, TwoTold
<1>5. /\ v2_wire(d.interval) = v2_wire(e.interval)
      /\ timestamp(d.range[1]) = timestamp(e.range[1])
      /\ timestamp(d.range[2]) = timestamp(e.range[2])
      /\ d.instrument.stock_code = e.instrument.stock_code
      /\ d.instrument.exchange = e.instrument.exchange
  BY <1>4 DEF Agree
<1>6. d.instrument = e.instrument
  BY <1>1, <1>4, <1>5, ContractTold
<1>7. d.interval = e.interval
  BY <1>1, <1>5, IntervalTold
<1>8. FromDate(d) = FromDate(e) /\ ToDate(d) = ToDate(e)
  BY <1>1, <1>5, BoundsTold
<1>9. \A f \in DOMAIN d : f # "range" => d[f] = e[f]
  BY <1>1, <1>6, <1>7
<1>. QED
  BY <1>1, <1>8, <1>9, RangeTold

LEMMA ChainTold ==
    ASSUME NEW d \in ChainDrafts, NEW e \in ChainDrafts, Endpoint(d).body = Endpoint(e).body
    PROVE  d = e
<1>. DEFINE Lead(x) == [stock_code |-> x.stock_code, exchange_code |-> x.exchange,
                        product_type |-> x.product]
            Parts(x) == Contract(x, None, None, None)
<1>1. ASSUME NEW x \in ChainDrafts
      PROVE  Endpoint(x).body = Ok(compact_json(Joined(Lead(x), Parts(x))))
  BY DEF ChainDrafts, Endpoint, OptionChainRequest, OptionChainBody, EndpointRequest
<1>2. compact_json(Joined(Lead(d), Parts(d))) = compact_json(Joined(Lead(e), Parts(e)))
  <2>. HIDE DEF Lead, Parts
  <2>. QED
    BY <1>1, OkTold
<1>3. ASSUME NEW x
      PROVE  /\ DOMAIN Lead(x) = {"stock_code", "exchange_code", "product_type"}
             /\ DOMAIN Parts(x) = {"expiry_date", "right", "strike_price"}
  BY DEF Contract
<1>4. Agree(Lead(d), Lead(e)) /\ Agree(Parts(d), Parts(e))
  <2>. HIDE DEF Lead, Parts
  <2>. QED
    BY <1>2, <1>3, TwoTold
<1>5. d.stock_code = e.stock_code /\ d.exchange = e.exchange /\ d.product = e.product
  BY <1>4 DEF Agree
<1>6. /\ Number(d.expiry, None) = Number(e.expiry, None) /\ Or(d.right, None) = Or(e.right, None)
      /\ Number(d.strike, None) = Number(e.strike, None)
  BY <1>4 DEF Agree, Contract
<1>7. d.expiry = e.expiry /\ d.strike = e.strike
  BY <1>6, NumberTold DEF ChainDrafts, Maybe, Numbers, Money
<1>8. d.right = e.right
  BY <1>6 DEF Or
<1>. QED
  BY <1>5, <1>7, <1>8 DEF ChainDrafts

LEMMA HoldingsTold ==
    ASSUME NEW d \in HoldingsDrafts, NEW e \in HoldingsDrafts,
           Endpoint(d).body = Endpoint(e).body
    PROVE  Meaning(d) = Meaning(e)
<1>. DEFINE Body(x) ==
              [exchange_code |-> x.exchange, from_date |-> FromDate(x), to_date |-> ToDate(x),
               stock_code |-> x.stock_code, portfolio_type |-> x.portfolio_type]
<1>1. ASSUME NEW x \in HoldingsDrafts
      PROVE  /\ Endpoint(x).body = Ok(compact_json(Body(x)))
             /\ x = [f \in DOMAIN x |-> x[f]] /\ x.kind = "holdings"
             /\ DOMAIN x = {"kind", "exchange", "range", "stock_code", "portfolio_type"}
  BY DEF HoldingsDrafts, Endpoint, HoldingsRequest, EndpointRequest
<1>2. \A f \in DOMAIN Body(d) : Body(d)[f] = Body(e)[f]
  <2>1. DOMAIN Body(d) = DOMAIN Body(e)
    OBVIOUS
  <2>. HIDE DEF Body
  <2>2. compact_json(Body(d)) = compact_json(Body(e))
    BY <1>1, OkTold
  <2>. QED
    BY <2>1, <2>2, CompactTold
<1>3. /\ d.exchange = e.exchange /\ FromDate(d) = FromDate(e) /\ ToDate(d) = ToDate(e)
      /\ d.stock_code = e.stock_code /\ d.portfolio_type = e.portfolio_type
  BY <1>2
<1>4. \A f \in DOMAIN d : f # "range" => d[f] = e[f]
  BY <1>1, <1>3
<1>. QED
  BY <1>1, <1>3, <1>4, RangeTold

LEMMA TradesTold ==
    ASSUME NEW d \in TradesDrafts, NEW e \in TradesDrafts, Endpoint(d).body = Endpoint(e).body
    PROVE  Meaning(d) = Meaning(e)
<1>. DEFINE Body(x) ==
              [from_date |-> FromDate(x), to_date |-> ToDate(x), exchange_code |-> x.exchange,
               product_type |-> x.product, action |-> x.action, stock_code |-> x.stock_code]
<1>1. ASSUME NEW x \in TradesDrafts
      PROVE  /\ Endpoint(x).body = Ok(compact_json(Body(x)))
             /\ x = [f \in DOMAIN x |-> x[f]] /\ x.kind = "trades"
             /\ DOMAIN x = {"kind", "exchange", "range", "product", "action", "stock_code"}
  BY DEF TradesDrafts, Endpoint, TradeListRequest, EndpointRequest
<1>2. \A f \in DOMAIN Body(d) : Body(d)[f] = Body(e)[f]
  <2>1. DOMAIN Body(d) = DOMAIN Body(e)
    OBVIOUS
  <2>. HIDE DEF Body
  <2>2. compact_json(Body(d)) = compact_json(Body(e))
    BY <1>1, OkTold
  <2>. QED
    BY <2>1, <2>2, CompactTold
<1>3. /\ d.exchange = e.exchange /\ FromDate(d) = FromDate(e) /\ ToDate(d) = ToDate(e)
      /\ d.product = e.product /\ d.action = e.action /\ d.stock_code = e.stock_code
  BY <1>2
<1>4. \A f \in DOMAIN d : f # "range" => d[f] = e[f]
  BY <1>1, <1>3
<1>. QED
  BY <1>1, <1>3, <1>4, RangeTold

LEMMA TradeDetailTold ==
    ASSUME NEW d \in TradeDetailNew, NEW e \in TradeDetailNew,
           Endpoint(d).body = Endpoint(e).body
    PROVE  d = e
<1>. DEFINE Body(x) == [exchange_code |-> x.exchange, order_id |-> x.order_id]
<1>1. ASSUME NEW x \in TradeDetailNew PROVE Endpoint(x).body = Ok(Body(x))
  BY DEF TradeDetailNew, Endpoint, TradeDetailRequest, EndpointRequest
<1>2. Body(d) = Body(e)
  <2>. HIDE DEF Body
  <2>. QED
    BY <1>1, OkTold
<1>3. d.exchange = e.exchange /\ d.order_id = e.order_id
  BY <1>2
<1>. QED
  BY <1>3 DEF TradeDetailNew

LEMMA CustomerTold ==
    ASSUME NEW d \in CustomerDetailsNew, NEW e \in CustomerDetailsNew,
           Endpoint(d).body = Endpoint(e).body
    PROVE  d = e
<1>. DEFINE Body(x) == [SessionToken |-> x.api_session, AppKey |-> x.app_key]
<1>1. ASSUME NEW x \in CustomerDetailsNew PROVE Endpoint(x).body = Ok(Body(x))
  BY DEF CustomerDetailsNew, Endpoint, CustomerDetailsRequest, EndpointRequest
<1>2. Body(d) = Body(e)
  <2>. HIDE DEF Body
  <2>. QED
    BY <1>1, OkTold
<1>3. d.api_session = e.api_session /\ d.app_key = e.app_key
  BY <1>2
<1>. QED
  BY <1>3 DEF CustomerDetailsNew

LEMMA SetFundsTold ==
    ASSUME NEW d \in SetFundsNew, NEW e \in SetFundsNew, Endpoint(d).body = Endpoint(e).body
    PROVE  d = e
<1>. DEFINE Body(x) == [transaction_type |-> x.transaction, amount |-> ToString(x.amount),
                        segment |-> x.segment]
<1>1. ASSUME NEW x \in SetFundsNew PROVE Endpoint(x).body = Ok(Body(x))
  BY DEF SetFundsNew, Endpoint, SetFundsRequest, OfClass, EndpointRequest
<1>2. Body(d) = Body(e)
  <2>. HIDE DEF Body
  <2>. QED
    BY <1>1, OkTold
<1>3. /\ d.transaction = e.transaction /\ ToString(d.amount) = ToString(e.amount)
      /\ d.segment = e.segment
  BY <1>2
<1>4. d.amount = e.amount
  BY <1>3, TextTold DEF SetFundsNew, Quantity, Numbers
<1>. QED
  BY <1>3, <1>4 DEF SetFundsNew

LEMMA MarginTold ==
    ASSUME NEW d \in GetMarginNew, NEW e \in GetMarginNew, Endpoint(d).body = Endpoint(e).body
    PROVE  d = e
<1>. DEFINE Body(x) == [exchange_code |-> x.exchange]
<1>1. ASSUME NEW x \in GetMarginNew PROVE Endpoint(x).body = Ok(Body(x))
  BY DEF GetMarginNew, Endpoint, GetMarginRequest, EndpointRequest
<1>2. Body(d) = Body(e)
  <2>. HIDE DEF Body
  <2>. QED
    BY <1>1, OkTold
<1>3. d.exchange = e.exchange
  BY <1>2
<1>. QED
  BY <1>3 DEF GetMarginNew

LEMMA LimitPriceTold ==
    ASSUME NEW d \in LimitPriceDrafts, NEW e \in LimitPriceDrafts, Builds(d), Builds(e),
           Endpoint(d).body = Endpoint(e).body
    PROVE  d = e
<1>1. ASSUME NEW x \in LimitPriceDrafts, Builds(x)
      PROVE  /\ Endpoint(x).body = Ok(LimitPriceBody(x)) /\ x.stop_loss_trigger \in Money
             /\ x.fresh_order_limit \in Money
  BY <1>1 DEF LimitPriceDrafts, Endpoint, LimitPriceRequest, EndpointRequest, Builds,
              LimitPriceBuild, Maybe
<1>2. LimitPriceBody(d) = LimitPriceBody(e)
  BY <1>1, OkTold
<1>3. /\ Number(d.instrument.strike, "0") = Number(e.instrument.strike, "0")
      /\ Number(d.instrument.expiry, "") = Number(e.instrument.expiry, "")
      /\ Or(d.instrument.right, "others") = Or(e.instrument.right, "others")
      /\ d.instrument.stock_code = e.instrument.stock_code
      /\ d.instrument.exchange = e.instrument.exchange
      /\ d.product = e.product /\ d.action = e.action /\ d.source_flag = e.source_flag
      /\ ToString(d.stop_loss_trigger) = ToString(e.stop_loss_trigger)
      /\ ToString(d.fresh_order_limit) = ToString(e.fresh_order_limit)
      /\ Number(d.limit_rate, "") = Number(e.limit_rate, "")
      /\ Or(d.order_reference, "") = Or(e.order_reference, "")
      /\ Number(d.available_quantity, "") = Number(e.available_quantity, "")
  BY <1>2 DEF LimitPriceBody
<1>4. d.instrument = e.instrument
  <2>1. Agree(Contract(d.instrument, "", "others", "0"), Contract(e.instrument, "", "others", "0"))
    BY <1>3 DEF Agree, Contract
  <2>. QED
    BY <1>3, <2>1, ContractTold DEF LimitPriceDrafts
<1>5. /\ d.stop_loss_trigger = e.stop_loss_trigger
      /\ d.fresh_order_limit = e.fresh_order_limit
  BY <1>1, <1>3, TextTold DEF Money, Numbers
<1>6. d.limit_rate = e.limit_rate /\ d.available_quantity = e.available_quantity
  BY <1>3, NumberTold DEF LimitPriceDrafts, Maybe, Numbers, Money, Count
<1>7. d.order_reference = e.order_reference
  <2>1. "" \notin OrderId
    BY DEF OrderId
  <2>2. {d.order_reference, e.order_reference} \subseteq Maybe(OrderId)
    BY DEF LimitPriceDrafts
  <2>. QED
    BY <1>3, <2>1, <2>2, WordTold
<1>. QED
  <2>1. ASSUME NEW x \in LimitPriceDrafts
        PROVE  /\ x = [f \in DOMAIN x |-> x[f]] /\ x.kind = "limit_price"
               /\ DOMAIN x = {"kind", "instrument", "action", "product", "stop_loss_trigger",
                              "source_flag", "limit_rate", "order_reference",
                              "available_quantity", "fresh_order_limit"}
    BY DEF LimitPriceDrafts
  <2>2. Agree(d, e)
    BY <1>3, <1>4, <1>5, <1>6, <1>7, <2>1 DEF Agree
  <2>. QED
    BY <2>1, <2>2, AgreeSame

(* The n-th positions of calculations for one exchange. *)
LEMMA PositionTold ==
    ASSUME NEW p \in Positions, NEW q \in Positions,
           p.instrument.exchange = q.instrument.exchange, wire_position(p) = wire_position(q)
    PROVE  Chosen(p) = Chosen(q)
<1>. DEFINE Cover(x, value) == IF x.include_cover_fields THEN value ELSE None
            Rest(x) ==
              [quantity |-> ToString(x.quantity), product |-> product(x.instrument),
               action |-> x.action, price |-> ToString(x.price),
               stock_code |-> x.instrument.stock_code,
               cover_order_flow |-> Cover(x, Or(x.cover_order_flow, "N")),
               fresh_order_type |-> Cover(x, Or(x.fresh_order_type, "N")),
               cover_limit_rate |-> Cover(x, Number(x.cover_limit_rate, "0")),
               cover_sltp_price |-> Cover(x, Number(x.cover_sltp_price, "0")),
               fresh_limit_rate |-> Cover(x, Number(x.fresh_limit_rate, "0")),
               open_quantity |-> Cover(x, ToString(x.open_quantity))]
            Parts(x) == Contract(x.instrument, "", "others", "0")
<1>1. ASSUME NEW x PROVE wire_position(x) = compact_json(Joined(Parts(x), Rest(x)))
  BY DEF wire_position, PositionBody
<1>2. ASSUME NEW x
      PROVE  /\ DOMAIN Parts(x) = {"expiry_date", "right", "strike_price"}
             /\ DOMAIN Rest(x) = {"quantity", "product", "action", "price", "stock_code",
                                  "cover_order_flow", "fresh_order_type", "cover_limit_rate",
                                  "cover_sltp_price", "fresh_limit_rate", "open_quantity"}
  BY DEF Contract
<1>3. Agree(Parts(p), Parts(q)) /\ Agree(Rest(p), Rest(q))
  <2>. HIDE DEF Rest, Parts
  <2>. QED
    BY <1>1, <1>2, TwoTold
<1>4. ASSUME NEW x \in Positions
      PROVE  /\ x.instrument \in Instrument /\ x.quantity \in Numbers /\ x.price \in Numbers
             /\ x.open_quantity \in Numbers
             /\ x.include_cover_fields \in BOOLEAN
             /\ x.cover_order_flow \in Maybe(Action) /\ x.fresh_order_type \in Maybe(OrderType)
             /\ x.cover_limit_rate \in Maybe(Numbers) /\ x.cover_sltp_price \in Maybe(Numbers)
             /\ x.fresh_limit_rate \in Maybe(Numbers)
  BY DEF Positions, PositionFields, Numbers, Quantity, Money, Count, Maybe
<1>5. /\ ToString(p.quantity) = ToString(q.quantity) /\ ToString(p.price) = ToString(q.price)
      /\ p.action = q.action /\ p.instrument.stock_code = q.instrument.stock_code
      /\ Cover(p, ToString(p.open_quantity)) = Cover(q, ToString(q.open_quantity))
      /\ Cover(p, Or(p.cover_order_flow, "N")) = Cover(q, Or(q.cover_order_flow, "N"))
      /\ Cover(p, Or(p.fresh_order_type, "N")) = Cover(q, Or(q.fresh_order_type, "N"))
      /\ Cover(p, Number(p.cover_limit_rate, "0")) = Cover(q, Number(q.cover_limit_rate, "0"))
      /\ Cover(p, Number(p.cover_sltp_price, "0")) = Cover(q, Number(q.cover_sltp_price, "0"))
      /\ Cover(p, Number(p.fresh_limit_rate, "0")) = Cover(q, Number(q.fresh_limit_rate, "0"))
  <2>. HIDE DEF Cover
  <2>. QED
    BY <1>3 DEF Agree
<1>6. p.quantity = q.quantity /\ p.price = q.price
  BY <1>4, <1>5, TextTold
<1>7. p.instrument = q.instrument
  BY <1>3, <1>4, <1>5, ContractTold
<1>8. p.include_cover_fields = q.include_cover_fields
  BY <1>4, <1>5, TextAssumption DEF Numbers
<1>. DEFINE Fields == {"instrument", "action", "quantity", "price", "open_quantity",
                       "include_cover_fields", "cover_order_flow", "fresh_order_type",
                       "cover_limit_rate", "cover_sltp_price", "fresh_limit_rate"}
<1>9. ASSUME NEW x \in Positions
      PROVE  x = [f \in DOMAIN x |-> x[f]] /\ DOMAIN x = Fields
  BY DEF Positions, PositionFields
<1>10. CASE p.include_cover_fields
  <2>1. p.open_quantity = q.open_quantity
    BY <1>4, <1>5, <1>8, <1>10, TextTold
  <2>2. p.cover_order_flow = q.cover_order_flow
    <3>1. "N" \notin Action
      BY DEF Action, Rules!Actions
    <3>. QED
      BY <1>4, <1>5, <1>8, <1>10, <3>1, WordTold
  <2>3. p.fresh_order_type = q.fresh_order_type
    <3>1. "N" \notin OrderType
      BY DEF OrderType, Rules!OrderTypes
    <3>. QED
      BY <1>4, <1>5, <1>8, <1>10, <3>1, WordTold
  <2>4. /\ Or(p.cover_limit_rate, 0) = Or(q.cover_limit_rate, 0)
        /\ Or(p.cover_sltp_price, 0) = Or(q.cover_sltp_price, 0)
        /\ Or(p.fresh_limit_rate, 0) = Or(q.fresh_limit_rate, 0)
    BY <1>4, <1>5, <1>8, <1>10, ZeroTold
  <2>5. ASSUME NEW x \in Positions, x.include_cover_fields
        PROVE  Chosen(x) = [x EXCEPT !.cover_limit_rate = Or(x.cover_limit_rate, 0),
                                     !.cover_sltp_price = Or(x.cover_sltp_price, 0),
                                     !.fresh_limit_rate = Or(x.fresh_limit_rate, 0)]
    BY <2>5, <1>9 DEF Chosen
  <2>6. ASSUME NEW x \in Positions, x.include_cover_fields
        PROVE  /\ Chosen(x) = [f \in Fields |-> Chosen(x)[f]]
               /\ DOMAIN Chosen(x) = Fields
               /\ Chosen(x).cover_limit_rate = Or(x.cover_limit_rate, 0)
               /\ Chosen(x).cover_sltp_price = Or(x.cover_sltp_price, 0)
               /\ Chosen(x).fresh_limit_rate = Or(x.fresh_limit_rate, 0)
               /\ \A f \in Fields \ {"cover_limit_rate", "cover_sltp_price",
                                     "fresh_limit_rate"} : Chosen(x)[f] = x[f]
    BY <2>5, <2>6, <1>9
  <2>7. \A f \in Fields : Chosen(p)[f] = Chosen(q)[f]
    <3>1. \A f \in {"cover_limit_rate", "cover_sltp_price", "fresh_limit_rate"} :
            Chosen(p)[f] = Chosen(q)[f]
      BY <1>8, <1>10, <2>4, <2>6
    <3>2. \A f \in Fields \ {"cover_limit_rate", "cover_sltp_price", "fresh_limit_rate"} :
            p[f] = q[f]
      BY <1>5, <1>6, <1>7, <1>8, <2>1, <2>2, <2>3
    <3>3. \A f \in Fields \ {"cover_limit_rate", "cover_sltp_price", "fresh_limit_rate"} :
            Chosen(p)[f] = p[f] /\ Chosen(q)[f] = q[f]
      BY <1>8, <1>10, <2>6
    <3>. QED
      BY <3>1, <3>2, <3>3
  <2>. QED
    BY <1>8, <1>10, <2>6, <2>7, AgreeSame DEF Agree
<1>11. CASE ~ p.include_cover_fields
  <2>1. ASSUME NEW x \in Positions, ~ x.include_cover_fields
        PROVE  /\ x.open_quantity = 0 /\ x.cover_order_flow = None
               /\ x.fresh_order_type = None /\ x.cover_limit_rate = None
               /\ x.cover_sltp_price = None /\ x.fresh_limit_rate = None
    BY <2>1 DEF Positions
  <2>2. \A f \in Fields : p[f] = q[f]
    BY <1>5, <1>6, <1>7, <1>8, <1>11, <2>1
  <2>3. p = q
    BY <1>9, <2>2, AgreeSame DEF Agree
  <2>. QED
    BY <2>3
<1>. QED
  BY <1>4, <1>10, <1>11

LEMMA CalculationTold ==
    ASSUME NEW d \in CalculationDrafts, NEW e \in CalculationDrafts,
           Endpoint(d).body = Endpoint(e).body, Endpoint(d).body.is = "Ok"
    PROVE  Meaning(d) = Meaning(e)
<1>. DEFINE Wires(x) == [n \in DOMAIN x.positions |-> wire_position(x.positions[n])]
            Body(x) == [list_of_positions |-> Wires(x),
                        exchange_code |-> x.positions[1].instrument.exchange]
<1>1. ASSUME NEW x \in CalculationDrafts, Endpoint(x).body.is = "Ok"
      PROVE  /\ Endpoint(x).body = Ok(Body(x)) /\ x.positions # <<>>
             /\ \A a, b \in ExchangesOf(x) : a = b
  <2>1. Endpoint(x).body = IF x.positions = <<>> THEN Panic
                           ELSE IF \E a, b \in ExchangesOf(x) : a # b THEN Err
                           ELSE Ok(Body(x))
    <3>1. x.kind = "margin_calculation"
      BY DEF CalculationDrafts
    <3>2. Endpoint(x) = MarginCalculationRequest(x)
      BY <3>1 DEF Endpoint
    <3>. QED
      BY <3>2 DEF MarginCalculationRequest, EndpointRequest
  <2>. HIDE DEF Body
  <2>. QED
    BY <1>1, <2>1 DEF Panic, Err
<1>2. Body(d) = Body(e)
  <2>. HIDE DEF Body
  <2>. QED
    BY <1>1, OkTold
<1>3. Wires(d) = Wires(e) /\ d.positions[1].instrument.exchange = e.positions[1].instrument.exchange
  <2>. HIDE DEF Wires
  <2>. QED
    BY <1>2
<1>4. /\ DOMAIN d.positions = DOMAIN e.positions
      /\ \A n \in DOMAIN d.positions :
            wire_position(d.positions[n]) = wire_position(e.positions[n])
  <2>1. DOMAIN Wires(d) = DOMAIN d.positions /\ DOMAIN Wires(e) = DOMAIN e.positions
    OBVIOUS
  <2>2. /\ \A n \in DOMAIN d.positions : Wires(d)[n] = wire_position(d.positions[n])
        /\ \A n \in DOMAIN e.positions : Wires(e)[n] = wire_position(e.positions[n])
    OBVIOUS
  <2>. HIDE DEF Wires
  <2>. QED
    BY <1>3, <2>1, <2>2
<1>5. ASSUME NEW x \in CalculationDrafts, Endpoint(x).body.is = "Ok", NEW n \in DOMAIN x.positions
      PROVE  /\ x.positions[n] \in Positions
             /\ x.positions[n].instrument.exchange = x.positions[1].instrument.exchange
  <2>1. x.positions \in Seq(Positions) /\ x.positions # <<>>
    BY <1>1, <1>5 DEF CalculationDrafts
  <2>2. 1 \in DOMAIN x.positions
    BY <2>1
  <2>3. /\ x.positions[n].instrument.exchange \in ExchangesOf(x)
        /\ x.positions[1].instrument.exchange \in ExchangesOf(x)
    BY <1>5, <2>2 DEF ExchangesOf
  <2>4. x.positions[n] \in Positions
    BY <1>5, <2>1
  <2>. QED
    BY <1>1, <1>5, <2>3, <2>4
<1>6. ASSUME NEW n \in DOMAIN d.positions
      PROVE  Chosen(d.positions[n]) = Chosen(e.positions[n])
  BY <1>3, <1>4, <1>5, PositionTold
<1>7. ASSUME NEW x \in CalculationDrafts
      PROVE  Meaning(x) = [n \in DOMAIN x.positions |-> Chosen(x.positions[n])]
  BY DEF Meaning, CalculationDrafts
<1>. QED
  BY <1>4, <1>6, <1>7

----------------------------------------------------------------------------
(* A draft, and the same with another value.                               *)

Told(d, e) ==
    Builds(d) /\ Builds(e) /\ Endpoint(d).body.is = "Ok"
        /\ prepare_request(Endpoint(d)) = prepare_request(Endpoint(e))
    => Meaning(d) = Meaning(e)

VariantsTold(d) ==
    /\ DOMAIN SettersOf(d) \subseteq DOMAIN d
    /\ \A f \in Varied(d, SettersOf(d)) : \A v \in Values(f, SettersOf(d)) :
        [d EXCEPT ![f] = v] \in Drafts /\ Told(d, [d EXCEPT ![f] = v])

LEMMA ByBody ==
    ASSUME NEW d, NEW e,
           Builds(d) /\ Builds(e) /\ Endpoint(d).body = Endpoint(e).body => Meaning(d) = Meaning(e)
    PROVE  Told(d, e)
  BY DEF Told, prepare_request

LEMMA ByQuery ==
    ASSUME NEW d, NEW e, Endpoint(d).query = Endpoint(e).query => Meaning(d) = Meaning(e)
    PROVE  Told(d, e)
  BY DEF Told, prepare_request

(* A set of drafts that is closed, and whose members are told apart. *)
LEMMA ByKind ==
    ASSUME NEW S, S \subseteq Drafts, NEW d, NEW setters, SettersOf(d) = setters,
           DOMAIN setters \subseteq DOMAIN d,
           \A f \in Varied(d, setters) : \A v \in Values(f, setters) : [d EXCEPT ![f] = v] \in S,
           \A e \in S : Told(d, e)
    PROVE  VariantsTold(d)
  BY DEF VariantsTold

LEMMA DraftsUnited ==
    /\ PlaceDrafts \subseteq Drafts /\ ModifyDrafts \subseteq Drafts
    /\ SquareOffDrafts \subseteq Drafts /\ PreviewDrafts \subseteq Drafts
    /\ GttDrafts \subseteq Drafts /\ GttListDrafts \subseteq Drafts
    /\ GttCancelDrafts \subseteq Drafts /\ GttModifyDrafts \subseteq Drafts
    /\ ChainDrafts \subseteq Drafts /\ HoldingsDrafts \subseteq Drafts
    /\ TradesDrafts \subseteq Drafts /\ LimitPriceDrafts \subseteq Drafts
    /\ CalculationDrafts \subseteq Drafts
    /\ \A S \in PlainKinds : S \subseteq Drafts
  BY DEF Drafts, OrderDrafts, GttAllDrafts, MarketDrafts, AccountDrafts, PlainKinds

LEMMA OrdersTold ==
    ASSUME NEW d \in PlaceDrafts \cup ModifyDrafts \cup SquareOffDrafts \cup PreviewDrafts
    PROVE  VariantsTold(d)
<1>1. CASE d \in PlaceDrafts
  <2>1. SettersOf(d) = PlaceOrderSetters
    BY <1>1 DEF PlaceDrafts, SettersOf, Setters
  <2>2. DOMAIN PlaceOrderSetters \subseteq DOMAIN d
    BY <1>1 DEF PlaceDrafts, PlaceOrderSetters
  <2>3. \A e \in PlaceDrafts : Told(d, e)
    BY <1>1, PlaceTold, ByBody
  <2>. QED
    BY <1>1, <2>1, <2>2, <2>3, PlaceClosed, ByKind, DraftsUnited
<1>2. CASE d \in ModifyDrafts
  <2>1. SettersOf(d) = ModifyOrderSetters
    BY <1>2 DEF ModifyDrafts, SettersOf, Setters
  <2>2. DOMAIN ModifyOrderSetters \subseteq DOMAIN d
    BY <1>2 DEF ModifyDrafts, ModifyOrderSetters
  <2>3. \A e \in ModifyDrafts : Told(d, e)
    BY <1>2, ModifyTold, ByBody
  <2>. QED
    BY <1>2, <2>1, <2>2, <2>3, ModifyClosed, ByKind, DraftsUnited
<1>3. CASE d \in SquareOffDrafts
  <2>1. SettersOf(d) = SquareOffSetters
    BY <1>3 DEF SquareOffDrafts, SettersOf, Setters
  <2>2. DOMAIN SquareOffSetters \subseteq DOMAIN d
    BY <1>3 DEF SquareOffDrafts, SquareOffSetters
  <2>3. \A e \in SquareOffDrafts : Told(d, e)
    BY <1>3, SquareOffTold, ByBody
  <2>. QED
    BY <1>3, <2>1, <2>2, <2>3, SquareOffClosed, ByKind, DraftsUnited
<1>4. CASE d \in PreviewDrafts
  <2>1. SettersOf(d) = PreviewOrderSetters
    BY <1>4 DEF PreviewDrafts, SettersOf, Setters
  <2>2. DOMAIN PreviewOrderSetters \subseteq DOMAIN d
    BY <1>4 DEF PreviewDrafts, PreviewOrderSetters
  <2>3. \A e \in PreviewDrafts : Told(d, e)
    BY <1>4, PreviewTold, ByBody
  <2>. QED
    BY <1>4, <2>1, <2>2, <2>3, PreviewClosed, ByKind, DraftsUnited
<1>. QED
  BY <1>1, <1>2, <1>3, <1>4

LEMMA GttsTold ==
    ASSUME NEW d \in GttDrafts \cup GttListDrafts \cup GttCancelDrafts \cup GttModifyDrafts
    PROVE  VariantsTold(d)
<1>1. CASE d \in GttDrafts
  <2>1. SettersOf(d) = GttOrderSetters
    BY <1>1 DEF GttDrafts, SettersOf, Setters
  <2>2. DOMAIN GttOrderSetters \subseteq DOMAIN d
    BY <1>1 DEF GttDrafts, GttOrderSetters
  <2>3. \A e \in GttDrafts : Told(d, e)
    BY <1>1, GttTold, ByBody
  <2>. QED
    BY <1>1, <2>1, <2>2, <2>3, GttClosed, ByKind, DraftsUnited
<1>2. ASSUME NEW S \in {GttListDrafts, GttCancelDrafts, GttModifyDrafts}, d \in S,
             \A e \in S : Told(d, e)
      PROVE  VariantsTold(d)
  <2>1. SettersOf(d) = GttExchangeSetter /\ DOMAIN GttExchangeSetter \subseteq DOMAIN d
    <3>1. CASE S = GttListDrafts
      BY <1>2, <3>1 DEF GttListDrafts, SettersOf, Setters, GttExchangeSetter
    <3>2. CASE S = GttCancelDrafts
      BY <1>2, <3>2 DEF GttCancelDrafts, SettersOf, Setters, GttExchangeSetter
    <3>3. CASE S = GttModifyDrafts
      BY <1>2, <3>3 DEF GttModifyDrafts, SettersOf, Setters, GttExchangeSetter
    <3>. QED
      BY <3>1, <3>2, <3>3
  <2>2. S \subseteq Drafts
    BY DraftsUnited
  <2>. QED
    BY <1>2, <2>1, <2>2, GttOthersClosed, ByKind
<1>3. CASE d \in GttListDrafts
  <2>1. \A e \in GttListDrafts : Told(d, e)
    BY <1>3, RangeBodyTold, ByBody
  <2>. QED
    BY <1>2, <1>3, <2>1
<1>4. CASE d \in GttCancelDrafts
  <2>1. \A e \in GttCancelDrafts : Told(d, e)
    BY <1>4, GttCancelTold, ByBody
  <2>. QED
    BY <1>2, <1>4, <2>1
<1>5. CASE d \in GttModifyDrafts
  <2>1. \A e \in GttModifyDrafts : Told(d, e)
    BY <1>5, GttModifyTold, ByBody
  <2>. QED
    BY <1>2, <1>5, <2>1
<1>. QED
  BY <1>1, <1>3, <1>4, <1>5

LEMMA ListsTold ==
    ASSUME NEW d \in ChainDrafts \cup HoldingsDrafts \cup TradesDrafts \cup LimitPriceDrafts
    PROVE  VariantsTold(d)
<1>1. CASE d \in ChainDrafts
  <2>1. SettersOf(d) = OptionChainSetters
    BY <1>1 DEF ChainDrafts, SettersOf, Setters
  <2>2. DOMAIN OptionChainSetters \subseteq DOMAIN d
    BY <1>1 DEF ChainDrafts, OptionChainSetters
  <2>3. \A e \in ChainDrafts : Told(d, e)
    BY <1>1, ChainTold, ByBody
  <2>. QED
    BY <1>1, <2>1, <2>2, <2>3, ChainClosed, ByKind, DraftsUnited
<1>2. CASE d \in HoldingsDrafts
  <2>1. SettersOf(d) = HoldingsSetters
    BY <1>2 DEF HoldingsDrafts, SettersOf, Setters
  <2>2. DOMAIN HoldingsSetters \subseteq DOMAIN d
    BY <1>2 DEF HoldingsDrafts, HoldingsSetters
  <2>3. \A e \in HoldingsDrafts : Told(d, e)
    BY <1>2, HoldingsTold, ByBody
  <2>. QED
    BY <1>2, <2>1, <2>2, <2>3, HoldingsClosed, ByKind, DraftsUnited
<1>3. CASE d \in TradesDrafts
  <2>1. SettersOf(d) = TradeListSetters
    BY <1>3 DEF TradesDrafts, SettersOf, Setters
  <2>2. DOMAIN TradeListSetters \subseteq DOMAIN d
    BY <1>3 DEF TradesDrafts, TradeListSetters
  <2>3. \A e \in TradesDrafts : Told(d, e)
    BY <1>3, TradesTold, ByBody
  <2>. QED
    BY <1>3, <2>1, <2>2, <2>3, TradesClosed, ByKind, DraftsUnited
<1>4. CASE d \in LimitPriceDrafts
  <2>1. SettersOf(d) = LimitPriceSetters
    BY <1>4 DEF LimitPriceDrafts, SettersOf, Setters
  <2>2. DOMAIN LimitPriceSetters \subseteq DOMAIN d
    BY <1>4 DEF LimitPriceDrafts, LimitPriceSetters
  <2>3. \A e \in LimitPriceDrafts : Told(d, e)
    BY <1>4, LimitPriceTold, ByBody
  <2>. QED
    BY <1>4, <2>1, <2>2, <2>3, LimitPriceClosed, ByKind, DraftsUnited
<1>. QED
  BY <1>1, <1>2, <1>3, <1>4

LEMMA PlainHaveNone ==
    ASSUME NEW S \in PlainKinds, NEW d \in S
    PROVE  SettersOf(d) = << >>
<1>1. d.kind \in {"detail", "list", "cancel", "historical_v1", "historical_v2", "quotes",
                   "customer", "demat_holdings", "funds", "positions", "set_funds", "margin",
                   "trade_detail"}
  <2>1. /\ \A x \in OrderDetailNew : x.kind = "detail"
        /\ \A x \in ListDrafts : x.kind = "list"
        /\ \A x \in CancelOrderNew : x.kind = "cancel"
        /\ \A x \in QuoteNew : x.kind = "quotes"
    BY DEF OrderDetailNew, ListDrafts, CancelOrderNew, QuoteNew
  <2>2. /\ \A x \in HistoricalDrafts("historical_v1") : x.kind = "historical_v1"
        /\ \A x \in HistoricalDrafts("historical_v2") : x.kind = "historical_v2"
    BY DEF HistoricalDrafts
  <2>3. /\ \A x \in CustomerDetailsNew : x.kind = "customer"
        /\ \A x \in PlainDrafts : x.kind \in {"demat_holdings", "funds", "positions"}
        /\ \A x \in SetFundsNew : x.kind = "set_funds"
        /\ \A x \in GetMarginNew : x.kind = "margin"
        /\ \A x \in TradeDetailNew : x.kind = "trade_detail"
    BY DEF CustomerDetailsNew, PlainDrafts, SetFundsNew, GetMarginNew, TradeDetailNew
  <2>. QED
    BY <2>1, <2>2, <2>3 DEF PlainKinds
<1>. QED
  BY <1>1 DEF SettersOf, Setters

LEMMA PlainTold ==
    ASSUME NEW S \in PlainKinds, NEW d \in S
    PROVE  VariantsTold(d)
<1>1. ASSUME \A e \in S : Told(d, e) PROVE VariantsTold(d)
  <2>1. SettersOf(d) = << >> /\ DOMAIN << >> \subseteq DOMAIN d /\ S \subseteq Drafts
    BY PlainHaveNone, DraftsUnited
  <2>. QED
    BY <1>1, <2>1, OthersClosed, ByKind
<1>2. CASE S \in {OrderDetailNew, ListDrafts, CancelOrderNew}
  <2>1. CASE S = OrderDetailNew
    BY <1>1, <2>1, DetailTold, ByBody
  <2>2. CASE S = ListDrafts
    BY <1>1, <2>2, RangeBodyTold, ByBody
  <2>3. CASE S = CancelOrderNew
    BY <1>1, <2>3, CancelTold, ByBody
  <2>. QED
    BY <1>2, <2>1, <2>2, <2>3
<1>3. CASE S = HistoricalDrafts("historical_v1")
  BY <1>1, <1>3, BarsTold, ByBody
<1>4. CASE S = HistoricalDrafts("historical_v2")
  BY <1>1, <1>4, QueryTold, ByQuery
<1>5. CASE S = QuoteNew
  BY <1>1, <1>5, QuoteTold, ByBody
<1>6. CASE S = CustomerDetailsNew
  BY <1>1, <1>6, CustomerTold, ByBody
<1>7. CASE S = PlainDrafts
  <2>1. \A f \in Varied(d, << >>) : FALSE
    BY <1>7 DEF PlainDrafts, Varied, Arguments
  <2>2. SettersOf(d) = << >>
    BY PlainHaveNone
  <2>. QED
    BY <2>1, <2>2 DEF VariantsTold
<1>8. CASE S = SetFundsNew
  BY <1>1, <1>8, SetFundsTold, ByBody
<1>9. CASE S = GetMarginNew
  BY <1>1, <1>9, MarginTold, ByBody
<1>10. CASE S = TradeDetailNew
  BY <1>1, <1>10, TradeDetailTold, ByBody
<1>. QED
  BY <1>2, <1>3, <1>4, <1>5, <1>6, <1>7, <1>8, <1>9, <1>10 DEF PlainKinds

(* All that are not calculations. *)
LEMMA AllTold ==
    ASSUME NEW d \in Drafts, d.kind # "margin_calculation"
    PROVE  VariantsTold(d)
<1>1. d \notin CalculationDrafts
  BY DEF CalculationDrafts
<1>2. \/ d \in PlaceDrafts \cup ModifyDrafts \cup SquareOffDrafts \cup PreviewDrafts
      \/ d \in GttDrafts \cup GttListDrafts \cup GttCancelDrafts \cup GttModifyDrafts
      \/ d \in ChainDrafts \cup HoldingsDrafts \cup TradesDrafts \cup LimitPriceDrafts
      \/ \E S \in PlainKinds : d \in S
  BY <1>1 DEF Drafts, OrderDrafts, GttAllDrafts, MarketDrafts, AccountDrafts, PlainKinds
<1>. QED
  BY <1>2, OrdersTold, GttsTold, ListsTold, PlainTold

(* Calculations, with another position in place of one. *)
LEMMA CalculationsTold ==
    ASSUME NEW d \in CalculationDrafts, NEW n \in DOMAIN d.positions, NEW p \in Positions
    PROVE  /\ [d EXCEPT !.positions[n] = p] \in CalculationDrafts
           /\ Told(d, [d EXCEPT !.positions[n] = p])
<1>1. [d EXCEPT !.positions[n] = p] \in CalculationDrafts
  <2>1. d.positions \in Seq(Positions)
    BY DEF CalculationDrafts
  <2>2. [d.positions EXCEPT ![n] = p] \in Seq(Positions)
    BY <2>1, ExceptSeq
  <2>. QED
    BY <2>2 DEF CalculationDrafts
<1>. DEFINE e == [d EXCEPT !.positions[n] = p]
<1>2. e \in CalculationDrafts
  BY <1>1
<1>. HIDE DEF e
<1>3. Told(d, e)
  BY <1>2, CalculationTold DEF Told, prepare_request
<1>. QED
  BY <1>2, <1>3 DEF e

LEMMA CalculationsAre ==
    ASSUME NEW d \in Drafts, d.kind = "margin_calculation"
    PROVE  d \in CalculationDrafts /\ SettersOf(d) = << >>
<1>1. \A x \in OrderDrafts : x.kind # "margin_calculation"
  BY DEF OrderDrafts, PlaceDrafts, OrderDetailNew, ListDrafts, CancelOrderNew, ModifyDrafts,
         SquareOffDrafts, PreviewDrafts
<1>2. \A x \in GttAllDrafts : x.kind # "margin_calculation"
  BY DEF GttAllDrafts, GttDrafts, GttListDrafts, GttCancelDrafts, GttModifyDrafts
<1>3. \A x \in MarketDrafts : x.kind # "margin_calculation"
  BY DEF MarketDrafts, HistoricalDrafts, QuoteNew, ChainDrafts
<1>4. \A x \in AccountDrafts \cup LimitPriceDrafts : x.kind # "margin_calculation"
  BY DEF AccountDrafts, CustomerDetailsNew, PlainDrafts, SetFundsNew, GetMarginNew,
         HoldingsDrafts, TradesDrafts, TradeDetailNew, LimitPriceDrafts
<1>. QED
  BY <1>1, <1>2, <1>3, <1>4 DEF Drafts, SettersOf, Setters

----------------------------------------------------------------------------
(* The invariant.                                                          *)

RequestIInv ==
    /\ draft \in Drafts
    /\ stage \in {"draft", "request", "sent", "refused"}
    /\ stage \in {"request", "sent"} => Builds(draft)
    /\ stage = "sent" =>
        /\ Endpoint(draft).body.is = "Ok"
        /\ sent = prepare_request(Endpoint(draft))

LEMMA RequestInit == Init => RequestIInv
  BY NewTyped DEF Init, RequestIInv

LEMMA RequestNext == RequestIInv /\ [Next]_requestVars => RequestIInv'
<1>. SUFFICES ASSUME RequestIInv, [Next]_requestVars PROVE RequestIInv'
  OBVIOUS
<1>1. CASE SetField
  <2>1. PICK f \in DOMAIN SettersOf(draft) : \E value \in SettersOf(draft)[f] :
            draft' = [draft EXCEPT ![f] = value]
    BY <1>1 DEF SetField
  <2>2. draft.kind # "margin_calculation"
    BY CalculationsAre DEF RequestIInv
  <2>3. VariantsTold(draft)
    BY <2>2, AllTold DEF RequestIInv
  <2>4. f \in Varied(draft, SettersOf(draft)) /\ Values(f, SettersOf(draft)) = SettersOf(draft)[f]
    BY <2>3 DEF VariantsTold, Varied, Values
  <2>5. draft' \in Drafts
    BY <2>1, <2>3, <2>4 DEF VariantsTold
  <2>. QED
    BY <1>1, <2>5 DEF RequestIInv, SetField, Call
<1>2. CASE AddPosition
  <2>1. draft \in CalculationDrafts
    BY <1>2, CalculationsAre DEF RequestIInv, AddPosition
  <2>2. PICK p \in Positions : draft' = [draft EXCEPT !.positions = Append(@, p)]
    BY <1>2, NewAccountTyped DEF AddPosition
  <2>3. Append(draft.positions, p) \in Seq(Positions)
    BY <2>1 DEF CalculationDrafts
  <2>4. draft' \in CalculationDrafts
    BY <2>1, <2>2, <2>3 DEF CalculationDrafts
  <2>. QED
    BY <1>2, <2>4, DraftsUnited DEF RequestIInv, AddPosition, Call
<1>3. CASE ChangePosition
  <2>1. draft \in CalculationDrafts
    BY <1>3, CalculationsAre DEF RequestIInv, ChangePosition
  <2>. DEFINE last == Len(draft.positions)
  <2>2. PICK f \in DOMAIN MarginPositionSetters : \E value \in MarginPositionSetters[f] :
            draft' = [draft EXCEPT !.positions[last] = SetPosition(@, f, value)]
    BY <1>3 DEF ChangePosition
  <2>3. last \in DOMAIN draft.positions /\ draft.positions[last] \in Positions
    BY <1>3, <2>1 DEF ChangePosition, CalculationDrafts
  <2>6. PICK value \in MarginPositionSetters[f] :
            draft' = [draft EXCEPT !.positions[last] = SetPosition(@, f, value)]
    BY <2>2
  <2>. DEFINE p == SetPosition(draft.positions[last], f, value)
  <2>4. p \in Positions
    BY <2>3, PositionClosed
  <2>5. draft' = [draft EXCEPT !.positions[last] = p]
    BY <2>6
  <2>. HIDE DEF p, last
  <2>7. draft' \in CalculationDrafts
    BY <2>1, <2>3, <2>4, <2>5, CalculationsTold
  <2>. QED
    BY <1>3, <2>7, DraftsUnited DEF RequestIInv, ChangePosition, Call
<1>4. CASE Build
  BY <1>4 DEF RequestIInv, Build
<1>5. ASSUME NEW token \in BOOLEAN, Send(token) PROVE RequestIInv'
  BY <1>5 DEF RequestIInv, Send, CanPrepare
<1>6. CASE UNCHANGED requestVars
  BY <1>6 DEF RequestIInv, requestVars
<1>. QED
  BY <1>1, <1>2, <1>3, <1>4, <1>5, <1>6 DEF Next

(* For every number of calls of builder methods and all arguments, what    *)
(* reaches the wire has the class of a read only if it changes nothing     *)
(* (src/request.rs:53).                                                    *)
THEOREM ClassesMatch == Spec => []MutationsAreNotReads
<1>1. RequestIInv => MutationsAreNotReads
  BY Classes, DraftsKinded DEF RequestIInv, MutationsAreNotReads, Kinded
<1>. QED
  BY <1>1, RequestInit, RequestNext, PTL DEF Spec

(* No expect() and no index in a body() fails on what build() accepted     *)
(* (src/gtt.rs:293, src/risk.rs:154).                                      *)
THEOREM BodiesHold == Spec => []BuiltBodiesHold
<1>1. RequestIInv => BuiltBodiesHold
  BY Bodies, DraftsKinded DEF RequestIInv, BuiltBodiesHold
<1>. QED
  BY <1>1, RequestInit, RequestNext, PTL DEF Spec

(* A quote and the chain made from its instrument name the same contract   *)
(* (src/market.rs:411).                                                    *)
THEOREM ChainsMatch == Spec => []ChainKeepsIdentity
<1>1. RequestIInv => ChainKeepsIdentity
  BY ChainBody DEF RequestIInv, ChainKeepsIdentity, prepare_request, Endpoint, QuoteRequest,
     EndpointRequest
<1>. QED
  BY <1>1, RequestInit, RequestNext, PTL DEF Spec

(* Whatever the kind, the invariant says enough. *)
LEMMA Distinguishes == RequestIInv => WireDistinguishes
<1>. SUFFICES ASSUME RequestIInv, stage = "sent" PROVE WireDistinguishes
  BY DEF WireDistinguishes
<1>1. ASSUME NEW other, Told(draft, other) PROVE Distinguished(other)
  BY <1>1 DEF RequestIInv, Told, Distinguished
<1>2. CASE draft.kind # "margin_calculation"
  <2>1. VariantsTold(draft)
    BY <1>2, AllTold DEF RequestIInv
  <2>2. \A f \in Varied(draft, SettersOf(draft)) : \A value \in Values(f, SettersOf(draft)) :
            Distinguished([draft EXCEPT ![f] = value])
    BY <1>1, <2>1 DEF VariantsTold
  <2>. QED
    BY <1>2, <2>2 DEF WireDistinguishes
<1>3. CASE draft.kind = "margin_calculation"
  <2>1. draft \in CalculationDrafts
    BY <1>3, CalculationsAre DEF RequestIInv
  <2>2. ASSUME NEW n \in DOMAIN draft.positions PROVE PositionDistinguished(n)
    <3>1. draft.positions[n] \in Positions
      BY <2>1 DEF CalculationDrafts
    <3>2. \A q \in Positions : Distinguished([draft EXCEPT !.positions[n] = q])
      BY <1>1, <2>1, CalculationsTold
    <3>. DEFINE p == draft.positions[n]
    <3>3. /\ \A f \in Varied(p, << >>) : \A v \in Values(f, << >>) :
                Distinguished([draft EXCEPT !.positions[n] = [p EXCEPT ![f] = v]])
          /\ \A f \in DOMAIN MarginPositionSetters : \A v \in MarginPositionSetters[f] :
                Distinguished([draft EXCEPT !.positions[n] = SetPosition(p, f, v)])
      BY <3>1, <3>2, PositionClosed
    <3>. QED
      BY <3>3 DEF PositionDistinguished
  <2>. QED
    BY <1>3, <2>2 DEF WireDistinguishes
<1>. QED
  BY <1>2, <1>3

(* What was sent tells what was asked for: no other value of an argument   *)
(* or of a builder method's, and no other position, is sent the same       *)
(* (src/orders.rs:372, src/risk.rs:186, src/gtt.rs:289).                   *)
THEOREM WiresTell == Spec => []WireDistinguishes
  BY Distinguishes, RequestInit, RequestNext, PTL DEF Spec
=============================================================================
