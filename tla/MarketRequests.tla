---------------------------- MODULE MarketRequests ----------------------------
(***************************************************************************)
(* The requests of src/market.rs: bars by two protocols, quotes and option *)
(* chains.                                                                 *)
(***************************************************************************)
EXTENDS Instruments

HistoricalDrafts(kind) ==
    [kind : {kind}, interval : Interval, range : DateRange, instrument : Instrument]

\* An instrument whose absent parts are left out.
InstrumentBody(i) ==
    Joined([stock_code |-> i.stock_code, exchange_code |-> i.exchange,
            product_type |-> product(i)],
           Contract(i, None, None, None))

HistoricalV1New ==
    {d \in HistoricalDrafts("historical_v1") :
        /\ d.interval # "OneSecond"
        /\ d.instrument.exchange \in {"NSE", "NFO", "NDX", "MCX"}}

BarsBody(d) ==
    Joined(InstrumentBody(d.instrument),
           [interval |-> v1_wire(d.interval),
            from_date |-> timestamp(d.range[1]), to_date |-> timestamp(d.range[2])])

HistoricalV1Request(d) ==
    EndpointRequest("GET", "/historicalcharts", compact_json(BarsBody(d)))

HistoricalV2New == HistoricalDrafts("historical_v2")

BarsQuery(d) ==
    Joined([interval |-> v2_wire(d.interval),
            from_date |-> timestamp(d.range[1]), to_date |-> timestamp(d.range[2]),
            stock_code |-> d.instrument.stock_code, exch_code |-> d.instrument.exchange,
            product_type |-> product(d.instrument)],
           Contract(d.instrument, None, None, None))

\* The second protocol has a base, headers and a query of its own, no body;
\* the query's order is always the same, so a record tells as much.
HistoricalV2Request(d) ==
    [EndpointRequest("GET", "/historicalcharts", "") EXCEPT
        !.base = "RestV2", !.authentication = "SessionV2",
        !.query = compact_json(BarsQuery(d))]

QuoteNew == [kind : {"quotes"}, instrument : Instrument]

QuoteRequest(d) ==
    EndpointRequest("GET", "/quotes", compact_json(InstrumentBody(d.instrument)))

----------------------------------------------------------------------------
(* OptionChainRequest.                                                     *)

ChainDraft(exchange, code, chosen) ==
    [kind |-> "option_chain", exchange |-> exchange, stock_code |-> code,
     product |-> chosen, expiry |-> None, right |-> None, strike |-> None]

OptionChainNew ==
    {ChainDraft(x, code, chosen) : x \in DerivativeExchange, code \in StockCodes,
                                   chosen \in {"options", "futures"}}

OptionChainSetters == [expiry |-> Dates, right |-> OptionRight, strike |-> Money]

OptionChainBuild(d) ==
    LET filters == {f \in {"expiry", "right", "strike"} : d[f] # None} IN
    /\ d.exchange \in {"NFO", "BFO"}
    /\ IF d.product = "futures" THEN filters \subseteq {"expiry"}
                                ELSE \E f, g \in filters : f # g

X_try_from(i) ==
    LET d == [ChainDraft(i.exchange, i.stock_code, product(i)) EXCEPT
                !.expiry = i.expiry, !.strike = i.strike] IN
    {c \in {d} : product(i) \in {"options", "futures"} /\ OptionChainBuild(c)}

\* The chain an instrument is in, or nothing.
try_from(i) ==
    LET d == [ChainDraft(i.exchange, i.stock_code, product(i)) EXCEPT
                !.expiry = i.expiry, !.right = i.right, !.strike = i.strike] IN
    {c \in {d} : product(i) \in {"options", "futures"} /\ OptionChainBuild(c)}

OptionChainBody(d) ==
    Joined([stock_code |-> d.stock_code, exchange_code |-> d.exchange,
            product_type |-> d.product],
           Contract(d, None, None, None))

OptionChainRequest(d) ==
    EndpointRequest("GET", "/optionchain", compact_json(OptionChainBody(d)))
==============================================================================
