--------------------------- MODULE AccountRequests ---------------------------
(***************************************************************************)
(* The requests about the account: src/account.rs, src/portfolio.rs and    *)
(* src/trades.rs.                                                          *)
(***************************************************************************)
EXTENDS OrderRequests

\* A read without arguments.
Plain(kind) == {[kind |-> kind]}

PlainRequest(path) == EndpointRequest("GET", path, "{}")

----------------------------------------------------------------------------
(* Login, funds and margin.                                                *)

Secret == Texts \ {""}

CustomerDetailsNew == [kind : {"customer"}, app_key : Secret, api_session : Secret]

CustomerDetailsRequest(d) ==
    [EndpointRequest("GET", "/customerdetails",
        [SessionToken |-> d.api_session, AppKey |-> d.app_key])
     EXCEPT !.authentication = "SessionExchange"]

FundTransaction == {"Credit", "Debit"}
FundSegment     == {"Equity", "FNO", "Commodity", "Currency"}

SetFundsNew ==
    [kind : {"set_funds"}, transaction : FundTransaction, amount : Quantity,
     segment : FundSegment]

SetFundsRequest(d) ==
    OfClass(EndpointRequest("POST", "/funds",
        [transaction_type |-> d.transaction, amount |-> ToString(d.amount),
         segment |-> d.segment]), "SetFunds")

GetMarginNew == [kind : {"margin"}, exchange : Exchange]

GetMarginRequest(d) == EndpointRequest("GET", "/margin", [exchange_code |-> d.exchange])

----------------------------------------------------------------------------
(* Holdings and trades, filtered by what is set.                           *)

PortfolioType == {t \in Texts : t \notin {"", "too long"}}

FromDate(d) == IF d.range = None THEN None ELSE timestamp(d.range[1])
ToDate(d)   == IF d.range = None THEN None ELSE timestamp(d.range[2])

HoldingsNew ==
    [kind : {"holdings"}, exchange : Exchange, range : {None}, stock_code : {None},
     portfolio_type : {None}]

HoldingsSetters ==
    [range |-> DateRange, stock_code |-> StockCodes, portfolio_type |-> PortfolioType]

HoldingsRequest(d) ==
    EndpointRequest("GET", "/portfolioholdings",
        compact_json([exchange_code |-> d.exchange, from_date |-> FromDate(d),
                      to_date |-> ToDate(d), stock_code |-> d.stock_code,
                      portfolio_type |-> d.portfolio_type]))

TradeListNew ==
    [kind : {"trades"}, exchange : Exchange, range : DateRange \cup {None},
     product : {None}, action : {None}, stock_code : {None}]

TradeListSetters ==
    [range |-> DateRange, product |-> Product, action |-> Action, stock_code |-> StockCodes]

TradeListRequest(d) ==
    EndpointRequest("GET", "/trades",
        compact_json([from_date |-> FromDate(d), to_date |-> ToDate(d),
                      exchange_code |-> d.exchange, product_type |-> d.product,
                      action |-> d.action, stock_code |-> d.stock_code]))

TradeDetailNew == [kind : {"trade_detail"}, exchange : Exchange, order_id : OrderId]

TradeDetailRequest(d) ==
    EndpointRequest("GET", "/trades",
        [exchange_code |-> d.exchange, order_id |-> d.order_id])
=============================================================================
