----------------------------- MODULE Instruments -----------------------------
(***************************************************************************)
(* The value types of src/domain/mod.rs that requests are built from, and  *)
(* what a request is made of (src/request.rs).  Values are given by their  *)
(* wire text where they have one; amounts, dates and instants are numbers, *)
(* so that they can be compared, and become text on the wire.              *)
(***************************************************************************)
EXTENDS Integers, Sequences, TLC

CONSTANTS None,        \* an Option that is not set
          StockCodes,  \* normalized codes
          Amounts,     \* decimals, for Money
          Counts,      \* whole numbers, for Quantity and Count
          Dates,       \* expiry and trade dates
          Instants,    \* DateTime<Utc>, in milliseconds
          Texts,       \* what identifiers and remarks are made from
          Asked        \* the instruments applications try to make

\* What is printed tells numbers apart, and a number from an absent one.
ASSUME TextAssumption ==
    /\ \A m, n \in Amounts \cup Counts \cup Dates \cup {0} :
        /\ ToString(m) = ToString(n) => m = n
        /\ ToString(n) \notin {"", None}
    /\ ToString(0) = "0"

\* None is no number, no range of instants, and none of the words that are sent.
ASSUME NoneAssumption ==
    /\ None \notin Amounts \cup Counts \cup Dates
    /\ None \notin {"call", "put", "others", "", "0"}
    /\ None \notin Instants \X Instants

----------------------------------------------------------------------------
(* Values.                                                                 *)

Exchange == {"NSE", "BSE", "NFO", "BFO", "NDX", "MCX"}
DerivativeExchange == {"NFO", "BFO", "NDX", "MCX"}
OptionRight == {"call", "put"}
Product == {"cash", "btst", "mtf", "futures", "options"}
Interval == {"OneSecond", "OneMinute", "FiveMinutes", "ThirtyMinutes", "OneDay"}

v1_wire(interval) ==
    CASE interval = "OneSecond"     -> "1second"
      [] interval = "OneMinute"     -> "minute"
      [] interval = "FiveMinutes"   -> "5minute"
      [] interval = "ThirtyMinutes" -> "30minute"
      [] interval = "OneDay"        -> "day"

v2_wire(interval) ==
    CASE interval = "OneMinute" -> "1minute"
      [] interval = "OneDay"    -> "1day"
      [] OTHER                  -> v1_wire(interval)

\* Any decimal, negative and zero ones too.
Money == Amounts

Quantity == {n \in Counts : n > 0}
Count    == Counts

\* A remark is never empty, so the text "" can stand for none.
UserRemark == {t \in Texts : t \notin {"", "too long"}}

DateRange == {r \in Instants \X Instants : r[1] <= r[2]}

\* Milliseconds are not sent.
timestamp(instant) == ToString(instant \div 1000)

----------------------------------------------------------------------------
(* Instruments: one record type, the variant told by what is set.          *)

Equities ==
    [stock_code : StockCodes, exchange : {"NSE", "BSE"},
     expiry : {None}, right : {None}, strike : {None}]

Futures ==
    [stock_code : StockCodes, exchange : DerivativeExchange,
     expiry : Dates, right : {None}, strike : {None}]

Options ==
    [stock_code : StockCodes, exchange : DerivativeExchange,
     expiry : Dates, right : OptionRight, strike : Money]

Instrument == {i \in Asked : i \in Equities \cup Futures \cup Options}

product(i) ==
    CASE i.expiry = None                      -> "cash"
      [] i.expiry # None /\ i.right = None    -> "futures"
      [] OTHER                                -> "options"

----------------------------------------------------------------------------
(* Requests.                                                               *)

Or(text, absent) == IF text = None THEN absent ELSE text

Number(n, absent) == IF n = None THEN absent ELSE ToString(n)

\* A body of two parts that have no field in common.
Joined(part, other) ==
    [f \in DOMAIN part \cup DOMAIN other |-> IF f \in DOMAIN part THEN part[f] ELSE other[f]]

\* A body, of which the fields that are None are not serialized.
compact_json(body) == [f \in {g \in DOMAIN body : body[g] # None} |-> body[f]]

\* What body() returns: a text, an error, or, where an expect() or an index
\* fails, nothing.
Ok(text) == [is |-> "Ok", text |-> text]
Err      == [is |-> "Err"]
Panic    == [is |-> "panic"]

\* What EndpointRequest defaults to.
EndpointRequest(method, path, body) ==
    [method |-> method, path |-> path, class |-> "Read", base |-> "RestV1",
     authentication |-> "SignedV1", query |-> <<>>, body |-> Ok(body)]

OfClass(endpoint, class) == [endpoint EXCEPT !.class = class]

\* The contract of an instrument, absent parts left out or filled in.
Contract(i, expiry, right, strike) ==
    [expiry_date |-> Number(i.expiry, expiry), right |-> Or(i.right, right),
     strike_price |-> Number(i.strike, strike)]
=============================================================================
