----------------------------- MODULE MCLibrary -----------------------------
(***************************************************************************)
(* Small values for the parts of module Library.                           *)
(***************************************************************************)
EXTENDS Library

----------------------------------------------------------------------------
(* The security master: rows of cash and derivative files with cells that  *)
(* are missing and garbled, two of one key and different tokens, one that  *)
(* is empty but for a column nobody looks up; headers with and without the *)
(* columns of options.                                                     *)

Line(token, code, expiry, right, strike) ==
    [token |-> token, shortname |-> code, companyname |-> Absent,
     expirydate |-> expiry, optiontype |-> right, strikeprice |-> strike,
     others |-> Absent]

MCRows ==
    {Line("1", "A", Absent, Absent, Absent),
     Line("1", "A", "d1", "call", "10"), Line("2", "A", "d1", "call", "10"),
     Line("1", "A", "d1", "call", Garbled), Line("1", "A", "d1", "xx", "10"),
     Line(Absent, Absent, Absent, Absent, Absent),
     [Line(Absent, Absent, Absent, Absent, Absent) EXCEPT !.others = "x"]}

MCHeaders ==
    LET all == {"token", "shortname", "companyname", "expirydate", "optiontype",
                "strikeprice", "others"} IN
    {all, all \ {"optiontype", "strikeprice"}}

----------------------------------------------------------------------------
(* Requests: a share, a pair of an option's strikes and of its rights, two *)
(* expiries, two derivative exchanges, and one that is refused.            *)

Wanted(exchange, expiry, right, strike) ==
    [stock_code |-> "A", exchange |-> exchange, expiry |-> expiry, right |-> right,
     strike |-> strike]

MCAsked ==
    {Wanted("NSE", None, None, None), Wanted("NFO", None, None, None),
     Wanted("NFO", 1, None, None), Wanted("BFO", 1, None, None),
     Wanted("NFO", 2, None, None), Wanted("NFO", 1, "call", 0),
     Wanted("NFO", 1, "call", 1), Wanted("NFO", 1, "put", 0)}

MCMaxCalls(k) == IF k \in {"limit_price", "squareoff"} THEN 3 ELSE 2

----------------------------------------------------------------------------
(* The fake transport: quotes are of one kind, candles of the other and    *)
(* each of an interval.                                                    *)

MCKindOf(s) == IF s = "quote" THEN "MarketData" ELSE "Candles"

MCIntervalOf(s) == s

Interchangeable == Permutations(Handles)
=============================================================================
