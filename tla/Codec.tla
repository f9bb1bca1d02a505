------------------------------- MODULE Codec -------------------------------
(***************************************************************************)
(* The decoders of src/streaming/codec.rs.  A frame says nothing of its    *)
(* layout but the number of its cells, and the decoders take cells by      *)
(* position, some with a check that the cell is there and some without.    *)
(* The broker writes a frame of one of its feeds column by column; columns *)
(* may be missing in it or at its end, and a cell may be garbled.          *)
(* Positions count from 0 as in the code.  An event maps the names of its  *)
(* fields to the columns their values came from.                           *)
(***************************************************************************)
EXTENDS Integers, Sequences, SequencesExt

CONSTANTS MaxRows,     \* the code's 100 depth rows
          MaxMissing   \* bound on the columns missing before the last one sent

VARIABLES feed,      \* the frame as the broker means to send it
          frame,     \* its cells so far
          column,    \* how many of its columns have been dealt with
          missing,   \* how many of them were left out
          garbled,   \* whether a cell was garbled
          event      \* what the decoder made of the frame

codecVars == <<feed, frame, column, missing, garbled, event>>

----------------------------------------------------------------------------
(* Cells: what the text of one can be parsed as, the column it is of, and  *)
(* the cells in it when it is an array.                                    *)

Scalar(type, col) == [is |-> type, column |-> col, row |-> <<>>]
Row(types, col) ==
    [is |-> "row", column |-> col, row |-> [i \in DOMAIN types |-> Scalar(types[i], i)]]

money(cell) == cell.is \in {"money", "count"}
count(cell) == cell.is = "count"
array(cell) == cell.is \in {"row", "rows"}
text(cell) == cell.is # "garbled" /\ ~ array(cell)

X_from_channel(cell) == text(cell)

\* The interval of the frame's own channel, or of another one.
from_channel(cell) == cell.is \in {"interval", "other interval"}

Prices == {"low", "high", "open", "close", "strike", "open_interest", "change",
           "last_price", "buy_price", "sell_price"}
Numbers == {"volume", "buy_quantity", "sell_quantity", "buy_orders", "sell_orders",
            "total_sell_quantity"}

Parses(name, cell) ==
    CASE name \in Prices    -> money(cell)
      [] name \in Numbers   -> count(cell)
      [] name = "interval"  -> from_channel(cell)
      [] name = "exchange"  -> cell.is = "exchange"
      [] name = "right"     -> cell.is = "right"
      [] OTHER              -> text(cell)

----------------------------------------------------------------------------
(* Reading a layout, which maps names to positions.                        *)

Cell(cells, i) == cells[i + 1]

Holds(cells, i) == i < Len(cells)

\* What may come of a frame instead of an event: nothing yet, a
\* StreamDecodeError, StreamEvent::Unknown, and an index outside the frame.
Nothing == [is |-> "nothing"]
Error   == [is |-> "error"]
Unknown == [is |-> "unknown"]
Panic   == [is |-> "panic"]

\* With at(): a missing cell is an error like one that does not parse.
Checked(cells, layout) ==
    IF \A name \in DOMAIN layout :
            Holds(cells, layout[name]) /\ Parses(name, Cell(cells, layout[name]))
      THEN [is |-> "fields",
            of |-> [name \in DOMAIN layout |-> Cell(cells, layout[name]).column]]
      ELSE Error

\* Without.
Indexed(cells, layout) ==
    IF \A name \in DOMAIN layout : Holds(cells, layout[name])
      THEN Checked(cells, layout)
      ELSE Panic

Event(fields, levels) ==
    IF fields = Panic \/ Panic \in levels THEN Panic
    ELSE IF fields = Error \/ Error \in levels THEN Error
    ELSE [is |-> "event", fields |-> fields.of, levels |-> levels]

----------------------------------------------------------------------------
(* Ticks.                                                                  *)

exchange_from_qualifier(qualifier) ==
    CASE qualifier = 1  -> "Bse"
      [] qualifier = 4  -> "Nse"
      [] qualifier = 6  -> "Mcx"
      [] qualifier = 8  -> "Bfo"
      [] qualifier = 13 -> "Ndx"
      [] OTHER          -> "unknown"

QuoteLayout(length) ==
    IF length = 23
      THEN [last_price |-> 2, total_sell_quantity |-> 16, open_interest |-> 12,
            change |-> 13]
      ELSE [last_price |-> 2, total_sell_quantity |-> 14]

decode_quote(qualifier, cells) ==
    IF exchange_from_qualifier(qualifier) = "unknown"
      THEN Error
      ELSE Event(Checked(cells, QuoteLayout(Len(cells))), {})

DepthLayout(exchange) ==
    CASE exchange = "Bse" -> [buy_price |-> 0, buy_quantity |-> 1,
                              sell_price |-> 2, sell_quantity |-> 3]
      [] exchange = "Bfo" -> [buy_price |-> 0, buy_quantity |-> 1, buy_orders |-> 2,
                              sell_price |-> 3, sell_quantity |-> 4, sell_orders |-> 5]
      [] OTHER            -> [buy_price |-> 0, buy_quantity |-> 1, buy_orders |-> 2,
                              sell_price |-> 4, sell_quantity |-> 5, sell_orders |-> 6]

DepthWidth(exchange, width) ==
    CASE exchange = "Bse" -> width = 4
      [] exchange = "Bfo" -> width = 6
      [] OTHER            -> width >= 7

\* One row of a book, if it is one of the right width.
Level(rows, i, width, layout) ==
    LET fields == Indexed(rows[i].row, layout) IN
    IF ~ (array(rows[i]) /\ width) THEN Error
    ELSE IF fields \in {Error, Panic} THEN fields
    ELSE [is |-> "level", column |-> rows[i].column, fields |-> fields.of]

decode_depth(qualifier, cells) ==
    LET exchange == exchange_from_qualifier(qualifier)
        rows == Cell(cells, 2).row
        DepthLevel(i) == Level(rows, i, DepthWidth(exchange, Len(rows[i].row)),
                               DepthLayout(exchange)) IN
    IF /\ Holds(cells, 2)
       /\ array(Cell(cells, 2))
       /\ Len(rows) <= MaxRows
       /\ exchange # "unknown"
      THEN Event(Checked(cells, <<>>), {DepthLevel(i) : i \in DOMAIN rows})
      ELSE Error

\* A quote of 22 cells and after it the rows of the book.
CommodityQuote == [last_price |-> 5, open_interest |-> 17]
CommodityRow ==
    [buy_quantity |-> 0, buy_price |-> 1, buy_orders |-> 2,
     sell_quantity |-> 4, sell_price |-> 5, sell_orders |-> 6]

Book(cells) ==
    LET rows == SubSeq(cells, 23, Len(cells)) IN
    IF Len(cells) < 22 THEN Panic
    ELSE IF Len(rows) > MaxRows THEN Error
    ELSE Event(Indexed(cells, CommodityQuote),
               {Level(rows, i, Len(rows[i].row) = 8, CommodityRow) : i \in DOMAIN rows})

decode_commodity(cells) == IF Len(cells) < 22 THEN Error ELSE Book(cells)

\* The symbol, a ScriptCode, has the exchange's number and the kind of data.
decode_tick(qualifier, data, cells) ==
    IF ~ (Holds(cells, 0) /\ text(Cell(cells, 0))) THEN Error
    ELSE IF Cell(cells, 0).is # "symbol" THEN Unknown
    ELSE CASE data = "depth"                      -> decode_depth(qualifier, cells)
           [] data = "quotes" /\ qualifier = 6    -> decode_commodity(cells)
           [] OTHER ->
                IF Len(cells) \in {21, 23} THEN decode_quote(qualifier, cells) ELSE Unknown

----------------------------------------------------------------------------
(* The other streams.                                                      *)

OrderLayout(type) ==
    CASE type = "equity" -> [action |-> 15, status |-> 20, stock_code |-> 14,
                             order_id |-> 23]
      [] type = "fno"    -> [action |-> 21, status |-> 25, stock_code |-> 14,
                             order_id |-> 26, text_of_right |-> 16, strike |-> 18]

decode_order_notification(cells) ==
    IF Len(cells) <= 256 /\ Holds(cells, 11) /\ Cell(cells, 11).is \in {"equity", "fno"}
      THEN Event(Checked(cells, OrderLayout(Cell(cells, 11).is)), {})
      ELSE Error

decode_one_click_fno(cells) ==
    IF Len(cells) = 28
      THEN Event(Indexed(cells, [strategy |-> 2, stock_code |-> 8, status |-> 27]), {})
      ELSE Error

X_decode_one_click_equity(cells) ==
    IF Len(cells) <= 19
      THEN Event(Indexed(cells, [stock_code |-> 1, subscription_type |-> 18,
                                 status |-> 17]), {})
      ELSE Error

decode_one_click_equity(cells) ==
    IF Len(cells) = 19
      THEN Event(Indexed(cells, [stock_code |-> 1, subscription_type |-> 18,
                                 status |-> 17]), {})
      ELSE Error

CandleLayout(length) ==
    CASE length = 9  -> [exchange |-> 0, stock_code |-> 1, low |-> 2, high |-> 3,
                         open |-> 4, close |-> 5, volume |-> 6, datetime |-> 7,
                         interval |-> 8]
      [] length = 13 -> [exchange |-> 0, stock_code |-> 1, expiry_date |-> 2,
                         strike |-> 3, right |-> 4, low |-> 5, high |-> 6, open |-> 7,
                         close |-> 8, volume |-> 9, open_interest |-> 10,
                         datetime |-> 11, interval |-> 12]
      [] length = 11 -> [exchange |-> 0, stock_code |-> 1, expiry_date |-> 2, low |-> 3,
                         high |-> 4, open |-> 5, close |-> 6, volume |-> 7,
                         open_interest |-> 8, datetime |-> 9, interval |-> 10]

decode_candle(cells) ==
    IF Len(cells) \in {9, 11, 13}
      THEN Event(Indexed(cells, CandleLayout(Len(cells))), {})
      ELSE Error

Disagrees(cells) == cells # <<>> /\ Last(cells).is = "other interval"

\* Each stream's event handler has its decoder; a candle must be of the
\* interval its channel is for.
Decode(f, cells) ==
    CASE f.channel = "tick"   -> decode_tick(f.qualifier, f.data, cells)
      [] f.channel = "order"  -> decode_order_notification(cells)
      [] f.channel = "fno"    -> decode_one_click_fno(cells)
      [] f.channel = "equity" -> decode_one_click_equity(cells)
      [] f.channel = "candle" -> IF Disagrees(cells) THEN Error ELSE decode_candle(cells)

----------------------------------------------------------------------------
(* What the broker sends.  Prices may be whole numbers, that is, look like *)
(* counts.                                                                 *)

Times(n, type) == [i \in 1..n |-> type]

Cells(types) == [i \in DOMAIN types |-> Scalar(types[i], i)]

CandleFrames(price) ==
    LET ohlc == Times(4, price) IN
    {<<"exchange", "text">> \o ohlc \o <<"count", "text", "interval">>,
     <<"exchange", "text", "text">> \o ohlc \o <<"count", "count", "text", "interval">>,
     <<"exchange", "text", "text", price, "right">> \o ohlc
        \o <<"count", "count", "text", "interval">>}

OrderFrame(type, length) == [Times(length, "text") EXCEPT ![12] = type, ![19] = "money"]

Tick(qualifier, data, cells) ==
    [channel |-> "tick", qualifier |-> qualifier, data |-> data, cells |-> cells]

DepthRow(exchange, price) ==
    CASE exchange = "Bse" -> <<price, "count", price, "count">>
      [] exchange = "Bfo" -> <<price, "count", "count", price, "count", "count">>
      [] OTHER            -> <<price, "count", "count", "text",
                               price, "count", "count", "text">>

BrokerRows(n, types, columns) == [i \in 1..n |-> Row(types, columns + i)]

Rows(n, types) == [is |-> "rows", column |-> 3, row |-> BrokerRows(n, types, 0)]

Quote(length, price) == <<"symbol", "text">> \o Times(length - 2, price)

Feeds ==
    {[channel |-> "order", cells |-> Cells(OrderFrame("equity", 25))],
     [channel |-> "order", cells |-> Cells(OrderFrame("fno", 28))],
     [channel |-> "fno", cells |-> Cells(Times(28, "text"))],
     [channel |-> "equity", cells |-> Cells(Times(19, "text"))]}
    \cup
    UNION {
        {[channel |-> "candle", cells |-> Cells(c)] : c \in CandleFrames(price)}
        \cup
        {Tick(q, "quotes", Cells(Quote(n, price))) : q \in {1, 4}, n \in {21, 23}}
        \cup
        {Tick(q, "depth", Cells(<<"symbol", "text">>)
                    \o <<Rows(n, DepthRow(exchange_from_qualifier(q), price))>>) :
            q \in {1, 2, 4, 8}, n \in {MaxRows, MaxRows + 1}}
        \cup
        {Tick(6, "quotes", Cells(Quote(22, price))
                    \o BrokerRows(n, <<"count", price, "count", "count",
                                       "count", price, "count", "count">>, 22)) :
            n \in {MaxRows, MaxRows + 1}} :
        price \in {"money", "count"}}

Init ==
    /\ feed \in Feeds
    /\ frame = <<>>
    /\ column = 0
    /\ missing = 0
    /\ garbled = FALSE
    /\ event = Nothing

Column(step) ==
    /\ event = Nothing
    /\ column < Len(feed.cells)
    /\ column' = column + 1
    /\ step
    /\ UNCHANGED <<feed, event>>

Next1 == feed.cells[column + 1]

Write == Column(frame' = Append(frame, Next1) /\ UNCHANGED <<missing, garbled>>)

\* The broker has dropped a column.
Omit == Column(/\ missing < MaxMissing
               /\ missing' = missing + 1
               /\ UNCHANGED <<frame, garbled>>)

\* A cell of another type, or a text that parses as nothing in particular;
\* an array that is short or has lost a column.
Damaged(cell) ==
    {Scalar("garbled", cell.column), Scalar("text", cell.column)}
    \cup (IF cell.is = "interval" THEN {Scalar("other interval", cell.column)} ELSE {})
    \cup {[cell EXCEPT !.row = SubSeq(@, 1, n)] : n \in 0..(Len(cell.row) - 1)}

Garble == Column(/\ ~ garbled
                 /\ garbled' = TRUE
                 /\ \E cell \in Damaged(Next1) : frame' = Append(frame, cell)
                 /\ UNCHANGED missing)

Without(cell, n) == [cell EXCEPT !.row = RemoveAt(@, n)]

\* A row without one of its columns, or an array of rows all without it.
Narrowed(cell) ==
    IF cell.is = "rows"
      THEN {[cell EXCEPT !.row = [r \in DOMAIN cell.row |-> Without(cell.row[r], n)]] :
                n \in 1..Len(cell.row[1].row)}
      ELSE {Without(cell, n) : n \in DOMAIN cell.row}

OmitInRow == Column(/\ missing < MaxMissing
                    /\ missing' = missing + 1
                    /\ \E cell \in Narrowed(Next1) : frame' = Append(frame, cell)
                    /\ UNCHANGED garbled)

\* The frame ends here, whether or not it should.  That a candle nobody
\* subscribed to is not decoded changes nothing here.
Deliver ==
    /\ event = Nothing
    /\ event' = Decode(feed, frame)
    /\ UNCHANGED <<feed, frame, column, missing, garbled>>

Next == Write \/ Omit \/ Garble \/ OmitInRow \/ Deliver

Spec == Init /\ [][Next]_codecVars

----------------------------------------------------------------------------
(* Properties.                                                             *)

\* No frame, however short or damaged, makes a decoder index outside it or
\* slice past its end (src/streaming/codec.rs:124, :220, :236): the panic
\* would be in the transport's callback.
DecodersAreTotal == event # Panic

\* The frames whose layout nothing but a lower bound on their length checks.
Open ==
    \/ feed.channel = "order"
    \/ feed.channel = "tick" /\ feed.data = "quotes" /\ feed.qualifier = 6

\* The 23 cells of a derivative quote less two are those of a cash quote.
TakenForCash == feed.channel = "tick" /\ Len(feed.cells) = 23 /\ Len(frame) = 21

\* When the broker ends a frame early, or drops a column, each field of the
\* event still has the value of its own column or there is no event
\* (src/streaming/codec.rs:238): no layout is taken for another, but for a
\* derivative quote taken for a cash one, and order and commodity frames in
\* which the missing column is not the last.
ColumnsAreNotConfused ==
    event.is = "event" =>
        LET whole == Decode(feed, feed.cells)
            Same(fields, of) == \A name \in DOMAIN fields :
                                    name \in DOMAIN of /\ fields[name] = of[name]
        IN
        \/ TakenForCash
        \/ Open /\ missing > 0
        \/ whole.is = "error"
        \/ /\ Same(event.fields, whole.fields)
           /\ event.levels \subseteq whole.levels
=============================================================================
