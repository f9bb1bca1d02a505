--------------------------- MODULE SecurityMaster ---------------------------
(***************************************************************************)
(* SecurityMaster of src/instruments.rs: the files of the security master  *)
(* are ingested one after another, each row by row, into one map from      *)
(* instrument keys to records.  A row is what the csv reader makes of one  *)
(* line: per column a value, or Absent when the cell is empty; what cannot *)
(* be parsed is Garbled.  The columns that are never looked up by name are *)
(* one, "others", empty when they all are.  One action is one turn of ingest_file's loop.    *)
(***************************************************************************)
EXTENDS Integers, Sequences, FiniteSets

CONSTANTS Rows,      \* the rows files can have
          Headers,   \* the headers they can have, as sets of columns
          Absent,    \* an empty cell
          Garbled,   \* a cell its parser refuses
          MaxRows,   \* bound on the rows ever read
          MaxFiles   \* bound on the kinds of files loaded

VARIABLES records,      \* SecurityMaster.records
          loaded,       \* SecurityMaster.loaded
          malformed, duplicates,   \* InstrumentDiagnostics
          reading,      \* the kind of file being ingested, or Absent
          header,       \* its columns
          accepted,     \* history: the records inserted, in order, and their files
          ignored       \* history: rows that were blank or of no interest

fileVars == <<reading, header>>
countVars == <<malformed, duplicates, ignored>>
masterVars == <<records, loaded, countVars, fileVars, accepted>>

----------------------------------------------------------------------------
(* One row.                                                                *)

MasterFileKind ==
    {"BseCash", "NseCurrency", "BseDerivatives", "NseDerivatives", "Mcx",
     "MutualFunds", "NseCash"}

Cash == {"NseCash", "BseCash"}

X_ExchangeOf(kind) ==
    CASE kind = "NseCash" -> "Nse"
      [] kind = "BseCash" -> "Bse"
      [] kind = "NseDerivatives" \/ kind = "BseDerivatives" -> "Nfo"
      [] kind = "NseCurrency" -> "Ndx"
      [] OTHER -> "Mcx"

\* A file has the rows of one exchange.
ExchangeOf(kind) ==
    CASE kind = "NseCash"        -> "Nse"
      [] kind = "BseCash"        -> "Bse"
      [] kind = "NseDerivatives" -> "Nfo"
      [] kind = "BseDerivatives" -> "Bfo"
      [] kind = "NseCurrency"    -> "Ndx"
      [] OTHER                   -> "Mcx"

field(row, name) == IF name \in header THEN row[name] ELSE Absent

required(row, name) == field(row, name) \notin {Absent, Garbled}

\* Every cell of the row counts, whatever its column.
Blank(row) == \A name \in header : row[name] = Absent

Right(row) == field(row, "optiontype")

IsRight(text) == text \in {"call", "put"}

\* What a row must have for a record to be made of it.
Parses(kind, row) ==
    /\ field(row, "token") # Absent
    /\ required(row, "shortname")
    /\ kind \notin Cash =>
        /\ required(row, "expirydate")
        /\ IsRight(Right(row)) => required(row, "strikeprice")

\* Whatever is not a right makes a future.
InstrumentKey(kind, row) ==
    LET option == kind \notin Cash /\ IsRight(Right(row)) IN
    [exchange |-> ExchangeOf(kind),
     code     |-> field(row, "shortname"),
     expiry   |-> IF kind \in Cash THEN Absent ELSE field(row, "expirydate"),
     right    |-> IF option THEN Right(row) ELSE Absent,
     strike   |-> IF option THEN field(row, "strikeprice") ELSE Absent]

parse_record(kind, row) ==
    [key |-> InstrumentKey(kind, row), token |-> field(row, "token")]

----------------------------------------------------------------------------

Keys == DOMAIN records

RowsRead == Len(accepted) + malformed + ignored

Init ==
    /\ records = [k \in {} |-> Absent]
    /\ loaded = {}
    /\ malformed = 0
    /\ duplicates = 0
    /\ reading = Absent
    /\ header = {}
    /\ accepted = <<>>
    /\ ignored = 0

\* ingest_file on a known name: the columns it insists on must be there.
OpenFile(kind, columns) ==
    /\ reading = Absent
    /\ kind \in loaded \/ Cardinality(loaded) < MaxFiles
    /\ kind # "MutualFunds" => "token" \in columns
    /\ kind \in Cash => "shortname" \in columns
    /\ reading' = kind
    /\ header' = columns
    /\ UNCHANGED <<records, loaded, countVars, accepted>>

\* A row that is blank, or of a file whose rows are not kept.
SkipRow(row) ==
    /\ reading # Absent
    /\ RowsRead < MaxRows
    /\ Blank(row) \/ reading = "MutualFunds"
    /\ ignored' = ignored + 1
    /\ UNCHANGED <<records, loaded, malformed, duplicates, fileVars, accepted>>

MalformedRow(row) ==
    /\ reading \notin {Absent, "MutualFunds"}
    /\ RowsRead < MaxRows
    /\ ~ Blank(row)
    /\ ~ Parses(reading, row)
    /\ malformed' = malformed + 1
    /\ UNCHANGED <<records, loaded, duplicates, ignored, fileVars, accepted>>

X_KeepsFirst(row) ==
    LET record == parse_record(reading, row) IN
    /\ reading \notin {Absent, "MutualFunds"}
    /\ RowsRead < MaxRows
    /\ ~ Blank(row)
    /\ Parses(reading, row)
    /\ records' = [k \in Keys \cup {record.key} |->
                    IF k \in Keys THEN records[k] ELSE record]
    /\ duplicates' = IF record.key \in Keys THEN duplicates + 1 ELSE duplicates
    /\ accepted' = Append(accepted, [record |-> record, file |-> reading])
    /\ UNCHANGED <<loaded, malformed, ignored, fileVars>>

X_CountsLoadedOnly(row) ==
    LET record == parse_record(reading, row) IN
    /\ reading \notin {Absent, "MutualFunds"}
    /\ RowsRead < MaxRows
    /\ ~ Blank(row)
    /\ Parses(reading, row)
    /\ records' = [k \in Keys \cup {record.key} |->
                    IF k = record.key THEN record ELSE records[k]]
    /\ duplicates' = IF record.key \in Keys /\ reading \in loaded
                       THEN duplicates + 1 ELSE duplicates
    /\ accepted' = Append(accepted, [record |-> record, file |-> reading])
    /\ UNCHANGED <<loaded, malformed, ignored, fileVars>>

InsertRow(row) ==
    LET record == parse_record(reading, row) IN
    /\ reading \notin {Absent, "MutualFunds"}
    /\ RowsRead < MaxRows
    /\ ~ Blank(row)
    /\ Parses(reading, row)
    /\ records' = [k \in Keys \cup {record.key} |->
                    IF k = record.key THEN record ELSE records[k]]
    /\ duplicates' = IF record.key \in Keys THEN duplicates + 1 ELSE duplicates
    /\ accepted' = Append(accepted, [record |-> record, file |-> reading])
    /\ UNCHANGED <<loaded, malformed, ignored, fileVars>>

\* A row of another width, or one that is not CSV, ends the file with an
\* error; what came before it stays.
BreakOff ==
    /\ reading # Absent
    /\ reading' = Absent
    /\ header' = {}
    /\ UNCHANGED <<records, loaded, countVars, accepted>>

FinishFile ==
    /\ reading # Absent
    /\ loaded' = loaded \cup {reading}
    /\ reading' = Absent
    /\ header' = {}
    /\ UNCHANGED <<records, countVars, accepted>>

ReadRow(row) == SkipRow(row) \/ MalformedRow(row) \/ InsertRow(row)

Next ==
    \/ \E kind \in MasterFileKind, columns \in Headers : OpenFile(kind, columns)
    \/ \E row \in Rows : ReadRow(row)
    \/ BreakOff
    \/ FinishFile

Spec == Init /\ [][Next]_masterVars

----------------------------------------------------------------------------
(* Properties.                                                             *)

\* lookup answers with the latest row of a key, over all files and whether
\* or not their ingestion ended well (src/instruments.rs:187): nothing
\* accepted is forgotten, and nothing else is found.
LastRowWins ==
    LET key(i) == accepted[i].record.key IN
    /\ \A i \in DOMAIN accepted : key(i) \in Keys
    /\ \A k \in Keys :
        \E i \in DOMAIN accepted :
            /\ records[k] = accepted[i].record /\ key(i) = k
            /\ \A j \in DOMAIN accepted : i < j => key(j) # k

\* len() and the diagnostics account for every row that was accepted
\* (src/instruments.rs:188), across files and failures.
CountsReconcile ==
    /\ IsFiniteSet(Keys)
    /\ Cardinality(Keys) + duplicates = Len(accepted)

\* Two files never compete for a key (src/instruments.rs:257): what one put
\* into the map no other replaces, in whatever order they are read and
\* whether or not they end well, and no row counts as a duplicate of
\* another file's.
FilesDoNotOverlap ==
    \A i, j \in DOMAIN accepted :
        accepted[i].record.key = accepted[j].record.key
            => accepted[i].file = accepted[j].file
=============================================================================
