SPECIFICATION LibrarySpec
CONSTANTS
    None = None
    Absent = Absent
    Garbled = Garbled
    FileRows <- MCRows
    Headers <- MCHeaders
    MaxRows = 3
    MaxFiles = 1
    MaxDepthRows = 2
    MaxMissing = 1
    MaxBytes = 2
    Handles = {h1, h2}
    Emitters = {e1}
    Subscriptions = {"quote", "1MIN", "5MIN"}
    KindOf <- MCKindOf
    IntervalOf <- MCIntervalOf
    Limit = 2
    Capacity = 1
    MaxConnections = 3
    MaxMoves = 3
    StockCodes = {"A", "B"}
    Amounts = {0, 1}
    Counts = {0, 1, 2}
    Dates = {1, 2}
    Instants = {0, 500, 1000, 864000000, 864000500}
    Texts = {"", "x", "y", "too long"}
    Asked <- MCAsked
    MaxCalls <- MCMaxCalls
SYMMETRY Interchangeable
INVARIANTS
    LastRowWins
    CountsReconcile
    FilesDoNotOverlap
    WireDistinguishes
    BuiltBodiesHold
    MutationsAreNotReads
    ChainKeepsIdentity
    DecodersAreTotal
    ColumnsAreNotConfused
    OkMeansApplied
    PlainErrorMeansRefused
    ReplayBalances
    ParkedLossBounded
CHECK_DEADLOCK FALSE
