SPECIFICATION CheckSpec
CONSTANTS
    NoFn = NoFn
    NotFn = NoFn
    c1 = c1
    c2 = c2
    Local <- L3
    Extern <- OneExtern
    Path <- PathOf
    Conds <- TwoConds
    Crates <- AllCrates
    Notes <- AllNotes
INVARIANTS
    CheckTypeOK
    ReportExact
    BrokenFileIsNoFile
    ErrorsListBadCalls
    StatsExact
    CrashHasCause
    FinePassIsCoarsePass
    PassIsFinal
PROPERTIES
    Concludes
CHECK_DEADLOCK FALSE
