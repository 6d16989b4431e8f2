SPECIFICATION DriverSpec
CONSTANTS
    NoFn = NoFn
    NotFn = NoFn
    c1 = c1
    c2 = c2
    Local <- L3
    Extern <- OneExtern
    Path <- PathOf
    Conds <- TwoConds
    Crates <- AllCrates
    Notes <- AllNotes
    Invocations <- SomeInvocations
INVARIANTS
    DriverTypeOK
    VerdictExact
    MessagesTrue
    GuessedCratesChecked
PROPERTY
    DriverEnds
CHECK_DEADLOCK FALSE
