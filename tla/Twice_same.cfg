SPECIFICATION TwiceSpec
CONSTANTS
    NoFn = NoFn
    NotFn = NoFn
    Local <- L4
    Extern <- OneExtern
    Path <- Shared
    Crates <- Crates3
INVARIANTS
    SameAnalysis
CHECK_DEADLOCK FALSE
