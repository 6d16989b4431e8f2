SPECIFICATION Spec
CONSTANTS
    NoFn = NoFn
    NotFn = NoFn
    Local <- L4
    Extern <- OneExtern
    Path <- PathOf
    Crates <- AllCrates
INVARIANTS
    TypeOK
    SearchInv
    VisitedExactly
    CallSitesExact
    PathInv
    DepthInv
    ShortestThrough
    RequestedAnalyzed
    DependencyNeverPanics
PROPERTIES
    ImplementsSearch
    FirstPathKept
    Terminates
CHECK_DEADLOCK FALSE
