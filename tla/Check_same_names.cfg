SPECIFICATION CheckSpec
CONSTANTS
    NoFn = NoFn
    NotFn = NoFn
    c1 = c1
    c2 = c2
    Local <- L3
    Extern <- OneExtern
    Path <- PathOf
    Conds <- TwoConds
    Crates <- TraitCrates
    Notes <- SameDocNotes
INVARIANTS
    SameNamesConsistent
CHECK_DEADLOCK FALSE
