SPECIFICATION PlacedSpec
CONSTANTS
    NoFn = NoFn
    NotFn = NoFn
    c1 = c1
    c2 = c2
    Local <- L2
    Extern <- OneExtern
    Path <- PathOf
    Conds <- TwoConds
    Crates <- CratesOf
    Notes <- NotesOf
    Words <- AllWords
    Lower <- LowerOf
    Substr <- Contained
    NameWords <- NamesOf
    Sources <- SmallSources
INVARIANT
    PassIsJustified
CHECK_DEADLOCK FALSE
