SPECIFICATION CallsiteSpec
CONSTANTS
    Words <- AllWords
    Lower <- LowerOf
    Substr <- Contained
    Cases <- TraitCases
INVARIANT
    DefinitionJustifiesNothing
CHECK_DEADLOCK FALSE
