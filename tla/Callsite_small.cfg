SPECIFICATION CallsiteSpec
CONSTANTS
    Words <- AllWords
    Lower <- LowerOf
    Substr <- Contained
    Cases <- AllCases
INVARIANTS
    CallsiteTypeOK
    Implements
    OwnComment
    NamedInLowerCase
PROPERTY
    Answered
CHECK_DEADLOCK FALSE
