SPECIFICATION SpanSpec
CONSTANT
    Inputs <- BlankInputs
INVARIANT
    SpansExact
CHECK_DEADLOCK FALSE
