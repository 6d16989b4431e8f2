SPECIFICATION SpanSpec
CONSTANT
    Inputs <- LineInputs
INVARIANTS
    SpanTypeOK
    SpansExact
    SpansMerged
CHECK_DEADLOCK FALSE
