SPECIFICATION Spec
CONSTANT
    Queries = {q1, q2, q3}
INVARIANT
    StaleStateDetected
CHECK_DEADLOCK
    FALSE
