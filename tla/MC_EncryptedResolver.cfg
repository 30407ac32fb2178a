SPECIFICATION FairSpec
CONSTANT
    Queries = {q1, q2, q3}
INVARIANTS
   
    OwnAnswer
    RetryIsClean
    SentInStep
PROPERTY
    QueriesEnd
CHECK_DEADLOCK
    FALSE
