SPECIFICATION Spec
CONSTANTS
    Webhooks = {hook}
    Calls = {c1, c2}
    Workers = {w}
    PoolSize = 2
    Free = Free
    Failing = {hook}
INVARIANTS
    TypeOK
    RefusedAreRecorded
    LinesBelong
    TraceArrives
    StatementsApply
    ServedSchemaIsCurrent
PROPERTY
    EveryRequestIsAnswered
CHECK_DEADLOCK FALSE
