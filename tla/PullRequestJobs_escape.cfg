\* A worker whose settings name no usable provider leaves the job queued.
SPECIFICATION Spec
CONSTANTS
    w2 = w2
    opened = opened
    reopened = reopened
    closed = closed
    ping = ping
    forged = forged
    broken = broken
    Jobs = {j1}
    Deliveries = {opened}
    Loops = {l1}
    Threads = {}
    Workers = {w2}
    Readers = {}
    NoJob = NoJob
    NoDelivery = NoDelivery
    Event <- EventsSent
    Llm <- OneMisconfigured
    Faults = {}
    MaxCopies = 1
INVARIANT FailureIsPersisted
