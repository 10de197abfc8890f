\* A worker's stale session leaves the error of another transaction on a completed job.
SPECIFICATION Spec
CONSTANTS
    w2 = w2
    opened = opened
    reopened = reopened
    closed = closed
    ping = ping
    forged = forged
    broken = broken
    Jobs = {j1}
    Deliveries = {opened}
    Loops = {l1}
    Threads = {}
    Workers = {w1, w2}
    Readers = {}
    NoJob = NoJob
    NoDelivery = NoDelivery
    Event <- EventsSent
    Llm <- AllConfigured
    Faults = {"unclear"}
    MaxCopies = 1
INVARIANT CompletedHasNoError
