\* One API process, every kind of event, a client, a worker without a provider;
\* no duplicates and no unclear dispatch.
SPECIFICATION FairSpec
CONSTANTS
    w2 = w2
    opened = opened
    reopened = reopened
    closed = closed
    ping = ping
    forged = forged
    broken = broken
    Jobs = {j1, j2}
    Deliveries = {opened, closed, forged, broken}
    Loops = {l1}
    Threads = {t1}
    Workers = {w1, w2}
    Readers = {r1}
    NoJob = NoJob
    NoDelivery = NoDelivery
    Event <- EventsSent
    Llm <- OneMisconfigured
    Faults = {"request", "escape"}
    MaxCopies = 1
INVARIANTS NoConflict ReadersSeeTheSummary
PROPERTIES EveryJobSettles KeepsFinalContract
