\* Every failure: two API processes, two workers, a client, a job sent at most twice.
SPECIFICATION Spec
CONSTANTS
    w2 = w2
    opened = opened
    reopened = reopened
    closed = closed
    ping = ping
    forged = forged
    broken = broken
    Jobs = {j1, j2}
    Deliveries = {opened, ping}
    Loops = {l1, l2}
    Threads = {t1}
    Workers = {w1, w2}
    Readers = {}
    NoJob = NoJob
    NoDelivery = NoDelivery
    Event <- EventsSent
    Llm <- AllConfigured
    Faults = {"request", "unclear", "redelivery", "escape", "crash"}
    MaxCopies = 2
SYMMETRY Symmetry
INVARIANTS TypeOK OneRecordPerDelivery NoSilentLoss TraceBeforeWork AnswersAreHonest
    SettledOnce ErrorMatchesStatus
PROPERTIES PatchNeverReverts KeepsContract
