\* Two workers race for two runs, under every failure.
SPECIFICATION Spec
CONSTANTS
    retry = retry
    refund = refund
    login = login
    payments = payments
    accounts = accounts
    load = load
    loadA = loadA
    loadB = loadB
    Pending = Pending
    Placeholder = Placeholder
    Tests = {retry, refund, login}
    Keys = {load, loadA}
    Suite <- SuiteOf
    Tokens <- TokensOf
    NameKey <- NameKeys
    Threads = {t1}
    Workers = {w1, w2}
    TestLimit = 1
    SuiteLimit = 2
    Faults = {"request", "unclear", "redelivery", "crash"}
    MaxRuns = 2
    MaxCopies = 2
SYMMETRY Symmetry
INVARIANTS TypeOK ClustersStayInSuite
PROPERTY KeepsContract
CHECK_DEADLOCK FALSE
