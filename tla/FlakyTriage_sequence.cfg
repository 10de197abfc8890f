\* One worker and the history it builds; nothing fails but the LLM and the
\* dispatch.
SPECIFICATION Spec
CONSTANTS
    retry = retry
    refund = refund
    login = login
    payments = payments
    accounts = accounts
    load = load
    loadA = loadA
    loadB = loadB
    Pending = Pending
    Placeholder = Placeholder
    Tests = {retry, refund}
    Keys = {load, loadA, loadB}
    Suite <- SuiteOf
    Tokens <- TokensOf
    NameKey <- NameKeys
    Threads = {t1}
    Workers = {w1}
    TestLimit = 2
    SuiteLimit = 2
    Faults = {}
    MaxRuns = 4
    MaxCopies = 1
SYMMETRY Symmetry
INVARIANTS ReuseIsJustified BestMatchIsFound
PROPERTY SameAnswerSameCluster
CHECK_DEADLOCK FALSE
