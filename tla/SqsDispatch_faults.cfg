\* One job, two attempts of each AWS call, two invocations with batches of up to
\* two records, a stray message, every failure.
SPECIFICATION Spec
CONSTANTS
    flaky = flaky
    api = api
    legacy = legacy
    bare = bare
    forFlaky = forFlaky
    forAll = forAll
    Unset = Unset
    Jobs = {flaky}
    Strays = {stray}
    Workflow <- WorkflowOf
    Handlers = {api, legacy, bare}
    Settings <- SettingsOf
    Machines = {forFlaky, forAll}
    Lambdas = {l1, l2}
    BatchSize = 2
    Faults = {"request", "unclear", "crash", "slow", "again"}
    Attempts = 2
    MaxReceives = 2
    MaxReceivesInAll = 4
CONSTRAINT FewReceives
SYMMETRY Symmetry
INVARIANTS TypeOK NothingAcceptedIsDropped DuplicatesAreExplained
CHECK_DEADLOCK FALSE
