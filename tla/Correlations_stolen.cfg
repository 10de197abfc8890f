SPECIFICATION Spec
CONSTANTS
    one = one
    two = two
    three = three
    four = four
    c1 = c1
    c2 = c2
    d1 = d1
    t1 = t1
    t2 = t2
    t3 = t3
    r1 = r1
    r2 = r2
    note = note
    logs = logs
    mine = mine
    Null = Null
    Zero = Zero
    Ids = {one, two, three, four, Zero}
    Tags = {c1, c2, d1, t1, t2, t3, r1, r2, note, logs, mine, Zero}
    Sessions = {s1}
    LogGroup = logs
    RequestIds = {r1}
    MaxRows = 3
    Jobs <- TwoRuns
    Observations <- Nothing
    NoteKeys <- Keys
    Metadata <- Ungiven
    CheckRun <- CheckRunsOfTwo
    Delivery <- DeliveriesOfTwo
    Stream <- StreamsOfTwo
    Task <- TasksOfTwo
INVARIANT
    TriageIsTraced
CHECK_DEADLOCK FALSE
