\* Up to four files on pages of two, two pushes, a token that outlives one page.
SPECIFICATION Spec
CONSTANTS
    f1 = f1
    f2 = f2
    f3 = f3
    f4 = f4
    f5 = f5
    Files = {f1, f2, f3, f4, f5}
    Textual = {f1, f2, f4, f5}
    Contents <- PullRequests
    PageSize = 2
    Life = 5
    Margin = 3
    Delay = 2
    None = None
    MaxClock = 7
    MaxPushes = 2
INVARIANTS TypeOK TokenOutlivesRequest QuietFetchIsExact SlipsAreBounded
CHECK_DEADLOCK FALSE
