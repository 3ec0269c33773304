SPECIFICATION MCSpec
CONSTANTS
    Calls <- MCCalls
    FileMax = 1
    TotalMax = 3
    DayLength = 2
    MaxTime = 3
    MaxRecords = 5
    LogMax = 4
    TrimEvery = 2
    MaxDecisions = 9
    MaxSetbacks = 1
    Messages <- MCMessages
    Unset = Unset
    p1 = p1
    p2 = p2
    h1 = h1
    h2 = h2
    h3 = h3
    Posts = {p1, p2}
    Hosts = {h1, h2, h3}
    Refused = {h3}
    Requests <- MCRequests
    NoHost = NoHost
CHECK_DEADLOCK FALSE
INVARIANT TailIsRecent
