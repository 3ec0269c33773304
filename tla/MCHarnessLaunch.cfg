SPECIFICATION MCSpec
CONSTANTS
    Launches = {l1, l2}
    Names = {n1, n2}
    Blocks = {b1}
    Texts <- MCTexts
    MaxCrashes = 1
    MaxEdits = 2
    Absent = Absent
    Models = {m1, m2}
    Windows = {2, 4, 8}
    FillerSize = 5
    FillerTokens = {3, 5}
    Listings <- MCListings
    Trainings <- MCTrainings
    None = None
    Pins = {6}
    MaxCommands = 3
    ScopeFiles <- MCScopeFiles
    Payloads <- MCPayloads
    FileExts = {"sh"}
    Shorter <- MCShorter
    NoKey = NoKey
    Sandboxes = {s1, s2}
    Shells = {c1, c2}
    FirstPort = 1
    LastPort = 2
    ByHand = {1}
    NoPort = NoPort
    m1 = m1
    m2 = m2
    n1 = n1
    n2 = n2
    b1 = b1
SYMMETRY MCSymmetry
\* Launches, crashes, commands and edits are bounded.
CHECK_DEADLOCK FALSE
INVARIANTS
    ConfigTypeOK
    LiveIsWhole
    UserFileKept
    BackupIsTheUsers
    SettledHasText
    ContextTypeOK
    WindowFits
    PinnedIsKept
    FailsSafe
    PortsApart

    
