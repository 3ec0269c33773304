\* Two threads that set one host's record at once.
SPECIFICATION StoreSpec
CONSTANTS
    h1 = h1
    n1 = n1
    n2 = n2
    v1 = v1
    Hosts = {h1}
    Patterns = {}
    Names = {n1, n2}
    Values = {v1}
    NoValue = NoValue
    Submitted <- MCSubmitted
    Handles = {}
    NoHandle = NoHandle
    NoSpec = NoSpec
    NoTTL = NoTTL
    Targets = {t1}
    AskedTTLs = {0}
    DefaultTTL = 1
    MaxTTL = 1
    Workers = {w1, w2}
    MaxTime = 0
INVARIANTS
    ReplacedWholesale
