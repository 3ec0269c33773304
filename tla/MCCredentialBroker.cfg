SPECIFICATION BrokerLiveSpec
CONSTANTS
    h1 = h1
    h2 = h2
    p1 = p1
    n1 = n1
    v1 = v1
    v2 = v2
    Hosts = {h1, h2}
    Patterns = {p1}
    Names = {n1}
    Values = {v1, v2}
    NoValue = NoValue
    Submitted <- MCSubmitted
    Handles = {k1}
    NoHandle = NoHandle
    NoSpec = NoSpec
    NoTTL = NoTTL
    Targets = {t1}
    AskedTTLs = {0}
    DefaultTTL = 1
    MaxTTL = 1
    Workers = {w1}
    MaxTime = 1
    Matching <- MCMatching
    BadHandle = BadHandle
INVARIANTS
    BrokerTypeOK
    InjectedWasOnOffer
    ExactRecordApplies
    HandleDecides
    WireIsClean
PROPERTIES
    RequestDecided
