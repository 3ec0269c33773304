\* Two threads, two records without a common header, two handles: enough for a
\* host_set to overlap another and for a mint to fail, expire or be revoked.
SPECIFICATION StoreLiveSpec
CONSTANTS
    h1 = h1
    n1 = n1
    n2 = n2
    v1 = v1
    Hosts = {h1}
    Patterns = {}
    Names = {n1, n2}
    Values = {v1}
    NoValue = NoValue
    Submitted <- MCSubmitted
    Handles = {k1, k2}
    NoHandle = NoHandle
    NoSpec = NoSpec
    NoTTL = NoTTL
    Targets = {t1}
    AskedTTLs = {0, 1, 3}
    DefaultTTL = 2
    MaxTTL = 2
    Workers = {w1, w2}
    MaxTime = 3
INVARIANTS
    StoreTypeOK
    SetReplacesRecord
    IssuedHandleExpires
PROPERTIES
    OperationsAnswered
