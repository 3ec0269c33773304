SPECIFICATION GateSpec
CONSTANTS
    h1 = h1
    p1 = p1
    a1 = a1
    a2 = a2
    Never = Never
    Hosts = {h1}
    Patterns = {p1}
    Covers <- OneCovers
    Addresses = {a1, a2}
    Lines <- PlainLines
    DnsTTL = 1
    MaxTime = 2
    MaxEdits = 2
SYMMETRY Symmetry
CHECK_DEADLOCK FALSE
PROPERTIES HotReloaded
