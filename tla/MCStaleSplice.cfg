\* The list stays as it is; DNS and the clock go on for three times an answer's life.
SPECIFICATION GateSpec
CONSTANTS
    h1 = h1
    p1 = p1
    a1 = a1
    a2 = a2
    Never = Never
    Hosts = {h1}
    Patterns = {p1}
    Covers <- OneCovers
    Addresses = {a1, a2}
    Lines <- PlainLines
    DnsTTL = 1
    MaxTime = 3
    MaxEdits = 0
SYMMETRY Symmetry
CHECK_DEADLOCK FALSE
PROPERTIES SplicedIsRecent
