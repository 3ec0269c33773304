\* One sandbox, two shells and the timer's reap; the clock passes a lifetime.
SPECIFICATION LifeLiveSpec
CONSTANTS
    Sandboxes = {n1}
    Commands = {c1, c2}
    Reapers = {r1}
    Sources = {d1}
    Lifetimes = {1}
    DefaultLifetime = 1
    MaxTime = 2
    MaxKills = 1
    Unset = Unset
INVARIANTS
    LifeTypeOK
    LeaseKept
    ViewUnderContainers
PROPERTIES
    ReapsOnlyExpired
    OverdueEnds
