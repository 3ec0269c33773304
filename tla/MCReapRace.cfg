\* One shell, one reap.
SPECIFICATION LifeSpec
CONSTANTS
    Sandboxes = {n1}
    Commands = {c1}
    Reapers = {r1}
    Sources = {d1}
    Lifetimes = {1}
    DefaultLifetime = 1
    MaxTime = 2
    MaxKills = 0
    Unset = Unset
PROPERTIES
    FullLifetime
