CONSTANTS
    o1 = o1  o2 = o2  r1 = r1  r2 = r2
    Ops = {o1, o2}
    Requests = {r1}
    Second = 2
    Lifetime = 4
    Overhead = 2
    Threshold = 1
    Probe = 1
    MaxGeneration = 0
    MaxTime = 8
    Nothing = Nothing
SPECIFICATION Spec
SYMMETRY CallSymmetry
INVARIANT LifetimeKept
