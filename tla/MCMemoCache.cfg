CONSTANTS
    o1 = o1  o2 = o2  r1 = r1  r2 = r2
    Ops = {o1, o2}
    Requests = {r1}
    Second = 1
    Lifetime = 2
    Overhead = 1
    Threshold = 1
    Probe = 1
    MaxGeneration = 1
    MaxTime = 2
    Nothing = Nothing
SPECIFICATION Spec
SYMMETRY CallSymmetry
INVARIANTS PurgeTruthful BreakerShields
