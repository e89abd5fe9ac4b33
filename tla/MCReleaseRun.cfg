CONSTANTS
    l1 = l1  l2 = l2  a1 = a1  a2 = a2  p1 = p1  p2 = p2
    Launches = {l1, l2}
    Allocations = {a1, a2}
    Outputs = {p1, p2}
    Amounts = {2, 4}
    Remaining = 6
    Reserve = 2
    Units = 2
    Nobody = Nobody
    Unknown = Unknown
SPECIFICATION Spec
SYMMETRY Symmetry
INVARIANTS SpendWithinBaseline CompleteIsKnown
