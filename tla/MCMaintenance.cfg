CONSTANTS
    p1 = p1  p2 = p2  b1 = b1  b2 = b2
    Processes = {p1, p2}
    Paths = {b1, b2}
    NoProcess = NoProcess
    Gone = Gone
    MaxSeq = 3
    MaxRevision = 4
SPECIFICATION Spec
SYMMETRY Interchangeable
INVARIANTS AcceptedIsExact BackupIsWhatWasReplaced
