CONSTANTS
    t1 = t1  t2 = t2  t3 = t3  n1 = n1  n2 = n2
    Texts = {t1, t2, t3}
    Names = {n1, n2}
    NoName = NoName
    LastSeq = 4
    MaxLinked = 2
    MaxMessages = 3
    MaxRoom = 3
    MaxEvidence = 5
SPECIFICATION SelectionSpec
SYMMETRY Interchangeable
INVARIANTS SeparationReported NewerStatementFirst
CHECK_DEADLOCK FALSE
