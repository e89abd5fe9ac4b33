CONSTANTS
    t1 = t1  t2 = t2  k1 = k1  k2 = k2  e1 = e1  a = a  b = b  s1 = s1  s2 = s2
    NoExt = NoExt  NoKey = NoKey  NoReq = NoReq  NoTask = NoTask
    Tasks = {t1, t2}
    Requests <- OverlappingRequests
    Foreign <- OtherStoreFile
    IndexLimit = 2
    ImportBatch = 1
    MaxRevision = 3
SPECIFICATION Spec
SYMMETRY TaskSymmetry
INVARIANTS TypeOK RevisionLockstep DirtyOnlyUnderLock ReceiptsHold
    TreeDescribesHistory AcknowledgedKept SeqsUnique IssuedBelowHighWater ImportAlone
PROPERTY ImplementsLog
