CONSTANTS
    t1 = t1  t2 = t2  r1 = r1  k1 = k1  k2 = k2  a = a  b = b
    NoExt = NoExt  NoKey = NoKey  NoReq = NoReq  NoTask = NoTask
    Tasks = {t1, t2}
    Readers = {r1}
    Requests <- OneBatch
    Foreign <- OtherStoreFile
    IndexLimit = 1
    ImportBatch = 1
    RecentMessages = 2
    MaxRevision = 3
SPECIFICATION ReadersSpec
PROPERTY ContextReturnsStored
