CONSTANTS
    w1 = w1  w2 = w2  c1 = c1  c2 = c2
    Writers = {w1, w2}
    Clearers = {c1, c2}
    Nobody = Nobody
SPECIFICATION FairGateSpec
INVARIANTS InflightExact GateNotLeftClosed
    DeleteFindsNoWriter
PROPERTIES WriterEnds ClearEnds
