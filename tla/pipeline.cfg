SPECIFICATION Spec
CONSTANTS
    f1 = f1
    f2 = f2
    a = a
    b = b
    k1 = k1
    k2 = k2
    m1 = m1
    m2 = m2
    r1 = r1
    r2 = r2
    Files = {f1, f2}
    Contents = {a, b}
    Chunks = {k1, k2}
    ChunksOf <- MCChunksOf
    Models = {m1}
    Runs = {r1}
    Requests <- PlainRequests
    BatchFiles = 2
    InsertRows = 1
    Edits <- PlainEdits
    Faults = {"stop", "read", "lance", "text"}
    Absent = Absent
    NoModel = NoModel
    NoRun = NoRun
    NoFile = NoFile
INVARIANTS TypeOK IndexedHasVectors IndexedHasText TiersNeverCoexist CleanRunCovers FullNeedsReady
PROPERTIES VectorsKeepContract
