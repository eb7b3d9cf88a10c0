SPECIFICATION Spec
CONSTANTS
    f1 = f1
    f2 = f2
    a = a
    b = b
    k1 = k1
    k2 = k2
    m1 = m1
    m2 = m2
    r1 = r1
    r2 = r2
    Files = {f1}
    Contents = {a, b}
    Chunks = {k1, k2}
    ChunksOf <- MCChunksOf
    Models = {m1, m2}
    Runs = {r1, r2}
    Requests <- MixedRequests
    BatchFiles = 2
    InsertRows = 2
    Edits <- OverlapEdits
    Faults = {"stop"}
    Absent = Absent
    NoModel = NoModel
    NoRun = NoRun
    NoFile = NoFile
SYMMETRY RunsAreAlike
INVARIANTS IndexedHasText
PROPERTIES VectorsKeepContract
