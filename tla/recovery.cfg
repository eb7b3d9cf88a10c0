SPECIFICATION RecoverySpec
CONSTANTS
    f1 = f1
    f2 = f2
    a = a
    b = b
    k1 = k1
    k2 = k2
    m1 = m1
    m2 = m2
    r1 = r1
    Files = {f1, f2}
    Contents = {a, b}
    Chunks = {k1, k2}
    ChunksOf <- MCChunksOf
    Models = {m1, m2}
    Runs = {r1}
    Requests <- MCRequests
    BatchFiles = 1
    InsertRows = 2
    Edits <- MCEdits
    Faults = {"stop"}
    Absent = Absent
    NoModel = NoModel
    NoRun = NoRun
    NoFile = NoFile
INVARIANTS ReadyHasText OneModel
