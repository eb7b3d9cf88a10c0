SPECIFICATION ServerSpec
CONSTANTS
    f1 = f1
    a = a
    k1 = k1
    m1 = m1
    r1 = r1
    c1 = c1
    Files = {f1}
    Contents = {a}
    Chunks = {k1}
    ChunksOf <- MCChunksOf
    Models = {m1}
    Runs = {r1}
    Requests <- MCRequests
    BatchFiles = 1
    InsertRows = 1
    Edits <- MCEdits
    Faults = {"stop", "lance"}
    Absent = Absent
    NoModel = NoModel
    NoRun = NoRun
    NoFile = NoFile
    Readers = {c1}
    Callers = {"mcp", "cli"}
    None = None
INVARIANTS ServerTypeOK PhaseHasItsTier CacheIsCurrent
