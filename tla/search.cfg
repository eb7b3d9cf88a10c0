SPECIFICATION Spec
CONSTANTS
    Callers = {c1, c2}
    Ids = {1, 2, 3, 4}
    Files = {"a.rs", "b.c++"}
    FileOf <- MCFileOf
    Extensions = {"rs", "c++"}
    ExtOf <- MCExtOf
    Alphanumeric = {"rs"}
    Backends = {"openai", "onnx"}
    Worlds <- MCWorlds
    RrfK = 60
    Denominator = 495593280
    Multiplier = 2
    MaxCandidates = 3
    FilterFactor = 2
    FilteredMin = 2
    FilteredMax = 4
SYMMETRY RequestsAreAlike
CHECK_DEADLOCK FALSE
INVARIANTS SearchTypeOK RankedWell QueryMatchesRows OneEmbedder HealthIsCurrent
