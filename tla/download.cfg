SPECIFICATION Spec
CONSTANTS
    Runs = {r1}
    Artifacts = 2
    v1 = v1
    v2 = v2
    Versions = {v1, v2}
    FreeRepository = FALSE
    SizeOf <- MCSizeOf
    Inodes = {i1, i2, i3, i4}
    MaxPart = 2
    RangesHonoured = {TRUE, FALSE}
    Framings = {"length"}
    MaxFaults = 3
INVARIANTS DownloadTypeOK FinalIsWhole PartIsPrefix
PROPERTIES InstalledStays RetriesFinish
