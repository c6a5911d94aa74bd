SPECIFICATION Spec
CONSTANTS
    Target = {s, t}
    FileKey = {f1, f2}
    NoFile = NoFile
    Package = {a1, a2}
    Name <- MCName
    Files <- MCFiles
    KeepUnreferenced = FALSE
    KeepUnusedNew = FALSE
    ExportWhen = {"changed", "never"}
    MaxFaults = 1
    s = s
    t = t
    a1 = a1
    a2 = a2
    f1 = f1
    f2 = f2
SYMMETRY TargetSymmetry
VIEW MCView
INVARIANTS
    UsedFilesKept
    PublishedFilesExist
    NoNewGarbage
    MirrorMatchesPool
