SPECIFICATION FairSpec
CONSTANTS
    Target = {main, old}
    NoTarget = NoTarget
    FileKey = {f1, f2, f3}
    Package = {a1, a2, a2r, a3}
    NoPackage = NoPackage
    Name <- MCName
    Version <- MCVersion
    Files <- MCFiles
    Archive <- MCArchive
    ReadOnly = {}
    Limit <- TwoInMain
    MaxFaults = 1
    main = main
    old = old
    a1 = a1
    a2 = a2
    a2r = a2r
    a3 = a3
    f1 = f1
    f2 = f2
    f3 = f3
INVARIANTS
    LimitEnforced
    PackagesReferenced
    ReferencesExact
PROPERTIES
    ArchivedBeforeRemoval
    OperationsFinish
