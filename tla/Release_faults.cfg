SPECIFICATION Spec
CONSTANTS
    Targets <- MCTargets
    IndexFile = {plain, gz, other}
    FilesOf <- MCFilesOf
    MaxChanges = 2
    MaxFaults = 2
    main = main
    contrib = contrib
    plain = plain
    gz = gz
    other = other
VIEW MCView
INVARIANTS
    IndexConsistent
    CacheTruthful
    ExportCurrent
    MirrorMatchesDists
