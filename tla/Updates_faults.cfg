SPECIFICATION FairSpec
CONSTANTS
    main = main
    extra = extra
    stable = stable
    sid = sid
    testing = testing
    i1 = i1
    i2 = i2
    a = a
    b = b
    Delete = Delete
    Index = {i1, i2}
    Package = {a, b}
    Distributions <- MCDistributions
    TargetsOf <- MCTargetsOf
    Updates <- MCUpdates
    Pulls <- MCPulls
    Packages <- MCPackages
    Snapshots <- MCSnapshots
    Selections <- MCSelections
    BigCount = 1
    BigShare = 2
    MaxChanges = 1
    MaxFaults = 1
INVARIANTS
    SkippedWereProcessed
PROPERTIES
    OnlySmallLosses
    NewsArrive
