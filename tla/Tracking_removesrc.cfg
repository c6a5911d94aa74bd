SPECIFICATION Spec
CONSTANTS
    Source = {s1, s2}
    NoSource = NoSource
    FileKey = {fo, fb}
    Package = {p1, p2, b1}
    NoPackage = NoPackage
    Key <- MCKey
    SourceOf <- MCSourceOf
    CopiedAs <- MCCopiedAs
    Files <- MCFiles
    SourcePackage <- MCSourcePackage
    WithEpoch = {}
    FileType <- MCFileType
    Settings <- RemovesrcSettings
    Options = {"includechanges"}
    MaxUses = 2
    MaxFaults = 0
    s1 = s1
    s2 = s2
    p1 = p1
    p2 = p2
    b1 = b1
    c1 = c1
    b2 = b2
    n1 = n1
    fo = fo
    fb = fb
    fc = fc
    fx = fx
PROPERTY
    SourceRemoved
