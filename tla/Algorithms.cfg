SPECIFICATION AlgorithmsSpec
CONSTANTS
    Version <- MCVersion
    MaxPatchCount = 3
    MaxExports = 4
    MaxDate = 2
    MaxFaults = 1
    String <- MCString
    Pattern <- MCPattern
    PackageVersion <- MCPackageVersion
    Formula <- MCFormula
    FilterList <- MCFilterList
    Question <- MCQuestion
    UploadersFiles <- MCUploadersFiles
    Delivery <- MCDelivery
    Upload <- MCUpload
    VerifyRelease <- MCVerifyRelease
    Release <- MCRelease
    Claim <- MCClaim
    Content <- MCContent
    Fields <- MCFields
    Flooding <- MCFlooding
    Reporting <- MCReporting
    Building <- MCBuilding
    Architecture <- MCArchitecture
    Distributions <- MCDistributions
    TargetOrder <- MCTargetOrder
    Request <- MCRequest
    Failures <- MCFailures
    MaxIncludes = 2
    File <- MCFile
    Text <- MCText
    MaxCommands = 3
CHECK_DEADLOCK FALSE
INVARIANTS
    EditsKept
    IndexServes
    RulesMean
    RightsMean
    HashesKept
    CommandsMean
