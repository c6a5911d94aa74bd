SPECIFICATION FairSpec
CONSTANTS
    i1 = i1
    f1 = f1
    gz = gz
    Diff = Diff
    Plain = Plain
    Index = {i1}
    Encodings <- MCEncodings
    Packed = {gz}
    Listed = {Diff, Plain}
    Verify = TRUE
    InRelease = TRUE
    Fallback = TRUE
    MaxRedirects = 1
    File = {f1}
    Latest = 3
INVARIANTS
    ContentsTrue
    AllThere
PROPERTIES
    Ends
