SPECIFICATION Spec
CONSTANTS
    Names = {u1, u2, a1, a2, o, l, h}
    Uploads = {u1, u2}
    Contents <- MCContents
    MayHold <- MCMayHold
    Beginnings <- MCBeginnings
    None = None
    Distributions = {sid, exp}
    Packages = {s}
    Kind <- MCKind
    Lists <- MCLists
    Inside <- MCInside
    TrackExtras <- MCTrackExtras
    MaxFaults = 1
    Permitted <- MCPermitted
    Malformed = {odd}
    BadSignature = {bad}
    Hooked = {h}
    Rules <- MCRules
    Includable <- MCIncludable
    DeleteLevels = {1, 2}
    u1 = u1
    u2 = u2
    a1 = a1
    a2 = a2
    o = o
    l = l
    h = h
    s = s
    sid = sid
    exp = exp
    cu1 = cu1
    cu2 = cu2
    ca1 = ca1
    ca2 = ca2
    co = co
    cl = cl
    bad = bad
    odd = odd
INVARIANTS
    PublishedWhole
    ProcessedAreIn
PROPERTIES
    MovedIsThere
