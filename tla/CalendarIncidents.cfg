SPECIFICATION Spec
CONSTANTS
    Workers = {w1}
    admin = admin
    alice = alice
    bob = bob
    minor = minor
    major = major
    event = event
    Users <- MCPair
    Admins <- MCAdmins
    Incidents = {i1, i2}
    Chronologies = {c1}
    Contents <- MCContents
    MajorContents <- MCMajor
    Keys <- MCKeys
    Empty = Empty
    MaxVersion = 1
    MaxOriginals = 1
    MaxQueued = 1
SYMMETRY MCSymmetry
INVARIANTS
    TypeOK
    ChronologyStatesFit
    NothingPendingUnderDeleted
PROPERTIES
    LiveChangedByAdmin
    NoRealert
