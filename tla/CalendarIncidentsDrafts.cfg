SPECIFICATION Spec
CONSTANTS
    Workers = {w1}
    admin = admin
    alice = alice
    bob = bob
    minor = minor
    major = major
    event = event
    Users <- MCUsers
    Admins <- MCAdmins
    Incidents = {i1, i2, i3}
    Chronologies = {}
    Contents = {major}
    MajorContents <- MCMajor
    Keys = {}
    Empty = Empty
    MaxVersion = 1
    MaxOriginals = 1
    MaxQueued = 0
SYMMETRY MCMemberSymmetry
INVARIANTS
    OneOpenDraft
