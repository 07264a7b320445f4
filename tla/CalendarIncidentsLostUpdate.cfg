SPECIFICATION Spec
CONSTANTS
    Workers = {w1, w2}
    admin = admin
    alice = alice
    bob = bob
    minor = minor
    major = major
    event = event
    Users <- MCPair
    Admins <- MCAdmins
    Incidents = {i1, i2}
    Chronologies = {}
    Contents = {minor}
    MajorContents = {}
    Keys = {}
    Empty = Empty
    MaxVersion = 3
    MaxOriginals = 1
    MaxQueued = 0
PROPERTY NoLostUpdate
