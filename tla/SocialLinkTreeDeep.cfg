\* Deep trees: four links of one admin, all at one instant.
SPECIFICATION Spec
CONSTANTS
    admin = admin
    alice = alice
    Links = {1, 2, 3, 4}
    Users = {admin}
    Admins = {admin}
    Owner <- MCOwner
    Instants = {1}
    MAX_THREAD_DEPTH = 2
    MaxPosition = 40
INVARIANTS
    DepthWithinCap
    SublinksNeverTie
    RegroupIsNoOp
