\* Event order, ownership and the refinement, on three links.
SPECIFICATION Spec
CONSTANTS
    admin = admin
    alice = alice
    Links = {1, 2, 3}
    Users = {admin, alice}
    Admins = {admin}
    Owner <- MCOwner
    Instants = {1, 2}
    MAX_THREAD_DEPTH = 3
    MaxPosition = 40
INVARIANTS
    TypeOK
    NoCycles
PROPERTIES
    MovedByEntitled
    ImplementsThreads
