\* A refusal the cycle rule does not need.
SPECIFICATION Spec
CONSTANTS
    admin = admin
    alice = alice
    Links = {1, 2, 3, 4}
    Users = {admin}
    Admins = {admin}
    Owner <- MCOwner
    Instants = {1}
    MAX_THREAD_DEPTH = 2
    MaxPosition = 40
INVARIANT CycleRefusalIsExact
