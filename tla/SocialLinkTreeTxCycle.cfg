SPECIFICATION TxSpec
CONSTANTS
    admin = admin
    Links = {1, 2, 3, 4}
    Users = {admin}
    Admins = {admin}
    Owner <- MCOwner
    Instants = {1, 2, 3, 4}
    MAX_THREAD_DEPTH = 3
    MaxPosition = 40
    Happened <- MCHappened
    Txs = {t1, t2}
    InitialForests <- MCForests
    Calls <- MCCalls
    MaxCalls = 2
INVARIANTS
    NoCycles
CHECK_DEADLOCK FALSE
