SPECIFICATION FairSpec
CONSTANTS
    Users = {u1, u2}
    Conns = {s1, s2}
    BufSize = 2
    MaxEvents = 3
    None = None
CHECK_DEADLOCK FALSE
INVARIANTS NoSendOnClosed BurstDelivered SeenInOrder
PROPERTIES SlowClientsIsolated GoneForgotten
