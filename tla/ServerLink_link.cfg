SPECIFICATION FairSpec
CONSTANTS
    Handlers = {h1, h2}
    Reconciler = reconciler
    Probes = {g1}
    SocketSize = 1
    MaxBacklog = 3
INVARIANTS TypeOK OwnConfirm DriftExact
PROPERTIES RequestsReturn ProbeReturns ServerStops
CHECK_DEADLOCK FALSE
