SPECIFICATION Spec
CONSTANTS
    Jobs = {j1}
    Handlers = {h1, h2}
    Reconciler = reconciler
    Consumers = {c1}
    RequestTypes = {"sendEmail"}
    RequestedRetries <- ZeroOrTooMany
    RequestedDelays <- Past
    DefaultRetries = 1
    RetryLimit = 2
    Grace = 1
    Horizon = 1
    MaxFaults = 1
    Environment = {"update", "delete", "workerCrash", "connLost", "nack", "timeout"}
    None = None
SYMMETRY Symmetry
INVARIANTS TypeOK PendingJobRecoverable
PROPERTIES DeletedFrozen QueuedNeverCleared ImplementsLifecycle
