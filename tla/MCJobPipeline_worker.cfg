SPECIFICATION Spec
CONSTANTS
    Jobs = {j1}
    Handlers = {h1}
    Reconciler = reconciler
    Consumers = {c1, c2}
    RequestTypes = {"exportCSV"}
    RequestedRetries <- AllRetries
    RequestedDelays <- Past
    DefaultRetries = 1
    RetryLimit = 2
    Grace = 1
    Horizon = 1
    MaxFaults = 3
    Environment = {"dbError", "redisError", "workerCrash", "consumerCut"}
    None = None
SYMMETRY Symmetry
INVARIANTS PendingJobRecoverable RunningJobTended OutcomeAnnounced RetryBudget
PROPERTIES ImplementsDelivery
