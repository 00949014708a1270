SPECIFICATION FairSpec
CONSTANTS
    Jobs = {j1, j2}
    Handlers = {h1}
    Reconciler = reconciler
    Consumers = {c1}
    RequestTypes = {"sendEmail"}
    RequestedRetries <- OneOrNegative
    RequestedDelays <- Immediate
    DefaultRetries = 1
    RetryLimit = 2
    Grace = 1
    Horizon = 1
    MaxFaults = 1
    Environment = {"nack", "timeout", "dbError", "redisError", "serverCrash", "workerCrash"}
    None = None
INVARIANTS PendingJobRecoverable
PROPERTIES ImplementsLifecycle JobSettles
