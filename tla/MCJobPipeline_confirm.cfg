SPECIFICATION Spec
CONSTANTS
    Jobs = {j1, j2}
    Handlers = {h1, h2}
    Reconciler = reconciler
    Consumers = {c1}
    RequestTypes = {"sendEmail"}
    RequestedRetries <- OneRetry
    RequestedDelays <- Immediate
    DefaultRetries = 1
    RetryLimit = 2
    Grace = 1
    Horizon = 1
    MaxFaults = 2
    Environment = {"timeout", "nack"}
    None = None
PROPERTIES ConfirmsCorrelated
