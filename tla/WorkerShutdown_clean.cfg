SPECIFICATION Spec
CONSTANTS
    Consumers = {c1, c2}
    Messages = {m1, m2}
    None = None
CHECK_DEADLOCK FALSE
PROPERTIES AllJobsCompleted
