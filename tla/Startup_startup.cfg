SPECIFICATION FairSpec
CONSTANTS
    Server = server
    Worker = worker
    ConnectMaxAttempts = 3
    BootTicks = 2
    MaxFaults = 2
INVARIANTS TypeOK PatientEnough RouteDeclared
PROPERTIES RestartCures
CHECK_DEADLOCK FALSE
