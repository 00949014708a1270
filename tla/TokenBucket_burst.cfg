SPECIFICATION Spec
CONSTANTS
    Second = 12
    Rates = {0, 5, 12, 13}
    Capacities = {0, 1, 2}
    Horizon = 13
CHECK_DEADLOCK FALSE
INVARIANTS BurstBounded
