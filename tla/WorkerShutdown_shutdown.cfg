SPECIFICATION FairSpec
CONSTANTS
    Consumers = {c1, c2, c3}
    Messages = {m1, m2}
    None = None
CHECK_DEADLOCK FALSE
INVARIANTS CleanDrain LeftEmptyHanded Accounted
PROPERTIES ImplementsDelivery StopsAfterSignal QueueServed
