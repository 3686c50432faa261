SPECIFICATION Spec
CONSTANTS
    OSEL_MAX_PRIO = 3
    QLen <- MCQLen
    Event = {e1, e2}
    MaxPosts = 3
    MaxIsrs = 1
INVARIANTS
    TypeOK
    ReadyExact
    NoMissedWakeup
    StrictNesting
    PrioRestored
PROPERTIES
    DeliverySpec
    EventuallyServed
CHECK_DEADLOCK FALSE
