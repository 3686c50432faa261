CONSTANTS
    Plain = {p}
    Delayed = {d}
    Restarted = {d}
    CtrMod = 3
    MaxTicks = 2
    EVENT_MAX = 2
SPECIFICATION Spec
INVARIANT ArmedIsListed
CHECK_DEADLOCK FALSE
