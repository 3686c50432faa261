CONSTANTS
    Plain = {p, q}
    Delayed = {d}
    Restarted = {}
    CtrMod = 3
    MaxTicks = 2
    EVENT_MAX = 2
SPECIFICATION FairSpec
INVARIANTS TypeOK ArmedIsListed ListsSound WakesOnTime
PROPERTIES ImplementsService TickEnds
CHECK_DEADLOCK FALSE
