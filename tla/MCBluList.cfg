CONSTANTS
    ListSize = 2
    SN_MAX = 3
    APP_EVENT_MAX = 1
    Kinds = {"alarm"}
    MaxSn = 3
    BLU_EVENT_MAX = 3
    Junk = {0, 1, 2}
    MaxList = 3
    MaxBacklog = 0
SPECIFICATION BluSpec
INVARIANT BluListBounded
CHECK_DEADLOCK FALSE
