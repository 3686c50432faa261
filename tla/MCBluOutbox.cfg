CONSTANTS
    ListSize = 1
    SN_MAX = 3
    APP_EVENT_MAX = 1
    Kinds = {"alarm"}
    MaxSn = 3
    BLU_EVENT_MAX = 2
    Junk = {1}
    MaxList = 2
    MaxBacklog = 1
SPECIFICATION BluSpec
INVARIANTS BluTypeOK BluNoStall
 
CHECK_DEADLOCK FALSE
