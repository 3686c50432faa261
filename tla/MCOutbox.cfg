CONSTANTS
    ListSize = 2
    SN_MAX = 5
    APP_EVENT_MAX = 2
    Kinds = {"report", "unlock"}
    MaxSn = 3
SPECIFICATION FairSpec
INVARIANT NoStall
  
CHECK_DEADLOCK FALSE
