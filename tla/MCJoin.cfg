CONSTANTS
    MAX_JION_NET_CNT = 2
    MaxNwkEvents = 2
SPECIFICATION JoinSpec
INVARIANT NetworkKept
CHECK_DEADLOCK FALSE
