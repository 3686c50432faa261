CONSTANTS
    MaxLockEvents = 3
    MaxScanEvents = 3
    Thread = {p1, p2, p3}
    List = list
    NoThread = none
    Frame = {f1, f2, f3, ack}
    NeedAck = {f1, f3}
    Csma = {f1, f2}
    AckFrame = ack
    NoFrame = none
    MAX_CSMA_BACKOFFS = 2
    CallerWaits = TRUE
    MaxBacklog = 3
    MAX_JION_NET_CNT = 3
    MaxNwkEvents = 3
    MaxGpsEvents = 3
SPECIFICATION Spec
INVARIANTS
    PartsTypeOK
    StaysClosable
    ListIsAlive
    WalkReachesAll
    CurrentIsRunning
    
    
    HeartbeatsWhileJoined
    PoweredIsWatched
PROPERTIES
    MotorRests
    PressCloses
    ScanEnds
    
    JoinSettles
    HeartbeatsStop
    OpenedIsHeard
CHECK_DEADLOCK FALSE
