------------------------------- MODULE MCParts --------------------------------
(***************************************************************************)
(* Six components that do not interact, checked in one run: a behaviour is  *)
(* one of a single component, its part, and the others rest in their        *)
(* initial states.                                                          *)
(***************************************************************************)
EXTENDS Lock, TagScan, Pthread, Transmit, Join, Gps

VARIABLE part

restLock    == <<part, scanVars, pthreadVars, tranVars, joinVars, gpsVars>>
restScan    == <<part, lockVars, pthreadVars, tranVars, joinVars, gpsVars>>
restPthread == <<part, lockVars, scanVars, tranVars, joinVars, gpsVars>>
restTran    == <<part, lockVars, scanVars, pthreadVars, joinVars, gpsVars>>
restJoin    == <<part, lockVars, scanVars, pthreadVars, tranVars, gpsVars>>
restGps     == <<part, lockVars, scanVars, pthreadVars, tranVars, joinVars>>
vars        == <<part, lockVars, scanVars, pthreadVars, tranVars, joinVars, gpsVars>>

Init ==
    /\ part \in {"lock", "scan", "pthread", "tran", "join", "gps"}
    /\ LockInit /\ ScanInit /\ PthreadInit /\ TranInit /\ JoinInit /\ GpsInit

Next ==
    \/ part = "lock"    /\ LockNext    /\ UNCHANGED restLock
    \/ part = "scan"    /\ ScanNext    /\ UNCHANGED restScan
    \/ part = "pthread" /\ PthreadNext /\ UNCHANGED restPthread
    \/ part = "tran"    /\ TranNext    /\ UNCHANGED restTran
    \/ part = "join"    /\ JoinNext    /\ UNCHANGED restJoin
    \/ part = "gps"     /\ GpsNext     /\ UNCHANGED restGps

Spec == Init /\ [][Next]_vars /\ LockFair /\ ScanFair /\ TranFair /\ JoinFair /\ GpsFair

\* The state of every component keeps its shape.
PartsTypeOK == LockTypeOK /\ ScanTypeOK /\ PthreadTypeOK /\ TranTypeOK /\ JoinTypeOK /\ GpsTypeOK
===============================================================================
