------------------------------- MODULE TagScan --------------------------------
(***************************************************************************)
(* Reading RFID tags for the phone (nfc_reader.c): the bluetooth task       *)
(* starts the reader and two timers, one that polls what the reader has     *)
(* sent and one that ends the scan; the application task handles both and   *)
(* answers the phone.  The bluetooth task preempts it anywhere, and an      *)
(* order may come while a scan is under way.  The tags themselves are left  *)
(* out.                                                                     *)
(***************************************************************************)
EXTENDS Integers, Sequences

CONSTANT MaxScanEvents      \* bound on the events queued when an order comes
ASSUME ScanAssumption == MaxScanEvents \in Nat

VARIABLES
    reading,       \* external: the reader has been started and not stopped
    rx_timer,      \* whether it is armed
    tag_timer,     \* "off", "due", "set" if some of its delay is left, or "never"
    scanq,         \* the two timers' events in the application's queue
    scan_pc,       \* what the application task does next
    owed           \* for the properties: the last order is not answered

scanVars == <<reading, rx_timer, tag_timer, scanq, scan_pc, owed>>

ScanInit ==
    /\ reading = FALSE /\ rx_timer = FALSE /\ tag_timer = "off"
    /\ scanq = <<>> /\ scan_pc = "idle" /\ owed = FALSE

\* The order of the phone.  BluDataSn now holds its number, and a scan under way
\* goes on for the new one, with a new delay.  A delay shorter than a tick makes
\* a timer of no ticks, which never expires.
ScanOrder ==
    /\ Len(scanq) < MaxScanEvents
    /\ reading' = TRUE /\ tag_timer' \in {"set", "never"} /\ rx_timer' = TRUE /\ owed' = TRUE
    /\ UNCHANGED <<scanq, scan_pc>>

ScanTake(e) == scan_pc = "idle" /\ scanq # <<>> /\ Head(scanq) = e /\ scanq' = Tail(scanq)
ScanAt(here, next) == scan_pc = here /\ scan_pc' = next /\ UNCHANGED scanq

\* NFC_READER_RX_PROCESS_EVENT: what has come is read, and the poll goes on.
OnRx ==
    /\ ScanTake("RX") /\ rx_timer' = TRUE
    /\ UNCHANGED <<reading, tag_timer, scan_pc, owed>>

\* Faulty: the answer ends with the disarming of both timers.
OnTagDisarms ==
    \/ /\ ScanTake("TAG") /\ reading' = FALSE /\ scan_pc' = "stop_again"
       /\ UNCHANGED <<rx_timer, tag_timer, owed>>
    \/ /\ ScanAt("stop_again", "stop_poll") /\ reading' = FALSE
       /\ UNCHANGED <<rx_timer, tag_timer, owed>>
    \/ /\ ScanAt("stop_poll", "answer") /\ rx_timer' = FALSE
       /\ UNCHANGED <<reading, tag_timer, owed>>
    \/ /\ ScanAt("answer", "idle") /\ owed' = FALSE /\ tag_timer' = "off"
       /\ UNCHANGED <<reading, rx_timer>>

\* NFC_READER_TAG_PROCESS_EVENT: the reader is told twice to stop, the poll ends,
\* and the tags found go to the phone under the number in BluDataSn.
OnTag ==
    \/ /\ ScanTake("TAG") /\ reading' = FALSE /\ scan_pc' = "stop_again"
       /\ UNCHANGED <<rx_timer, tag_timer, owed>>
    \/ /\ ScanAt("stop_again", "stop_poll") /\ reading' = FALSE
       /\ UNCHANGED <<rx_timer, tag_timer, owed>>
    \/ /\ ScanAt("stop_poll", "answer") /\ rx_timer' = FALSE
       /\ UNCHANGED <<reading, tag_timer, owed>>
    \/ /\ ScanAt("answer", "idle") /\ owed' = FALSE
       /\ UNCHANGED <<reading, rx_timer, tag_timer>>

RxExpires ==
    /\ rx_timer /\ rx_timer' = FALSE /\ scanq' = Append(scanq, "RX")
    /\ UNCHANGED <<reading, tag_timer, scan_pc, owed>>
TagExpires ==
    /\ UNCHANGED <<reading, rx_timer, scan_pc, owed>>
    /\ \/ tag_timer = "set" /\ tag_timer' = "due" /\ UNCHANGED scanq
       \/ tag_timer = "due" /\ tag_timer' = "off" /\ scanq' = Append(scanq, "TAG")

ScanTask == OnRx \/ OnTag
ScanNext == ScanOrder \/ ScanTask \/ RxExpires \/ TagExpires

ScanFair == WF_scanVars(ScanTask) /\ WF_scanVars(TagExpires)
ScanSpec == ScanInit /\ [][ScanNext]_scanVars /\ ScanFair

ScanTypeOK ==
    /\ {reading, rx_timer, owed} \subseteq BOOLEAN
    /\ tag_timer \in {"off", "due", "set", "never"}
    /\ scanq \in Seq({"RX", "TAG"})
    /\ scan_pc \in {"idle", "stop_again", "stop_poll", "answer"}

\* Orders that come faster than the delay they ask for put off every answer.
OrdersForEver == []<><<ScanOrder>>_scanVars

\* The phone gets an answer to its last order and the reader does not stay on, at
\* whatever moment of an earlier scan the order came: each order has its own end,
\* if it asks for a tick at least.
ScanEnds ==
    \/ /\ owed ~> ~owed \/ tag_timer = "never"
       /\ []<>(~reading \/ tag_timer = "never")
    \/ OrdersForEver
===============================================================================
