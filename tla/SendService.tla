----------------------------- MODULE SendService ------------------------------
(* What gprs_tx.h promises its user: a frame put into the one mailbox may be  *)
(* answered through gprs_send_cb, with the serial number the mailbox holds at *)
(* that moment, and with TRUE at most once for each time the data of a frame  *)
(* were given to the modem.                                                   *)
EXTENDS Sequences

CONSTANT Sn

VARIABLES
    mailbox, results,
    out         \* the modem has data whose fate is open

vars == <<mailbox, results, out>>

Init == mailbox \notin Sn /\ results = <<>> /\ out = FALSE

Put == /\ \E sn \in Sn : mailbox' = sn
       /\ UNCHANGED <<results, out>>

Transmit == /\ mailbox \in Sn
            /\ out' = TRUE
            /\ UNCHANGED <<mailbox, results>>

\* The task goes on to another command, or its result finds no room.
Lapse == /\ out' = FALSE
         /\ UNCHANGED <<mailbox, results>>

Complete == /\ mailbox \in Sn
            /\ \E ok \in BOOLEAN :
                 /\ ok => out
                 /\ out' \in IF ok THEN {FALSE} ELSE {out, FALSE}
                 /\ results' = Append(results, [sn |-> mailbox, ok |-> ok])
            /\ UNCHANGED mailbox

Collect == /\ results # <<>>
           /\ results' = Tail(results)
           /\ UNCHANGED <<mailbox, out>>

Next == Put \/ Transmit \/ Lapse \/ Complete \/ Collect
Spec == Init /\ [][Next]_vars
=============================================================================
