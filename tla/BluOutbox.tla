------------------------------- MODULE BluOutbox -------------------------------
(***************************************************************************)
(* Outbox with the bluetooth side in full: the list of frames for the       *)
(* phone (app_send.c) and the task that sends them and hears the phone      *)
(* (blu_tx.c).  The bluetooth task has the higher priority: the application *)
(* and the GPRS task run only when it has no event, and it may interrupt    *)
(* the application between any two steps.                                   *)
(*                                                                         *)
(* Left out: the AT dialogue of blu_fsm, which nothing starts               *)
(* (BLU_SEND_EVENT is never posted), and the frame types box_blu_send does  *)
(* not know, which nobody queues.  A message of the phone is what the       *)
(* handlers distinguish: "ack", "nack", or another, an order or damaged.    *)
(***************************************************************************)
EXTENDS Outbox

CONSTANTS
    BLU_EVENT_MAX,   \* 10, the event store of the bluetooth task
    Junk,            \* the values an uninitialised priority may have
    MaxList,         \* bound on the length of the list
    MaxBacklog       \* bound on the events queued when the outside world adds one

ASSUME BluAssumption == BLU_EVENT_MAX \in Nat \ {0} /\ MaxList \in Nat /\ MaxBacklog \in Nat

VARIABLES
    blist,           \* box_blu_send_list
    bsn,             \* blu_sending_frame_sn
    blu_sn,          \* blu_data_recv_from_app.blu_sn
    cmd,             \* blu_cmd_type: "NULL" or "DATA"
    rx,              \* the message in blu_recv_array
    bluq,            \* the events of the bluetooth task
    noack,           \* blu_no_ack_timer is armed
    deaf             \* history: a message other than an ack stopped the timer, or its
                     \* event found the queue full

blu     == <<blist, bsn, blu_sn, cmd, rx, bluq, noack, deaf>>
bluvars == <<vars, blu>>
app     == <<work, held, lost>>
box     == <<list, sn, is_sending, appq, mailbox, busy>>

Message == {"ack", "nack", "other"}
BluEvents == [ev : {"NO_ACK", "UART", "NO_LOCK"}] \cup [ev : {"SENT"}, sn : Id]
BluEvent(ev)  == [ev |-> ev]

\* The result is TRUE whoever reports it.
BluSent(id)   == [ev |-> "SENT", sn |-> id]

BluInit ==
    /\ Init
    /\ blist = <<>> /\ bsn = 0 /\ blu_sn = 0
    /\ cmd = "NULL" /\ rx = "none" /\ bluq = <<>> /\ noack = FALSE
    /\ deaf = FALSE

-----------------------------------------------------------------------------
(* box_blu_send and what it is made of.                                     *)

BluPost(q, e) == IF Len(q) < BLU_EVENT_MAX THEN Append(q, e) ELSE q

\* box_blu_send_list_add: the priority of the entry is never written.
BluListAdd(l, id) == {ListAdd(l, Entry(id, p)) : p \in Junk}

\* Faulty: the timer is not armed.
TransmitUntimed(id) == /\ blu_is_sending' = TRUE
                       /\ blu_sn' = id
                       /\ cmd' = "DATA"
                       /\ noack' = noack
                       /\ deaf' = FALSE

\* A frame goes to the phone: its number is read from blu_sending_frame_sn.
Transmit(id) == /\ blu_is_sending' = TRUE
                /\ blu_sn' = id
                /\ cmd' = "DATA"
                /\ noack' = TRUE
                /\ deaf' = FALSE

\* The phone is not connected: the no-ack event is to remove the frame.
NotConnected(id, q) == /\ blu_is_sending' = FALSE
                       /\ blu_sn' = id
                       /\ bluq' = BluPost(q, BluEvent("NO_ACK"))
                       /\ UNCHANGED <<cmd, noack, deaf>>

\* Faulty: an empty list clears is_sending and leaves it at that.
BoxBluSendNoRestart(l, q, sending) ==
    IF sending THEN /\ blu_is_sending' = sending /\ bluq' = q
                    /\ UNCHANGED <<bsn, blu_sn, cmd, noack, deaf, box>>
    ELSE IF l = <<>>
    THEN /\ blu_is_sending' = FALSE /\ bsn' = 0 /\ noack' = FALSE /\ bluq' = q
         /\ is_sending' = FALSE
         /\ UNCHANGED <<blu_sn, cmd, deaf, list, sn, appq, mailbox, busy>>
    ELSE /\ bsn' = Head(l).id
         /\ \/ NotConnected(Head(l).id, q)
            \/ Transmit(Head(l).id) /\ bluq' = q
         /\ UNCHANGED box

\* box_blu_send in one go, as the bluetooth task runs it, on list l; q are the
\* events left and sending the value of blu_is_sending.
BoxBluSend(l, q, sending) ==
    IF sending THEN /\ blu_is_sending' = sending /\ bluq' = q
                    /\ UNCHANGED <<bsn, blu_sn, cmd, noack, deaf, box>>
    ELSE IF l = <<>>
    THEN /\ blu_is_sending' = FALSE /\ bsn' = 0 /\ noack' = FALSE /\ bluq' = q
         /\ BoxSend(list, FALSE, FALSE)
         /\ UNCHANGED <<blu_sn, cmd, deaf, list, sn>>
    ELSE /\ bsn' = Head(l).id
         /\ \/ NotConnected(Head(l).id, q)
            \/ Transmit(Head(l).id) /\ bluq' = q
         /\ UNCHANGED box

-----------------------------------------------------------------------------
(* The application, when the bluetooth task has nothing to do.              *)
Quiet == bluq = <<>>

Below == /\ Quiet
         /\ \/ HandleRequest \/ HandleResult \/ AppAdd \/ AppSend \/ AppPut \/ AppMark
            \/ \E ok \in BOOLEAN : Complete(ok)
         /\ UNCHANGED blu

\* box_blu_send_request up to the frame it fetched.
AppBluRequest ==
    /\ Quiet /\ Doing("blu") /\ Len(blist) < MaxList
    /\ blist' \in BluListAdd(blist, NextSn(bsn))
    /\ IF blu_is_sending
       THEN Done /\ bsn' = NextSn(bsn) /\ UNCHANGED <<blu_is_sending, blu_sn, cmd, noack, deaf, bluq>>
       ELSE /\ bsn' = Head(blist').id
            /\ \/ NotConnected(Head(blist').id, bluq) /\ Done
               \/ /\ work' = <<"blu_put">> \o Tail(work)
                  /\ UNCHANGED <<blu_is_sending, blu_sn, cmd, noack, deaf, bluq>>
    /\ UNCHANGED <<box, held, lost, rx>>

\* The bluetooth task may have changed blu_sending_frame_sn since.
AppBluTransmit ==
    /\ Quiet /\ Doing("blu_put") /\ Done
    /\ Transmit(bsn)
    /\ UNCHANGED <<box, held, lost, blist, bsn, rx, bluq>>

-----------------------------------------------------------------------------
(* The bluetooth task.                                                      *)
Taking(ev) == bluq # <<>> /\ Head(bluq).ev = ev

\* box_blu_data_sent_event_handle
BluSentEvent ==
    /\ Taking("SENT")
    /\ blist' = ListSent(blist, Head(bluq).sn, TRUE)
    /\ BoxBluSend(blist', Tail(bluq), FALSE)
    /\ UNCHANGED <<app, rx>>

\* blu_no_ack_timer_cb: the result is TRUE here as well.
BluNoAckEvent ==
    /\ Taking("NO_ACK")
    /\ noack' = FALSE
    /\ bluq' = BluPost(Tail(bluq), BluSent(blu_sn))
    /\ blu_sn' = 0 /\ cmd' = "NULL" /\ rx' = "none"
    /\ UNCHANGED <<box, app, blu_is_sending, blist, bsn, deaf>>

\* blu_no_lock_timeout_timer_cb: the task queues a frame itself.
BluNoLockEvent ==
    /\ Taking("NO_LOCK") /\ Len(blist) < MaxList
    /\ blist' \in BluListAdd(blist, NextSn(bsn))
    /\ IF blu_is_sending
       THEN bsn' = NextSn(bsn) /\ bluq' = Tail(bluq)
            /\ UNCHANGED <<blu_is_sending, blu_sn, cmd, noack, deaf, box>>
       ELSE BoxBluSend(blist', Tail(bluq), FALSE)
    /\ UNCHANGED <<app, rx>>

\* blu_uart_event_handler with nothing expected or nothing received.
BluUartIgnored ==
    /\ Taking("UART") /\ (cmd = "NULL" \/ rx = "none")
    /\ rx' = "none" /\ bluq' = Tail(bluq)
    /\ blu_sn' = IF cmd = "NULL" THEN 0 ELSE blu_sn
    /\ UNCHANGED <<box, app, blu_is_sending, blist, bsn, cmd, noack, deaf>>

\* Any message stops the timer first ...
Heard(m) == Taking("UART") /\ cmd # "NULL" /\ rx = m /\ noack' = FALSE

\* ... an ack ends the sending (blu_cmd_data_send_handler), without a look at the
\* number it carries ...
BluAck ==
    /\ Heard("ack")
    /\ bluq' = BluPost(Tail(bluq), BluSent(blu_sn))
    /\ blu_sn' = 0 /\ cmd' = "NULL" /\ rx' = "none"
    /\ UNCHANGED <<box, app, blu_is_sending, blist, bsn, deaf>>

\* ... a refusal stays in the buffer ...
BluNack ==
    /\ Heard("nack")
    /\ bluq' = Tail(bluq) /\ deaf' = TRUE
    /\ UNCHANGED <<box, app, blu_is_sending, blist, bsn, blu_sn, cmd, rx>>

\* ... and an order, which may queue a frame for GPRS, or a damaged message is
\* dealt with and forgotten.
BluOther ==
    /\ Heard("other")
    /\ bluq' = Tail(bluq) /\ deaf' = TRUE /\ rx' = "none"
    /\ \/ UNCHANGED box
       \/ AddFrame /\ BoxSend(list', is_sending, blu_is_sending)
    /\ UNCHANGED <<app, blu_is_sending, blist, bsn, blu_sn, cmd>>

BluTaskStep == BluSentEvent \/ BluNoAckEvent \/ BluNoLockEvent \/ BluUartIgnored
               \/ BluAck \/ BluNack \/ BluOther

-----------------------------------------------------------------------------
(* The outside world.                                                       *)
NoAckTimer ==
    /\ noack
    /\ noack' = FALSE /\ bluq' = BluPost(bluq, BluEvent("NO_ACK"))
    /\ deaf' = (deaf \/ Len(bluq) >= BLU_EVENT_MAX)
    /\ UNCHANGED <<vars, blist, bsn, blu_sn, cmd, rx>>

NoLockTimer ==
    /\ Len(bluq) <= MaxBacklog
    /\ bluq' = BluPost(bluq, BluEvent("NO_LOCK"))
    /\ UNCHANGED <<vars, blist, bsn, blu_sn, cmd, rx, noack, deaf>>

\* The interrupt sets blu_cmd_type; a message joins the refusal still there.
PhoneSends(m) ==
    /\ Len(bluq) <= MaxBacklog /\ rx \in {"none", "nack"}
    /\ rx' = (IF rx = "none" THEN m ELSE rx) /\ cmd' = "DATA"
    /\ bluq' = BluPost(bluq, BluEvent("UART"))
    /\ UNCHANGED <<vars, blist, bsn, blu_sn, noack, deaf>>

BluNext ==
    \/ Below \/ AppBluRequest \/ AppBluTransmit \/ BluTaskStep
    \/ NoAckTimer \/ NoLockTimer
    \/ \E m \in Message : PhoneSends(m)
    \/ \E kind \in Kinds : Request(kind) /\ UNCHANGED blu

BluSpec == BluInit /\ [][BluNext]_bluvars

-----------------------------------------------------------------------------
BluTypeOK ==
    /\ TypeOK
    /\ blist \in Seq([id : Id, priority : Junk]) /\ Len(blist) <= MaxList
    /\ bsn \in Id /\ blu_sn \in Id
    /\ cmd \in {"NULL", "DATA"} /\ rx \in Message \cup {"none"}
    /\ bluq \in Seq(BluEvents) /\ Len(bluq) <= BLU_EVENT_MAX
    /\ {noack, deaf} \subseteq BOOLEAN

Queued(ev) == \E i \in 1..Len(bluq) : bluq[i].ev = ev

\* While a frame is with the phone something will end the wait, the timer or an
\* event under way, unless a message that is not its ack has stopped the timer
\* or the event of the timer was dropped.
BluNoStall == blu_is_sending => noack \/ Queued("NO_ACK") \/ Queued("SENT") \/ deaf

\* The bluetooth side does to the variables of box_send no more than Outbox
\* allows for, so what is shown of Outbox holds with the bluetooth task in it.
ImplementsOutbox == Spec

\* box_blu_send_list_add asserts that a full list has an entry to remove.
BluListBounded == Len(blist) <= ListSize
=============================================================================
