------------------------------- MODULE Transmit -------------------------------
(***************************************************************************)
(* The transport module of the radio (m_tran.c): it sends one frame of the  *)
(* MAC layer at a time, after a CSMA backoff if the frame asks for it, and  *)
(* waits for the acknowledgement if the frame needs one.  Its thread        *)
(* handles the events its timers and the radio's interrupts post.           *)
(*                                                                         *)
(* Built as the box is: TRAN_RESEND_TIMES and TXOK_INT_SIMU_EN are 0, every *)
(* caller asks for one transmission, and the radio is the si4463, whose     *)
(* driver reports neither underflow nor overflow and, as rf_transmit leaves *)
(* rf_current_state alone, never says that it is transmitting: the branches *)
(* of m_tran_recv and m_tran_sleep for PHY_TX_STATE are never taken.        *)
(* The MAC layer, the air and the peer are external.                        *)
(***************************************************************************)
EXTENDS Integers, Sequences, SequencesExt

CONSTANTS
    Frame,              \* frames, each with a sequence number of its own
    NeedAck,            \* those sent with pbuf->attri.need_ack
    Csma,               \* those sent in CSMA_SEND_MODE
    AckFrame,           \* the frame mac_send_ack builds
    NoFrame,
    MAX_CSMA_BACKOFFS,
    CallerWaits,        \* the MAC layer lets a transmission and its events end
    MaxBacklog          \* bound on the events queued when the radio adds one

Noise == {"bad", "data", "data_ack"}    \* received frames that are no acknowledgement

ASSUME TransmitAssumption ==
    /\ Frame \cap Noise = {}
    /\ NeedAck \subseteq Frame /\ Csma \subseteq Frame
    /\ AckFrame \in Frame \ (NeedAck \cup Csma)
    /\ NoFrame \notin Frame
    /\ MAX_CSMA_BACKOFFS \in Nat /\ MaxBacklog \in Nat /\ CallerWaits \in BOOLEAN

VARIABLES
    tran,          \* tran_state, and csma_state.nb
    csma_timer, ack_timer,   \* whether they are armed
    phy,           \* rf_current_state of the driver
    tranq,         \* events of tran_event_process
    rxfifo,        \* what the radio has received and nobody has read
    air,           \* external: the frame the antenna is sending
    reached,       \* external: how far the last frame got
    result,        \* external: what tx_finish said of the last frame
    due            \* external: the frames the peer has still to acknowledge

tranVars == <<tran, csma_timer, ack_timer, phy, tranq, rxfifo, air, reached, result, due>>
tranTimers == <<csma_timer, ack_timer>>
peer       == <<rxfifo, reached, due>>

TranInit ==
    /\ tran = [sbuf |-> NoFrame, can_send |-> TRUE, ack_needed |-> FALSE,
               ack_received |-> FALSE, ack_timeout_happened |-> FALSE, nb |-> 0]
    /\ csma_timer = FALSE /\ ack_timer = FALSE
    /\ phy = "SLEEP" /\ tranq = <<>> /\ rxfifo = "bad"
    /\ air = NoFrame /\ reached = "nowhere" /\ result = FALSE /\ due = {}

-----------------------------------------------------------------------------
(* What the handlers are made of; t is tran_state as they have left it.     *)

Handle(e) == tranq # <<>> /\ Head(tranq) = e /\ tranq' = Tail(tranq)
Post(e)   == tranq' = Append(tranq, e)

\* Turning the radio cuts off what the antenna is sending.
SetPhy(s) == phy' = s /\ air' = NoFrame
Untouched == UNCHANGED <<phy, air>>

Freed(t)  == [t EXCEPT !.sbuf = NoFrame, !.can_send = TRUE, !.ack_needed = FALSE]

\* tran_send_failed, and the end of tran_send_intra: tx_finish with FAILE.
GiveUp(t) ==
    /\ tran' = Freed(t) /\ result' = FALSE
    /\ ack_timer' = FALSE /\ UNCHANGED csma_timer
    /\ SetPhy("SLEEP")

\* tran_send; in the synchronous mode the slot may be too short for the frame.
TranSend(t) ==
    \/ /\ tran' = [t EXCEPT !.ack_needed = @ \/ t.sbuf \in NeedAck]
       /\ air' = t.sbuf /\ phy' = "IDLE"
       /\ UNCHANGED <<tranTimers, result>>
    \/ GiveUp(t)

\* csma_backoff: the random delay may exceed what is left of the slot, and a
\* failed backoff is the end of the only transmission.
Backoff(t) ==
    \/ /\ t.nb < MAX_CSMA_BACKOFFS
       /\ tran' = t /\ csma_timer' = TRUE
       /\ SetPhy("IDLE") /\ UNCHANGED <<ack_timer, result>>
    \/ GiveUp(t)

\* m_tran_send when can_send allows it.
Start(f) ==
    LET t == [tran EXCEPT !.sbuf = f, !.can_send = FALSE, !.ack_received = FALSE, !.nb = 0]
    IN  /\ IF f \in Csma THEN Backoff(t) ELSE TranSend(t)
        /\ reached' = "nowhere"

\* Faulty: the radio listens, and nothing ends the wait.
WaitAckForEver ==
    /\ tran' = [tran EXCEPT !.ack_received = FALSE, !.ack_timeout_happened = FALSE]
    /\ SetPhy("RX")
    /\ UNCHANGED <<tranTimers, result>>

\* m_tran_recv from tran_wait_ack.
WaitAck ==
    /\ tran' = [tran EXCEPT !.ack_received = FALSE, !.ack_timeout_happened = FALSE]
    /\ ack_timer' = TRUE
    /\ SetPhy("RX")
    /\ UNCHANGED <<csma_timer, result>>

-----------------------------------------------------------------------------
(* The handlers.                                                            *)

\* tran_operate_cca: an idle channel, or one more backoff.
OnCsmaTimeout ==
    /\ Handle("CSMA_TIMEOUT") /\ tran.sbuf # NoFrame
    /\ TranSend(tran) \/ Backoff([tran EXCEPT !.nb = @ + 1])
    /\ UNCHANGED peer

\* Faulty: a frame that has left the antenna is a success.
OnTxokDone ==
    /\ Handle("TXOK") /\ UNCHANGED peer
    /\ ~tran.can_send
    /\ tran' = Freed(tran) /\ result' = TRUE
    /\ SetPhy("SLEEP") /\ UNCHANGED tranTimers

\* tran_deal_txok_event
OnTxok ==
    /\ Handle("TXOK") /\ UNCHANGED peer
    /\ \/ tran.ack_needed /\ WaitAck
       \/ /\ ~tran.ack_needed /\ ~tran.can_send
          /\ tran' = Freed(tran) /\ result' = TRUE
          /\ SetPhy("SLEEP") /\ UNCHANGED tranTimers

\* tran_deal_ack_timeout_event
OnAckTimeout ==
    /\ Handle("ACK_TIMEOUT") /\ UNCHANGED peer
    /\ IF tran.ack_received
       THEN UNCHANGED <<tran, tranTimers, result>> /\ Untouched
       ELSE tran.sbuf # NoFrame /\ GiveUp([tran EXCEPT !.ack_timeout_happened = TRUE])

\* Faulty: the acknowledgement leaves the timer armed.
AckedArmed(r) ==
    IF tran.sbuf # r THEN UNCHANGED <<tran, tranTimers, result>>
    ELSE IF ~ack_timer /\ tran.ack_timeout_happened
    THEN tran' = [tran EXCEPT !.ack_timeout_happened = FALSE] /\ UNCHANGED <<tranTimers, result>>
    ELSE /\ tran' = [Freed(tran) EXCEPT !.ack_received = TRUE]
         /\ result' = TRUE /\ UNCHANGED tranTimers

\* The part of tran_deal_rxok_event that an acknowledgement of r reaches.
Acked(r) ==
    IF tran.sbuf # r THEN UNCHANGED <<tran, tranTimers, result>>
    ELSE IF ~ack_timer /\ tran.ack_timeout_happened
    THEN tran' = [tran EXCEPT !.ack_timeout_happened = FALSE] /\ UNCHANGED <<tranTimers, result>>
    ELSE /\ tran' = [Freed(tran) EXCEPT !.ack_received = TRUE]
         /\ ack_timer' = FALSE /\ result' = TRUE /\ UNCHANGED csma_timer

\* tran_deal_rxok_event; the parsers of the payload are the MAC layer's.  A frame
\* that is none puts the radio back to receiving, unless it is empty.
OnRxok ==
    LET r == rxfifo IN
    /\ Handle("RXOK") /\ rxfifo' = "bad" /\ UNCHANGED due
    /\ \/ /\ r = "bad" /\ (SetPhy("RX") \/ Untouched)
          /\ UNCHANGED <<tran, tranTimers, result, reached>>
       \/ /\ r = "data_ack" /\ ~tran.ack_needed /\ tran.can_send
          /\ Start(AckFrame)
       \/ /\ r \in {"data", "data_ack"} /\ (r = "data" \/ tran.ack_needed \/ ~tran.can_send)
          /\ Untouched /\ UNCHANGED <<tran, tranTimers, result, reached>>
       \/ /\ r \in Frame /\ Untouched /\ UNCHANGED reached
          /\ IF tran.ack_needed THEN Acked(r) ELSE UNCHANGED <<tran, tranTimers, result>>

-----------------------------------------------------------------------------
(* The timers and the radio's interrupts.                                   *)

CsmaExpires ==
    /\ csma_timer /\ csma_timer' = FALSE /\ Post("CSMA_TIMEOUT")
    /\ UNCHANGED <<tran, ack_timer, result>> /\ Untouched /\ UNCHANGED peer

AckExpires ==
    /\ ack_timer /\ ack_timer' = FALSE
    /\ IF tran.ack_received THEN UNCHANGED tranq ELSE Post("ACK_TIMEOUT")
    /\ UNCHANGED <<tran, csma_timer, result>> /\ Untouched /\ UNCHANGED peer

\* The frame has left the antenna; the peer may have received it.
TxDone ==
    /\ air # NoFrame /\ SetPhy("TXOK") /\ Post("TXOK")
    /\ \E heard \in BOOLEAN :
         /\ reached' = IF heard THEN "heard" ELSE "sent"
         /\ due' = IF heard /\ air \in NeedAck THEN due \cup {air} ELSE due
    /\ UNCHANGED <<tran, tranTimers, result, rxfifo>>

\* What is received over a frame nobody has read spoils both.
RxDone ==
    /\ phy = "RX" /\ Len(tranq) < MaxBacklog
    /\ phy' = "RXOK" /\ Post("RXOK")
    /\ \E r \in Noise \cup due :
         /\ due' = due \ {r}
         /\ rxfifo' = IF "RXOK" \in ToSet(tranq) THEN "bad" ELSE r
    /\ UNCHANGED <<tran, tranTimers, air, reached, result>>

AckLost == \E f \in due : due' = due \ {f} /\ UNCHANGED <<tran, tranTimers, phy, tranq, rxfifo, air, reached, result>>

-----------------------------------------------------------------------------
(* The MAC layer: it sends, listens and sleeps; a sequence number does not  *)
(* come again while its acknowledgement is on its way.                      *)

Send ==
    /\ tran.can_send
    /\ CallerWaits => tranq = <<>>
    /\ \E f \in Frame \ (due \cup {rxfifo}) : Start(f)
    /\ UNCHANGED <<tranq, rxfifo, due>>

Turn(s) ==
    /\ CallerWaits => tran.can_send \/ ack_timer
    /\ SetPhy(s)
    /\ UNCHANGED <<tran, tranTimers, tranq, result>> /\ UNCHANGED peer

Recv  == Turn("RX")
Sleep == Turn("SLEEP")

OnEvent  == OnCsmaTimeout \/ OnTxok \/ OnAckTimeout \/ OnRxok
TranExpires  == CsmaExpires \/ AckExpires
TranNext == OnEvent \/ TranExpires \/ TxDone \/ RxDone \/ AckLost \/ Send \/ Recv \/ Sleep

TranFair == WF_tranVars(OnEvent) /\ WF_tranVars(TranExpires) /\ WF_tranVars(TxDone)
TranSpec == TranInit /\ [][TranNext]_tranVars /\ TranFair

-----------------------------------------------------------------------------
TranTypeOK ==
    /\ tran \in [sbuf : Frame \cup {NoFrame}, can_send : BOOLEAN, ack_needed : BOOLEAN,
                 ack_received : BOOLEAN, ack_timeout_happened : BOOLEAN, nb : 0..MAX_CSMA_BACKOFFS]
    /\ csma_timer \in BOOLEAN /\ ack_timer \in BOOLEAN
    /\ phy \in {"IDLE", "RX", "RXOK", "TXOK", "SLEEP"}
    /\ tranq \in Seq({"CSMA_TIMEOUT", "RXOK", "TXOK", "ACK_TIMEOUT"})
    /\ rxfifo \in Noise \cup Frame
    /\ air \in Frame \cup {NoFrame} /\ due \subseteq Frame

\* A frame under way has something under way: the antenna, a timer or an event
\* that will give it back.  Otherwise can_send stays FALSE and m_tran_send
\* refuses every later frame.
Underway ==
    \/ tran.can_send
    \/ air # NoFrame \/ csma_timer \/ ack_timer
    \/ {"CSMA_TIMEOUT", "TXOK"} \cap ToSet(tranq) # {}
    \/ "ACK_TIMEOUT" \in ToSet(tranq) /\ ~tran.ack_received

\* What the handlers assert, or read through tran_state.sbuf, holds when an event
\* reaches them: no event of an earlier frame meets a later one, or none at all.
HandlersReady ==
    tranq # <<>> =>
        CASE Head(tranq) = "CSMA_TIMEOUT" -> tran.sbuf # NoFrame
          [] Head(tranq) = "TXOK" -> ~ack_timer /\ (tran.ack_needed \/ ~tran.can_send)
          [] Head(tranq) = "ACK_TIMEOUT" -> tran.ack_received \/ tran.sbuf # NoFrame
          [] Head(tranq) = "RXOK" -> tran.ack_needed => tran.sbuf # NoFrame

\* Every frame is given back, once, with success only if it went out and was
\* acknowledged where it had to be.
HandedOver == INSTANCE HandOver WITH frame <- tran.sbuf
ImplementsHandOver == HandedOver!HSpec
===============================================================================
