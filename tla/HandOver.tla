------------------------------- MODULE HandOver -------------------------------
(***************************************************************************)
(* What the transport module of the radio promises the MAC layer            *)
(* (m_tran_send and its tx_finish callback): one frame at a time, each      *)
(* given back, with success only for a frame that has left the antenna and, *)
(* if it asks for an acknowledgement, has been received by the peer.        *)
(***************************************************************************)
CONSTANTS Frame, NeedAck, NoFrame

VARIABLES
    frame,     \* the frame handed over, or NoFrame
    reached,   \* how far the last one got: "nowhere", "sent" or "heard"
    result     \* what tx_finish said of the last frame given back
hvars == <<frame, reached, result>>

HInit == frame = NoFrame /\ reached = "nowhere" /\ result = FALSE

Accept == frame = NoFrame /\ frame' \in Frame /\ reached' = "nowhere" /\ UNCHANGED result
Refuse == frame = NoFrame /\ reached' = "nowhere" /\ result' = FALSE /\ UNCHANGED frame
Travel == frame # NoFrame /\ reached' \in {"sent", "heard"} /\ UNCHANGED <<frame, result>>
GiveBack(res) ==
    /\ frame # NoFrame
    /\ res => /\ reached # "nowhere"
              /\ frame \in NeedAck => reached = "heard"
    /\ frame' = NoFrame
    /\ result' = res
    /\ UNCHANGED reached
Finish == \E res \in BOOLEAN : GiveBack(res)

HNext == Accept \/ Refuse \/ Travel \/ Finish
HSafety == HInit /\ [][HNext]_hvars
HSpec == HSafety /\ WF_hvars(Finish)
===============================================================================
