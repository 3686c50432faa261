--------------------------------- MODULE Join ---------------------------------
(***************************************************************************)
(* How a tag joins the radio network and stays in it: the network layer     *)
(* (nwk_handles.c), whose thread nwk_join_process asks the gateway for an   *)
(* address and nwk_cycle_process sends heartbeats, and the MAC layer        *)
(* (mac.c), which it starts and stops and whose task preempts it.           *)
(* The search for a coordinator, the association and the gateway are        *)
(* external; so is everything about data frames.                            *)
(***************************************************************************)
EXTENDS Integers, Sequences

CONSTANTS
    MAX_JION_NET_CNT,
    MaxNwkEvents        \* bound on the events queued when an answer arrives
ASSUME JoinAssumption == MAX_JION_NET_CNT \in Nat \ {0} /\ MaxNwkEvents \in Nat

VARIABLES
    nwk,           \* join_status, join_cnt, and whether node_nui is set
    join, cycle,   \* the two threads: whether they exist
    join_timer, cycle_timer,
    nwkq,          \* events of the network task
    nwk_pc,        \* the call the network task has reached; a MAC event comes between
    mac,           \* state of mac.c: "down", "search" or "on"
    gznet_run, mac_restart_timer, macq,
    asked          \* external: join requests the gateway may still answer

joinVars    == <<nwk, join, cycle, join_timer, cycle_timer, nwkq, nwk_pc,
                 mac, gznet_run, mac_restart_timer, macq, asked>>
threads     == <<join, cycle>>
joinTimers  == <<join_timer, cycle_timer>>
macVars     == <<mac, gznet_run, mac_restart_timer>>

\* nwk_init has run.
JoinInit ==
    /\ nwk = [join_status |-> "LIC_ADDR", join_cnt |-> 0, nui |-> FALSE]
    /\ join = FALSE /\ cycle = FALSE /\ join_timer = FALSE /\ cycle_timer = FALSE
    /\ nwkq = <<>> /\ nwk_pc = "off"
    /\ mac = "down" /\ gznet_run = FALSE /\ mac_restart_timer = FALSE /\ macq = <<>>
    /\ asked = 0

-----------------------------------------------------------------------------
(* The calls the handlers end with; the MAC task has finished.              *)

NwkAt(here, next) == macq = <<>> /\ nwk_pc = here /\ nwk_pc' = next /\ UNCHANGED macq

\* Faulty: the heartbeat goes on.
NwkStopBeats ==
    /\ join_timer' = FALSE /\ UNCHANGED <<cycle, cycle_timer>>
    /\ nwk' = [join_status |-> "LIC_ADDR", join_cnt |-> 0, nui |-> FALSE]

\* nwk_stop up to the unlocking of its mutex: NET_JOIN_OK is the zero that
\* osel_memset leaves in join_status.
NwkStop ==
    /\ cycle' = FALSE /\ cycle_timer' = FALSE /\ join_timer' = FALSE
    /\ nwk' = [join_status |-> "OK", join_cnt |-> 0, nui |-> FALSE]

MacStop ==
    /\ NwkAt("mac_stop", "nwk_run")
    /\ mac' = "down" /\ gznet_run' = TRUE
    /\ UNCHANGED <<nwk, threads, joinTimers, nwkq, mac_restart_timer, asked>>

\* nwk_run; the join process, if it has called it, exits after it.
NwkRun ==
    /\ UNCHANGED <<cycle, cycle_timer, nwkq, macVars, asked>>
    /\ \/ /\ NwkAt("nwk_run", "idle") /\ nwk.join_status = "OK"
          /\ join' = FALSE /\ UNCHANGED <<nwk, join_timer>>
       \/ /\ NwkAt("nwk_run", "mac_run") /\ nwk.join_status # "OK"
          /\ nwk' = [join_status |-> "LIC_ADDR", join_cnt |-> 0, nui |-> TRUE]
          /\ join_timer' = FALSE /\ UNCHANGED join

MacRun ==
    /\ NwkAt("mac_run", "idle") /\ join' = FALSE
    /\ IF gznet_run THEN mac_restart_timer' = TRUE /\ UNCHANGED mac
       ELSE mac' = "search" /\ UNCHANGED mac_restart_timer
    /\ UNCHANGED <<nwk, cycle, joinTimers, nwkq, gznet_run, asked>>

-----------------------------------------------------------------------------
(* The events of the network task.                                          *)

NwkTake(e, next) ==
    /\ nwkq # <<>> /\ Head(nwkq) = e /\ nwkq' = Tail(nwkq)
    /\ NwkAt("idle", next) /\ UNCHANGED macVars

\* Faulty: only the first request has a delay.
RequestOnce ==
    /\ asked' = IF asked < MAX_JION_NET_CNT THEN asked + 1 ELSE asked
    /\ join' = TRUE /\ join_timer' = ~join
    /\ UNCHANGED <<cycle, cycle_timer>>

\* nwk_join_request_packed and the delay after it; more than a round of requests
\* is not answered at once.
Request ==
    /\ asked' = IF asked < MAX_JION_NET_CNT THEN asked + 1 ELSE asked
    /\ join' = TRUE /\ join_timer' = TRUE
    /\ UNCHANGED <<cycle, cycle_timer>>

\* mac2nwk_assoc_confirm
OnAssocOk ==
    /\ NwkTake("ASSOC_OK", "idle")
    /\ IF join THEN UNCHANGED <<nwk, threads, joinTimers, asked>>
       ELSE nwk' = [nwk EXCEPT !.join_cnt = 0] /\ Request
OnAssocNo == NwkTake("ASSOC_NO", "mac_stop") /\ join' = FALSE /\ NwkStop /\ UNCHANGED asked

\* Faulty: the limit is looked for after it has been passed.
OnJoinTimerLate ==
    /\ join
    /\ \/ /\ NwkTake("JOIN_TIMER", "idle") /\ nwk.join_cnt <= MAX_JION_NET_CNT
          /\ nwk' = [nwk EXCEPT !.join_cnt = @ + 1] /\ Request
       \/ /\ NwkTake("JOIN_TIMER", "mac_stop") /\ nwk.join_cnt > MAX_JION_NET_CNT
          /\ NwkStop /\ UNCHANGED <<join, asked>>

\* nwk_join_process after a delay
OnJoinTimer ==
    /\ join
    /\ \/ /\ NwkTake("JOIN_TIMER", "idle") /\ nwk.join_cnt + 1 < MAX_JION_NET_CNT
          /\ nwk' = [nwk EXCEPT !.join_cnt = @ + 1] /\ Request
       \/ /\ NwkTake("JOIN_TIMER", "mac_stop") /\ nwk.join_cnt + 1 >= MAX_JION_NET_CNT
          /\ NwkStop /\ UNCHANGED <<join, asked>>

\* nwk_cycle_process: its heartbeat, and its next delay
OnCycleTimer ==
    /\ cycle /\ NwkTake("CYCLE_TIMER", "idle") /\ cycle_timer' = TRUE
    /\ UNCHANGED <<nwk, threads, join_timer, asked>>

\* nwk_frm_join_response_event, for this node; mac_assoc_again does nothing.
OnJoinOk ==
    /\ nwk.nui /\ NwkTake("JOIN_OK", "idle")
    /\ nwk' = [nwk EXCEPT !.join_status = "OK", !.join_cnt = 0]
    /\ join' = FALSE /\ cycle' = TRUE
    /\ cycle_timer' = (cycle_timer \/ ~cycle)
    /\ UNCHANGED <<join_timer, asked>>
\* Faulty: a refused node keeps its heartbeat.
OnJoinNoBeats ==
    /\ nwk.nui /\ NwkTake("JOIN_NO", "idle")
    /\ nwk' = [nwk EXCEPT !.join_status = "FAIL", !.join_cnt = 0]
    /\ join' = FALSE
    /\ UNCHANGED <<cycle, joinTimers, asked>>

OnJoinNo ==
    /\ nwk.nui /\ NwkTake("JOIN_NO", "idle")
    /\ nwk' = [nwk EXCEPT !.join_status = "FAIL", !.join_cnt = 0]
    /\ join' = FALSE /\ cycle' = FALSE
    /\ UNCHANGED <<joinTimers, asked>>

\* An event whose thread has exited, or an answer to an address of earlier.
OnStale ==
    /\ \/ ~join /\ NwkTake("JOIN_TIMER", "idle")
       \/ ~cycle /\ NwkTake("CYCLE_TIMER", "idle")
       \/ ~nwk.nui /\ (NwkTake("JOIN_OK", "idle") \/ NwkTake("JOIN_NO", "idle"))
    /\ UNCHANGED <<nwk, threads, joinTimers, asked>>

NwkTask == \/ MacStop \/ NwkRun \/ MacRun
           \/ OnAssocOk \/ OnAssocNo \/ OnJoinTimer \/ OnCycleTimer \/ OnJoinOk \/ OnJoinNo \/ OnStale

-----------------------------------------------------------------------------
(* The MAC task, the timers and the air.                                    *)

NwkPost(e)   == nwkq' = Append(nwkq, e)
NwkUntouched == UNCHANGED <<nwk, threads, nwk_pc>>

\* MAC_RESTART_EVENT: mac_run after a stop, mac_restart_deal while it works
OnRestart ==
    /\ macq # <<>> /\ macq' = Tail(macq)
    /\ \/ mac = "down" /\ mac' = "search" /\ gznet_run' = FALSE /\ UNCHANGED nwkq
       \/ mac # "down" /\ mac' = "down" /\ gznet_run' = TRUE /\ NwkPost("ASSOC_NO")
    /\ NwkUntouched /\ UNCHANGED <<joinTimers, mac_restart_timer, asked>>

RestartExpires ==
    /\ mac_restart_timer /\ mac_restart_timer' = FALSE /\ macq' = Append(macq, "RESTART")
    /\ NwkUntouched /\ UNCHANGED <<joinTimers, nwkq, mac, gznet_run, asked>>

\* The MAC layer is associated, or it has lost its coordinator.
Associated ==
    /\ macq = <<>> /\ mac = "search" /\ mac' = "on" /\ NwkPost("ASSOC_OK")
    /\ NwkUntouched /\ UNCHANGED <<joinTimers, gznet_run, mac_restart_timer, macq, asked>>
LinkLost ==
    /\ macq = <<>> /\ mac = "on" /\ Len(nwkq) < MaxNwkEvents /\ macq' = <<"RESTART">>
    /\ NwkUntouched /\ UNCHANGED <<joinTimers, nwkq, macVars, asked>>

JoinExpires ==
    /\ join_timer /\ join_timer' = FALSE /\ NwkPost("JOIN_TIMER")
    /\ NwkUntouched /\ UNCHANGED <<cycle_timer, macVars, macq, asked>>
CycleExpires ==
    /\ cycle_timer /\ cycle_timer' = FALSE /\ NwkPost("CYCLE_TIMER")
    /\ NwkUntouched /\ UNCHANGED <<join_timer, macVars, macq, asked>>

\* The gateway's answer arrives, or gets lost.
Answer ==
    /\ asked > 0 /\ asked' = asked - 1
    /\ \/ mac = "on" /\ Len(nwkq) < MaxNwkEvents /\ (NwkPost("JOIN_OK") \/ NwkPost("JOIN_NO"))
       \/ UNCHANGED nwkq
    /\ NwkUntouched /\ UNCHANGED <<joinTimers, macVars, macq>>

\* The application calls nwk_run.
NwkStart == nwk_pc = "off" /\ nwk_pc' = "nwk_run" /\ UNCHANGED <<nwk, threads, joinTimers, nwkq, macVars, macq, asked>>

JoinNext == \/ NwkStart \/ NwkTask \/ OnRestart \/ RestartExpires \/ Associated \/ LinkLost
            \/ JoinExpires \/ CycleExpires \/ Answer
JoinFair == WF_joinVars(NwkTask) /\ WF_joinVars(OnRestart) /\ WF_joinVars(JoinExpires)
JoinSpec == JoinInit /\ [][JoinNext]_joinVars /\ JoinFair

-----------------------------------------------------------------------------
JoinTypeOK ==
    /\ nwk \in [join_status : {"LIC_ADDR", "OK", "FAIL"}, join_cnt : 0..MAX_JION_NET_CNT, nui : BOOLEAN]
    /\ join \in BOOLEAN /\ cycle \in BOOLEAN /\ gznet_run \in BOOLEAN
    /\ join_timer \in BOOLEAN /\ cycle_timer \in BOOLEAN /\ mac_restart_timer \in BOOLEAN
    /\ nwkq \in Seq({"ASSOC_OK", "ASSOC_NO", "JOIN_OK", "JOIN_NO", "JOIN_TIMER", "CYCLE_TIMER"})
    /\ nwk_pc \in {"off", "idle", "mac_stop", "nwk_run", "mac_run"}
    /\ mac \in {"down", "search", "on"} /\ macq \in Seq({"RESTART"})
    /\ asked \in 0..MAX_JION_NET_CNT

\* Heartbeats are sent only by a node that has an address and has not been refused.
HeartbeatsWhileJoined == cycle => nwk.join_status = "OK" /\ nwk.nui

\* A node that asks to join stops asking: it is answered, or it gives up.
JoinSettles == join ~> ~join

\* A node that is cut off stops sending heartbeats.
HeartbeatsStop == mac = "down" ~> ~cycle

\* The node stays in the network or on its way into it: once the network layer
\* has finished, the MAC layer works or will be started.
NetworkKept == nwk_pc = "idle" /\ nwkq = <<>> /\ macq = <<>> => mac # "down" \/ mac_restart_timer
===============================================================================
