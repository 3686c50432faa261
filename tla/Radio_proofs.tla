----------------------------- MODULE Radio_proofs ------------------------------
(***************************************************************************)
(* The radio.  A node sends heartbeats only while it is in the network, for *)
(* any number of join requests and of queued events.  And the transport     *)
(* module gives back every frame it has accepted: for any set of frames, of *)
(* backoffs and of queued events, something is always under way for a frame *)
(* that is, no event meets a frame it was not meant for, and a frame given  *)
(* back with success has left the antenna and was acknowledged if it had to *)
(* be.  The MAC layer is taken to wait for the end of a transmission, which *)
(* is how it is written; CallerWaits says so.                               *)
(***************************************************************************)
EXTENDS Join, Transmit, QueueLemmas

Statuses  == {"LIC_ADDR", "OK", "FAIL"}
NwkEvents == {"ASSOC_OK", "ASSOC_NO", "JOIN_OK", "JOIN_NO", "JOIN_TIMER", "CYCLE_TIMER"}
NwkShape  == nwk \in [join_status : Statuses, join_cnt : 0..MAX_JION_NET_CNT, nui : BOOLEAN]

\* A node that asks to join has a delay, or its event, that will make it ask again
\* or give up; or it is giving up.
AsksOn  == join => \/ join_timer \/ "JOIN_TIMER" \in ToSet(nwkq)
                   \/ nwk_pc \in {"mac_stop", "nwk_run", "mac_run"}
\* A node in the network has its next heartbeat under way.
BeatsOn == cycle => cycle_timer \/ "CYCLE_TIMER" \in ToSet(nwkq)
\* A node that sends heartbeats into a MAC layer that is down is about to be told.
CutOffTold == cycle /\ mac = "down" => "ASSOC_NO" \in ToSet(nwkq)

\* The first nwk_run finds nothing started.
Boot == mac = "down" /\ ~gznet_run /\ ~mac_restart_timer /\ macq = <<>> /\ ~cycle
\* What a call that another call ends with may rely on: nwk_stop has cleared nwk.
Stopped == nwk.join_status = "OK" /\ ~nwk.nui /\ ~cycle
NwkCalls ==
    /\ nwk_pc = "off"      => Boot /\ ~nwk.nui
    /\ nwk_pc = "mac_run"  => Boot
    /\ nwk_pc = "mac_stop" => Stopped
    /\ nwk_pc = "nwk_run"  => Stopped \/ (Boot /\ ~nwk.nui)
\* Once node_nui is set the MAC layer goes down only with a word to the network layer.
Told == nwk.nui /\ mac = "down" => "ASSOC_NO" \in ToSet(nwkq) \/ nwk_pc = "mac_run"

JoinInv == JoinTypeOK /\ HeartbeatsWhileJoined /\ AsksOn /\ BeatsOn /\ NwkCalls /\ Told

LEMMA JoinInvInit == JoinInit => JoinInv
<1> SUFFICES ASSUME JoinInit PROVE JoinInv
  OBVIOUS
<1>1. MAX_JION_NET_CNT \in Nat \ {0}
  BY JoinAssumption DEF JoinAssumption
<1>2. JoinTypeOK
  <2>1. 0 \in 0..MAX_JION_NET_CNT
    BY <1>1
  <2>2. nwk \in [join_status : Statuses, join_cnt : 0..MAX_JION_NET_CNT, nui : BOOLEAN]
    BY <2>1 DEF JoinInit, Statuses
  <2>3. nwkq \in Seq(NwkEvents) /\ macq \in Seq({"RESTART"})
    BY DEF JoinInit
  <2> QED BY <2>1, <2>2, <2>3 DEF JoinInit, JoinTypeOK, Statuses, NwkEvents
<1>3. HeartbeatsWhileJoined /\ AsksOn /\ BeatsOn /\ NwkCalls /\ Told
  BY DEF JoinInit, HeartbeatsWhileJoined, AsksOn, BeatsOn, NwkCalls, Boot, Told
<1> QED BY <1>2, <1>3 DEF JoinInv

-----------------------------------------------------------------------------
LEMMA NwkTaken ==
    ASSUME JoinTypeOK, NEW e, NEW next, NwkTake(e, next)
    PROVE  nwkq' \in Seq(NwkEvents) /\ ToSet(nwkq) = ToSet(nwkq') \cup {e}
<1>1. nwkq \in Seq(NwkEvents) /\ nwkq # <<>> /\ nwkq' = Tail(nwkq) /\ Head(nwkq) = e
  BY DEF JoinTypeOK, NwkTake, NwkEvents
<1> QED BY <1>1, TailSet

LEMMA NwkPosted ==
    ASSUME JoinTypeOK, NEW e \in NwkEvents, NwkPost(e)
    PROVE  nwkq' \in Seq(NwkEvents) /\ ToSet(nwkq') = ToSet(nwkq) \cup {e}
<1>1. nwkq \in Seq(NwkEvents)
  BY DEF JoinTypeOK, NwkEvents
<1> QED BY <1>1, AppendSet DEF NwkPost

\* The fields of nwk after each of its updates.
LEMMA NwkFields ==
    ASSUME NwkShape
    PROVE  /\ nwk.join_status \in Statuses /\ nwk.join_cnt \in 0..MAX_JION_NET_CNT /\ nwk.nui \in BOOLEAN
           /\ [nwk EXCEPT !.join_cnt = 0] =
                 [join_status |-> nwk.join_status, join_cnt |-> 0, nui |-> nwk.nui]
           /\ [nwk EXCEPT !.join_cnt = @ + 1] =
                 [join_status |-> nwk.join_status, join_cnt |-> nwk.join_cnt + 1, nui |-> nwk.nui]
<1> USE DEF NwkShape
<1>1. nwk.join_status \in Statuses /\ nwk.join_cnt \in 0..MAX_JION_NET_CNT /\ nwk.nui \in BOOLEAN
  OBVIOUS
<1>2. [nwk EXCEPT !.join_cnt = 0] = [join_status |-> nwk.join_status, join_cnt |-> 0, nui |-> nwk.nui]
  OBVIOUS
<1>3. [nwk EXCEPT !.join_cnt = @ + 1] =
         [join_status |-> nwk.join_status, join_cnt |-> nwk.join_cnt + 1, nui |-> nwk.nui]
  OBVIOUS
<1> QED BY <1>1, <1>2, <1>3

\* The calls with which a handler of the network task ends.
LEMMA CallsKeepJoinInv == JoinInv /\ (MacStop \/ NwkRun \/ MacRun) => JoinInv'
<1> SUFFICES ASSUME JoinInv, MacStop \/ NwkRun \/ MacRun PROVE JoinInv'
  OBVIOUS
<1>n. MAX_JION_NET_CNT \in Nat \ {0}
  BY JoinAssumption DEF JoinAssumption
<1> USE DEF JoinInv, JoinTypeOK, HeartbeatsWhileJoined, AsksOn, BeatsOn, NwkCalls, Boot, Stopped, Told,
            NwkAt, threads, joinTimers, macVars
<1>1. CASE MacStop
  BY <1>1 DEF MacStop
<1>2. CASE NwkRun
  <2>1. CASE NwkAt("nwk_run", "idle") /\ nwk.join_status = "OK" /\ join' = FALSE /\ UNCHANGED <<nwk, join_timer>>
    BY <1>2, <2>1 DEF NwkRun
  <2>2. CASE /\ NwkAt("nwk_run", "mac_run") /\ nwk.join_status # "OK"
             /\ nwk' = [join_status |-> "LIC_ADDR", join_cnt |-> 0, nui |-> TRUE]
             /\ join_timer' = FALSE /\ UNCHANGED join
    <3>1. Boot
      BY <2>2
    <3>2. 0 \in 0..MAX_JION_NET_CNT /\ "LIC_ADDR" \in Statuses
      BY <1>n DEF Statuses
    <3>3. nwk' \in [join_status : Statuses, join_cnt : 0..MAX_JION_NET_CNT, nui : BOOLEAN]
      BY <2>2, <3>2
    <3>4. JoinTypeOK'
      BY <1>2, <2>2, <3>3 DEF NwkRun, Statuses
    <3>5. (HeartbeatsWhileJoined /\ AsksOn /\ BeatsOn /\ NwkCalls /\ Told)'
      BY <1>2, <2>2, <3>1 DEF NwkRun
    <3> QED BY <3>4, <3>5 DEF JoinInv
  <2> QED BY <1>2, <2>1, <2>2 DEF NwkRun
<1>3. CASE MacRun
  BY <1>3 DEF MacRun
<1> QED BY <1>1, <1>2, <1>3

\* nwk_stop: the status it leaves, OK, does no harm, as the heartbeat has ended.
LEMMA StopKeepsJoinInv ==
    ASSUME JoinInv, NwkStop, NEW e, NwkTake(e, "mac_stop"), join' \in BOOLEAN, asked' = asked
    PROVE  JoinInv'
<1>1. nwkq' \in Seq(NwkEvents)
  BY NwkTaken DEF JoinInv
<1>2. nwk' = [join_status |-> "OK", join_cnt |-> 0, nui |-> FALSE]
  BY DEF NwkStop
<1>3. 0 \in 0..MAX_JION_NET_CNT /\ "OK" \in Statuses
  BY JoinAssumption DEF JoinAssumption, Statuses
<1>4. nwk' \in [join_status : Statuses, join_cnt : 0..MAX_JION_NET_CNT, nui : BOOLEAN]
  BY <1>2, <1>3
<1>5. JoinTypeOK'
  BY <1>1, <1>4 DEF NwkStop, NwkTake, NwkAt, macVars, JoinInv, JoinTypeOK, NwkEvents, Statuses
<1>6. (HeartbeatsWhileJoined /\ AsksOn /\ BeatsOn /\ NwkCalls /\ Told)'
  BY <1>2 DEF NwkStop, NwkTake, NwkAt, HeartbeatsWhileJoined, AsksOn, BeatsOn, NwkCalls, Stopped, Told
<1> QED BY <1>5, <1>6 DEF JoinInv

LEMMA HandlersKeepJoinInv ==
    ASSUME JoinInv, OnAssocOk \/ OnAssocNo \/ OnJoinTimer \/ OnCycleTimer \/ OnJoinOk \/ OnJoinNo \/ OnStale
    PROVE  JoinInv'
<1>n. MAX_JION_NET_CNT \in Nat \ {0}
  BY JoinAssumption DEF JoinAssumption
<1>t. JoinTypeOK
  BY DEF JoinInv
<1>f. /\ nwk.join_status \in Statuses /\ nwk.join_cnt \in 0..MAX_JION_NET_CNT /\ nwk.nui \in BOOLEAN
      /\ [nwk EXCEPT !.join_cnt = 0] =
            [join_status |-> nwk.join_status, join_cnt |-> 0, nui |-> nwk.nui]
      /\ [nwk EXCEPT !.join_cnt = @ + 1] =
            [join_status |-> nwk.join_status, join_cnt |-> nwk.join_cnt + 1, nui |-> nwk.nui]
  BY <1>t, NwkFields DEF NwkShape, JoinTypeOK, Statuses
<1>s. nwk \in [join_status : Statuses, join_cnt : 0..MAX_JION_NET_CNT, nui : BOOLEAN]
  BY <1>t DEF JoinTypeOK, Statuses
<1>q. ASSUME NEW e, NEW next, NwkTake(e, next)
      PROVE  nwkq' \in Seq(NwkEvents) /\ ToSet(nwkq) = ToSet(nwkq') \cup {e}
  BY <1>q, <1>t, NwkTaken
<1>i. HeartbeatsWhileJoined /\ AsksOn /\ BeatsOn /\ NwkCalls /\ Told
  BY DEF JoinInv
<1> USE DEF NwkAt, threads, joinTimers, macVars
<1>1. CASE OnAssocOk
  <2>1. nwkq' \in Seq(NwkEvents) /\ ToSet(nwkq) = ToSet(nwkq') \cup {"ASSOC_OK"}
    BY <1>1, <1>q DEF OnAssocOk
  <2> USE DEF NwkTake, JoinInv, JoinTypeOK, HeartbeatsWhileJoined, AsksOn, BeatsOn, NwkCalls, Told, NwkEvents
  <2>2. CASE join
    BY <1>1, <2>1, <2>2 DEF OnAssocOk
  <2>3. CASE ~join
    <3>1. nwk' = [join_status |-> nwk.join_status, join_cnt |-> 0, nui |-> nwk.nui] /\ Request
      BY <1>1, <1>f, <2>3 DEF OnAssocOk
    <3> QED BY <1>1, <1>f, <1>n, <2>1, <3>1 DEF OnAssocOk, Request, Statuses
  <2> QED BY <2>2, <2>3
<1>2. CASE OnAssocNo
  BY <1>2, StopKeepsJoinInv DEF OnAssocNo
<1>3. CASE OnJoinTimer
  <2>1. CASE NwkTake("JOIN_TIMER", "mac_stop") /\ NwkStop /\ UNCHANGED <<join, asked>>
    BY <1>t, <2>1, StopKeepsJoinInv DEF JoinTypeOK
  <2>2. CASE /\ NwkTake("JOIN_TIMER", "idle") /\ nwk.join_cnt + 1 < MAX_JION_NET_CNT
             /\ nwk' = [nwk EXCEPT !.join_cnt = @ + 1] /\ Request
    <3>1. nwkq' \in Seq(NwkEvents) /\ ToSet(nwkq) = ToSet(nwkq') \cup {"JOIN_TIMER"}
      BY <2>2, <1>q
    <3>2. nwk' = [join_status |-> nwk.join_status, join_cnt |-> nwk.join_cnt + 1, nui |-> nwk.nui]
      BY <1>f, <2>2
    <3>3. nwk.join_cnt + 1 \in 0..MAX_JION_NET_CNT
      BY <1>f, <1>n, <2>2
    <3> QED BY <1>f, <1>n, <2>2, <3>1, <3>2, <3>3
            DEF NwkTake, JoinInv, JoinTypeOK, HeartbeatsWhileJoined, AsksOn, BeatsOn, NwkCalls, Told, NwkEvents,
                Request, Statuses
  <2> QED BY <1>3, <2>1, <2>2 DEF OnJoinTimer
<1>4. CASE OnCycleTimer
  <2>1. nwkq' \in Seq(NwkEvents) /\ ToSet(nwkq) = ToSet(nwkq') \cup {"CYCLE_TIMER"}
    BY <1>4, <1>q DEF OnCycleTimer
  <2> QED BY <1>4, <2>1 DEF OnCycleTimer, NwkTake, JoinInv, JoinTypeOK, HeartbeatsWhileJoined, AsksOn, BeatsOn,
                            NwkCalls, Told, NwkEvents
<1>5. CASE OnJoinOk
  <2>1. nwkq' \in Seq(NwkEvents) /\ ToSet(nwkq) = ToSet(nwkq') \cup {"JOIN_OK"}
    BY <1>5, <1>q DEF OnJoinOk
  <2>a. nwk' = [nwk EXCEPT !.join_status = "OK", !.join_cnt = 0]
    BY <1>5 DEF OnJoinOk
  <2>2. nwk' = [join_status |-> "OK", join_cnt |-> 0, nui |-> nwk.nui]
    BY <1>s, <2>a
  <2>3. 0 \in 0..MAX_JION_NET_CNT /\ "OK" \in Statuses
    BY <1>n DEF Statuses
  <2>4. nwk' \in [join_status : Statuses, join_cnt : 0..MAX_JION_NET_CNT, nui : BOOLEAN]
    BY <1>f, <2>2, <2>3
  <2>5. JoinTypeOK'
    BY <1>5, <1>t, <2>1, <2>4 DEF OnJoinOk, NwkTake, JoinTypeOK, NwkEvents, Statuses
  <2>6. (HeartbeatsWhileJoined /\ AsksOn /\ BeatsOn /\ NwkCalls /\ Told)'
    BY <1>5, <1>f, <1>i, <2>1, <2>2 DEF OnJoinOk, NwkTake, HeartbeatsWhileJoined, AsksOn, BeatsOn, NwkCalls, Boot,
            Stopped, Told
  <2> QED BY <2>5, <2>6 DEF JoinInv
<1>6. CASE OnJoinNo
  <2>1. nwkq' \in Seq(NwkEvents) /\ ToSet(nwkq) = ToSet(nwkq') \cup {"JOIN_NO"}
    BY <1>6, <1>q DEF OnJoinNo
  <2>a. nwk' = [nwk EXCEPT !.join_status = "FAIL", !.join_cnt = 0]
    BY <1>6 DEF OnJoinNo
  <2>2. nwk' = [join_status |-> "FAIL", join_cnt |-> 0, nui |-> nwk.nui]
    BY <1>s, <2>a
  <2>3. 0 \in 0..MAX_JION_NET_CNT /\ "FAIL" \in Statuses
    BY <1>n DEF Statuses
  <2>4. nwk' \in [join_status : Statuses, join_cnt : 0..MAX_JION_NET_CNT, nui : BOOLEAN]
    BY <1>f, <2>2, <2>3
  <2>5. JoinTypeOK'
    BY <1>6, <1>t, <2>1, <2>4 DEF OnJoinNo, NwkTake, JoinTypeOK, NwkEvents, Statuses
  <2>6. (HeartbeatsWhileJoined /\ AsksOn /\ BeatsOn /\ NwkCalls /\ Told)'
    BY <1>6, <1>f, <1>i, <2>1, <2>2 DEF OnJoinNo, NwkTake, HeartbeatsWhileJoined, AsksOn, BeatsOn, NwkCalls, Boot,
            Stopped, Told
  <2> QED BY <2>5, <2>6 DEF JoinInv
<1>7. CASE OnStale
  <2>1. PICK e \in {"JOIN_TIMER", "CYCLE_TIMER", "JOIN_OK", "JOIN_NO"} :
          /\ NwkTake(e, "idle")
          /\ e = "JOIN_TIMER" => ~join
          /\ e = "CYCLE_TIMER" => ~cycle
    BY <1>7 DEF OnStale
  <2>2. nwkq' \in Seq(NwkEvents) /\ ToSet(nwkq) = ToSet(nwkq') \cup {e}
    BY <2>1, <1>q
  <2> QED BY <1>7, <2>1, <2>2 DEF OnStale, NwkTake, JoinInv, JoinTypeOK, HeartbeatsWhileJoined, AsksOn,
                            BeatsOn, NwkCalls, Told, NwkEvents
<1> QED BY <1>1, <1>2, <1>3, <1>4, <1>5, <1>6, <1>7

\* The MAC task, the timers and the gateway.
LEMMA OthersKeepJoinInv ==
    ASSUME JoinInv,
           \/ NwkStart \/ OnRestart \/ RestartExpires \/ Associated \/ LinkLost
           \/ JoinExpires \/ CycleExpires \/ Answer
    PROVE  JoinInv'
<1>t. JoinTypeOK
  BY DEF JoinInv
<1>m. macq \in Seq({"RESTART"})
  BY <1>t DEF JoinTypeOK
<1>q. ASSUME NEW e \in NwkEvents, NwkPost(e)
      PROVE  nwkq' \in Seq(NwkEvents) /\ ToSet(nwkq') = ToSet(nwkq) \cup {e}
  BY <1>q, <1>t, NwkPosted
<1> USE DEF NwkUntouched, threads, joinTimers, macVars, JoinInv, JoinTypeOK, HeartbeatsWhileJoined, AsksOn, BeatsOn,
            NwkCalls, Boot, Stopped, Told, NwkEvents
<1>1. CASE NwkStart
  BY <1>1 DEF NwkStart
<1>2. CASE OnRestart
  <2>1. macq' \in Seq({"RESTART"}) /\ macq # <<>>
    BY <1>2, <1>m DEF OnRestart
  <2>2. CASE mac = "down" /\ mac' = "search" /\ gznet_run' = FALSE /\ UNCHANGED nwkq
    BY <1>2, <2>1, <2>2 DEF OnRestart
  <2>3. CASE mac # "down" /\ mac' = "down" /\ gznet_run' = TRUE /\ NwkPost("ASSOC_NO")
    <3>1. nwkq' \in Seq(NwkEvents) /\ ToSet(nwkq') = ToSet(nwkq) \cup {"ASSOC_NO"}
      BY <2>3, <1>q
    <3> QED BY <1>2, <2>1, <2>3, <3>1 DEF OnRestart
  <2> QED BY <1>2, <2>2, <2>3 DEF OnRestart
<1>3. CASE RestartExpires
  <2>1. macq' \in Seq({"RESTART"})
    BY <1>3, <1>m DEF RestartExpires
  <2> QED BY <1>3, <2>1 DEF RestartExpires
<1>4. CASE Associated
  <2>1. nwkq' \in Seq(NwkEvents) /\ ToSet(nwkq') = ToSet(nwkq) \cup {"ASSOC_OK"}
    BY <1>4, <1>q DEF Associated
  <2> QED BY <1>4, <2>1 DEF Associated
<1>5. CASE LinkLost
  <2>1. macq' \in Seq({"RESTART"}) /\ mac = "on"
    BY <1>5 DEF LinkLost
  <2> QED BY <1>5, <2>1 DEF LinkLost
<1>6. CASE JoinExpires
  <2>1. nwkq' \in Seq(NwkEvents) /\ ToSet(nwkq') = ToSet(nwkq) \cup {"JOIN_TIMER"}
    BY <1>6, <1>q DEF JoinExpires
  <2> QED BY <1>6, <2>1 DEF JoinExpires
<1>7. CASE CycleExpires
  <2>1. nwkq' \in Seq(NwkEvents) /\ ToSet(nwkq') = ToSet(nwkq) \cup {"CYCLE_TIMER"}
    BY <1>7, <1>q DEF CycleExpires
  <2> QED BY <1>7, <2>1 DEF CycleExpires
<1>8. CASE Answer
  <2>0. asked' \in 0..MAX_JION_NET_CNT
    BY <1>8, JoinAssumption DEF Answer, JoinAssumption
  <2>1. CASE UNCHANGED nwkq
    BY <1>8, <2>0, <2>1 DEF Answer
  <2>2. CASE NwkPost("JOIN_OK") \/ NwkPost("JOIN_NO")
    <3>1. nwkq' \in Seq(NwkEvents) /\ ToSet(nwkq) \subseteq ToSet(nwkq')
      BY <2>2, <1>q
    <3> QED BY <1>8, <2>0, <3>1 DEF Answer
  <2> QED BY <1>8, <2>1, <2>2 DEF Answer
<1> QED BY <1>1, <1>2, <1>3, <1>4, <1>5, <1>6, <1>7, <1>8

LEMMA JoinInvStep == JoinInv /\ [JoinNext]_joinVars => JoinInv'
<1> SUFFICES ASSUME JoinInv, [JoinNext]_joinVars PROVE JoinInv'
  OBVIOUS
<1>1. CASE UNCHANGED joinVars
  BY <1>1 DEF joinVars, JoinInv, JoinTypeOK, HeartbeatsWhileJoined, AsksOn, BeatsOn, NwkCalls, Boot, Stopped, Told
<1>2. CASE JoinNext
  BY <1>2, CallsKeepJoinInv, HandlersKeepJoinInv, OthersKeepJoinInv DEF JoinNext, NwkTask
<1> QED BY <1>1, <1>2

\* Heartbeats are sent only by a node that has an address and has not been refused,
\* whatever the gateway, the MAC layer and the timers do.
THEOREM OnlyMembersBeat == JoinSpec => []HeartbeatsWhileJoined
<1>1. JoinInv => HeartbeatsWhileJoined
  BY DEF JoinInv
<1> QED BY <1>1, JoinInvInit, JoinInvStep, PTL DEF JoinSpec

\* While a node asks, a delay or its event leads on; a member has its next heartbeat
\* under way; and a member whose MAC layer is down has the word of it queued. (A node
\* that neither asks nor beats, as after a restart, is not promised anything.)
THEOREM AskersAndMembersGoOn == JoinSpec => [](AsksOn /\ BeatsOn /\ CutOffTold)
<1>1. JoinInv => AsksOn /\ BeatsOn /\ CutOffTold
  BY DEF JoinInv, CutOffTold, Told, HeartbeatsWhileJoined, NwkCalls, Boot
<1> QED BY <1>1, JoinInvInit, JoinInvStep, PTL DEF JoinSpec

-----------------------------------------------------------------------------
(* The queue of the transport module.                                       *)

TranEvents == {"CSMA_TIMEOUT", "RXOK", "TXOK", "ACK_TIMEOUT"}

OnlyRx(q)   == \A i \in 1..Len(q) : q[i] = "RXOK"
AckAt(q, k) == k \in 1..Len(q) /\ q[k] = "ACK_TIMEOUT" /\ \A i \in 1..Len(q) : i # k => q[i] = "RXOK"
RxAt(q, k)  == k \in 1..Len(q) /\ q[k] = "RXOK" /\ \A i \in 1..Len(q) : i # k => q[i] # "RXOK"

LEMMA Taken ==
    ASSUME NEW q \in Seq(TranEvents), q # <<>>
    PROVE  /\ Tail(q) \in Seq(TranEvents) /\ Len(Tail(q)) = Len(q) - 1 /\ Len(q) \in Nat /\ Len(q) > 0
           /\ Head(q) = q[1] /\ Head(q) \in TranEvents
           /\ \A i \in 1..Len(q) - 1 : Tail(q)[i] = q[i + 1] /\ i + 1 \in 1..Len(q)
  OBVIOUS

LEMMA Appended ==
    ASSUME NEW q \in Seq(TranEvents), NEW e \in TranEvents
    PROVE  /\ Append(q, e) \in Seq(TranEvents) /\ Len(Append(q, e)) = Len(q) + 1 /\ Len(q) \in Nat
           /\ \A i \in 1..Len(q) : Append(q, e)[i] = q[i]
           /\ Append(q, e)[Len(q) + 1] = e /\ Append(q, e) # <<>>
  OBVIOUS

LEMMA OnlyRxTaken ==
    ASSUME NEW q \in Seq(TranEvents), q # <<>>, OnlyRx(q)
    PROVE  Head(q) = "RXOK" /\ OnlyRx(Tail(q))
<1>1. 1 \in 1..Len(q)
  BY Taken
<1> QED BY <1>1, Taken DEF OnlyRx

LEMMA AckTaken ==
    ASSUME NEW q \in Seq(TranEvents), NEW k, AckAt(q, k)
    PROVE  /\ q # <<>>
           /\ k = 1 => Head(q) = "ACK_TIMEOUT" /\ OnlyRx(Tail(q))
           /\ k # 1 => Head(q) = "RXOK" /\ AckAt(Tail(q), k - 1)
<1>1. q # <<>> /\ k \in 1..Len(q)
  BY DEF AckAt
<1>2. 1 \in 1..Len(q) /\ Len(q) \in Nat
  BY <1>1, Taken
<1>3. CASE k = 1
  BY <1>1, <1>2, <1>3, Taken DEF AckAt, OnlyRx
<1>4. CASE k # 1
  <2>1. Head(q) = "RXOK" /\ k - 1 \in 1..Len(q) - 1
    BY <1>1, <1>2, <1>4, Taken DEF AckAt
  <2>2. Tail(q)[k - 1] = "ACK_TIMEOUT"
    BY <1>1, <1>4, <2>1, Taken DEF AckAt
  <2>3. ASSUME NEW i \in 1..Len(q) - 1, i # k - 1 PROVE Tail(q)[i] = "RXOK"
    <3>1. Tail(q)[i] = q[i + 1] /\ i + 1 \in 1..Len(q) /\ i + 1 # k
      BY <1>1, <1>2, <2>3, Taken
    <3> QED BY <3>1 DEF AckAt
  <2> QED BY <1>1, <1>4, <2>1, <2>2, <2>3, Taken DEF AckAt
<1> QED BY <1>1, <1>3, <1>4

LEMMA RxPosted ==
    ASSUME NEW q \in Seq(TranEvents)
    PROVE  /\ OnlyRx(q) => OnlyRx(Append(q, "RXOK"))
           /\ OnlyRx(q) => AckAt(Append(q, "ACK_TIMEOUT"), Len(q) + 1)
           /\ \A k : AckAt(q, k) => AckAt(Append(q, "RXOK"), k)
<1>1. Len(q) \in Nat /\ \A i \in 1..Len(q) + 1 : i \in 1..Len(q) \/ i = Len(q) + 1
  OBVIOUS
<1>2. "RXOK" \in TranEvents /\ "ACK_TIMEOUT" \in TranEvents
  BY DEF TranEvents
<1>3. OnlyRx(q) => OnlyRx(Append(q, "RXOK"))
  BY <1>1, <1>2, Appended DEF OnlyRx
<1>4. OnlyRx(q) => AckAt(Append(q, "ACK_TIMEOUT"), Len(q) + 1)
  BY <1>1, <1>2, Appended DEF OnlyRx, AckAt
<1>5. ASSUME NEW k, AckAt(q, k) PROVE AckAt(Append(q, "RXOK"), k)
  <2>1. k \in 1..Len(q) /\ k \in 1..Len(q) + 1 /\ q[k] = "ACK_TIMEOUT" /\ \A i \in 1..Len(q) : i # k => q[i] = "RXOK"
    BY <1>1, <1>5 DEF AckAt
  <2>2. Append(q, "RXOK")[k] = "ACK_TIMEOUT"
    BY <1>2, <2>1, Appended
  <2>3. \A i \in 1..Len(q) + 1 : i # k => Append(q, "RXOK")[i] = "RXOK"
    BY <1>1, <1>2, <2>1, Appended
  <2> QED BY <1>2, <2>1, <2>2, <2>3, Appended DEF AckAt
<1> QED BY <1>3, <1>4, <1>5

\* A frame that can be read is announced by one event only.
Unread(q, r) == r # "bad" => \E k \in 1..Len(q) : RxAt(q, k)

LEMMA UnreadAfter ==
    ASSUME NEW q \in Seq(TranEvents), NEW r, Unread(q, r)
    PROVE  /\ q # <<>> /\ Head(q) # "RXOK" => Unread(Tail(q), r)
           /\ \A e \in TranEvents : e # "RXOK" => Unread(Append(q, e), r)
           /\ Unread(Append(q, "RXOK"), IF "RXOK" \in ToSet(q) THEN "bad" ELSE r)
           /\ \A x : Unread(Append(q, "RXOK"), IF "RXOK" \in ToSet(q) THEN "bad" ELSE x)
<1>0. Len(q) \in Nat /\ \A i \in 1..Len(q) + 1 : i \in 1..Len(q) \/ i = Len(q) + 1
  OBVIOUS
<1>1. ASSUME q # <<>>, Head(q) # "RXOK", r # "bad" PROVE \E k \in 1..Len(Tail(q)) : RxAt(Tail(q), k)
  <2>1. PICK k \in 1..Len(q) : RxAt(q, k)
    BY <1>1 DEF Unread
  <2>2. k # 1 /\ k - 1 \in 1..Len(q) - 1
    BY <1>1, <2>1, Taken DEF RxAt
  <2>3. Tail(q)[k - 1] = "RXOK"
    BY <1>1, <2>1, <2>2, Taken DEF RxAt
  <2>4. ASSUME NEW i \in 1..Len(q) - 1, i # k - 1 PROVE Tail(q)[i] # "RXOK"
    <3>1. Tail(q)[i] = q[i + 1] /\ i + 1 \in 1..Len(q) /\ i + 1 # k
      BY <1>1, <2>1, <2>4, Taken
    <3> QED BY <2>1, <3>1 DEF RxAt
  <2>5. RxAt(Tail(q), k - 1)
    BY <1>1, <2>2, <2>3, <2>4, Taken DEF RxAt
  <2> QED BY <1>1, <2>2, <2>5, Taken
<1>2. ASSUME NEW e \in TranEvents, e # "RXOK", r # "bad" PROVE \E k \in 1..Len(Append(q, e)) : RxAt(Append(q, e), k)
  <2>1. PICK k \in 1..Len(q) : RxAt(q, k)
    BY <1>2 DEF Unread
  <2>2. k \in 1..Len(q) + 1 /\ Append(q, e)[k] = "RXOK"
    BY <2>1, Appended DEF RxAt
  <2>3. \A i \in 1..Len(q) + 1 : i # k => Append(q, e)[i] # "RXOK"
    BY <1>0, <1>2, <2>1, Appended DEF RxAt
  <2>4. RxAt(Append(q, e), k)
    BY <2>2, <2>3, Appended DEF RxAt
  <2> QED BY <2>2, <2>4, Appended
<1>3. "RXOK" \in TranEvents /\ DOMAIN q = 1..Len(q)
  BY DEF TranEvents
<1>4. ASSUME "RXOK" \notin ToSet(q) PROVE \E k \in 1..Len(Append(q, "RXOK")) : RxAt(Append(q, "RXOK"), k)
  <2>1. \A i \in 1..Len(q) : q[i] # "RXOK"
    BY <1>3, <1>4 DEF ToSet
  <2>2. RxAt(Append(q, "RXOK"), Len(q) + 1)
    BY <1>0, <1>3, <2>1, Appended DEF RxAt
  <2>3. Len(q) + 1 \in 1..Len(Append(q, "RXOK"))
    BY <1>0, <1>3, Appended
  <2> QED BY <2>2, <2>3
<1> QED BY <1>1, <1>2, <1>4 DEF Unread

\* What is left when the event that announces a frame is taken.
LEMMA LoneTaken ==
    ASSUME NEW q \in Seq(TranEvents), NEW r, Unread(q, r), r # "bad", q # <<>>, Head(q) = "RXOK"
    PROVE  /\ OnlyRx(q) => Tail(q) = <<>>
           /\ \A j : AckAt(q, j) => AckAt(Tail(q), 1)
<1>1. PICK k \in 1..Len(q) : RxAt(q, k)
  BY DEF Unread
<1>2. 1 \in 1..Len(q) /\ q[1] = "RXOK" /\ Len(q) \in Nat
  BY Taken
<1>3. \A i \in 1..Len(q) : i # 1 => q[i] # "RXOK"
  BY <1>1, <1>2 DEF RxAt
<1>4. ASSUME OnlyRx(q) PROVE Tail(q) = <<>>
  <2>1. Len(q) = 1
    <3> SUFFICES ASSUME Len(q) # 1 PROVE FALSE
      OBVIOUS
    <3> DEFINE n == Len(q)
    <3>1. n \in Nat /\ 1 \in 1..n /\ n # 1
      BY <1>2
    <3> HIDE DEF n
    <3>2. 2 \in 1..n
      BY <3>1
    <3> QED BY <1>3, <1>4, <3>2 DEF OnlyRx, n
  <2>2. Tail(q) \in Seq(TranEvents) /\ Len(Tail(q)) = 0
    BY <2>1, Taken
  <2> QED BY <2>2, EmptySeq
<1>5. ASSUME NEW j, AckAt(q, j) PROVE AckAt(Tail(q), 1)
  <2>1. j # 1 /\ j \in 1..Len(q) /\ q[j] # "RXOK"
    BY <1>2, <1>5 DEF AckAt
  <2>2. j = 2
    <3> SUFFICES ASSUME j # 2 PROVE FALSE
      OBVIOUS
    <3>1. 2 \in 1..Len(q)
      BY <1>2, <2>1
    <3>2. q[2] = "RXOK"
      BY <1>5, <3>1 DEF AckAt
    <3> QED BY <1>3, <3>1, <3>2
  <2>3. AckAt(Tail(q), j - 1)
    BY <1>5, <2>1, AckTaken
  <2> QED BY <2>2, <2>3
<1> QED BY <1>4, <1>5

-----------------------------------------------------------------------------
(* The phases of a transmission.                                            *)

TranState == [sbuf : Frame \cup {NoFrame}, can_send : BOOLEAN, ack_needed : BOOLEAN,
              ack_received : BOOLEAN, ack_timeout_happened : BOOLEAN, nb : 0..MAX_CSMA_BACKOFFS]
RadioTyped == /\ csma_timer \in BOOLEAN /\ ack_timer \in BOOLEAN
              /\ phy \in {"IDLE", "RX", "RXOK", "TXOK", "SLEEP"}
              /\ air \in Frame \cup {NoFrame}

Silent  == ~csma_timer /\ ~ack_timer /\ air = NoFrame
Holding == tran.sbuf \in Frame /\ ~tran.can_send

\* Nothing is being sent; the timeout of an acknowledged frame may come late.
Free == /\ tran.sbuf = NoFrame /\ tran.can_send /\ ~tran.ack_needed /\ Silent
        /\ OnlyRx(tranq) \/ (tran.ack_received /\ AckAt(tranq, 1))

BackingOff ==
    /\ Holding /\ ~tran.ack_needed /\ tran.nb < MAX_CSMA_BACKOFFS /\ reached = "nowhere"
    /\ phy # "RX" /\ ~ack_timer /\ air = NoFrame
    /\ (csma_timer /\ tranq = <<>>) \/ (~csma_timer /\ tranq = <<"CSMA_TIMEOUT">>)

OnAir ==
    /\ Holding /\ (tran.ack_needed <=> tran.sbuf \in NeedAck)
    /\ phy # "RX" /\ ~csma_timer /\ ~ack_timer
    /\ \/ air = tran.sbuf /\ tranq = <<>> /\ reached = "nowhere"
       \/ air = NoFrame /\ tranq = <<"TXOK">> /\ reached \in {"sent", "heard"}

AwaitingAck ==
    /\ Holding /\ tran.ack_needed /\ tran.sbuf \in NeedAck
    /\ ~tran.ack_received /\ ~tran.ack_timeout_happened
    /\ ~csma_timer /\ air = NoFrame
    /\ (ack_timer /\ OnlyRx(tranq)) \/ (~ack_timer /\ \E k \in 1..Len(tranq) : AckAt(tranq, k))

Phase == Free \/ BackingOff \/ OnAir \/ AwaitingAck

\* The peer acknowledges only what it has heard.
Acknowledged == /\ due \subseteq NeedAck /\ rxfifo \in Noise \cup NeedAck
                /\ tran.sbuf \in due \cup {rxfifo} => tran.sbuf \notin Frame \/ reached = "heard"

QueueSound == tranq \in Seq(TranEvents) /\ Unread(tranq, rxfifo)

RInv == tran \in TranState /\ RadioTyped /\ QueueSound /\ Acknowledged /\ Phase

LEMMA FrameFacts == /\ NeedAck \subseteq Frame /\ AckFrame \in Frame /\ AckFrame \notin NeedAck
                    /\ AckFrame \notin Csma /\ NoFrame \notin Frame /\ MAX_CSMA_BACKOFFS \in Nat
                    /\ "bad" \notin Frame /\ "data" \notin Frame /\ "data_ack" \notin Frame
  BY TransmitAssumption DEF Noise

\* What every step has to show.
Good == RInv' /\ [HandedOver!HNext]_(HandedOver!hvars)

\* tran_send_failed: the frame is given back, or was refused.
LEMMA GivenUp ==
    ASSUME RadioTyped, NEW t \in TranState, GiveUp(t), ~csma_timer, tranq' \in Seq(TranEvents), OnlyRx(tranq')
    PROVE  tran' \in TranState /\ RadioTyped' /\ Free' /\ tran'.sbuf = NoFrame /\ result' = FALSE
<1>1. /\ tran' = [t EXCEPT !.sbuf = NoFrame, !.can_send = TRUE, !.ack_needed = FALSE] /\ result' = FALSE
      /\ ack_timer' = FALSE /\ csma_timer' = csma_timer /\ phy' = "SLEEP" /\ air' = NoFrame
  BY DEF GiveUp, Freed, SetPhy
<1>2. tran' \in TranState /\ tran'.sbuf = NoFrame /\ tran'.can_send /\ ~tran'.ack_needed
  BY <1>1 DEF TranState
<1>3. ~csma_timer' /\ RadioTyped'
  BY <1>1 DEF RadioTyped
<1> QED BY <1>1, <1>2, <1>3 DEF Free, Silent

\* tran_send: the frame is on the air, or given up.
LEMMA Transmits ==
    ASSUME RadioTyped, NEW t \in TranState, TranSend(t), ~csma_timer, ~ack_timer, tranq' = <<>>,
           t.sbuf \in Frame, ~t.can_send, ~t.ack_needed, reached' = "nowhere"
    PROVE  /\ tran' \in TranState /\ RadioTyped'
           /\ (Free' /\ tran'.sbuf = NoFrame /\ result' = FALSE)
              \/ (OnAir' /\ tran'.sbuf = t.sbuf /\ result' = result)
<1>1. CASE GiveUp(t)
  <2>1. tranq' \in Seq(TranEvents) /\ OnlyRx(tranq')
    BY DEF OnlyRx
  <2> QED BY <1>1, <2>1, GivenUp
<1>2. CASE ~GiveUp(t)
  <2>1. /\ tran' = [t EXCEPT !.ack_needed = @ \/ t.sbuf \in NeedAck]
        /\ air' = t.sbuf /\ phy' = "IDLE" /\ csma_timer' = csma_timer /\ ack_timer' = ack_timer /\ result' = result
    BY <1>2 DEF TranSend, tranTimers
  <2>2. tran' \in TranState
    BY <2>1 DEF TranState
  <2>3. tran'.sbuf = t.sbuf /\ ~tran'.can_send /\ (tran'.ack_needed <=> t.sbuf \in NeedAck)
    BY <2>1 DEF TranState
  <2>4. ~csma_timer' /\ ~ack_timer'
    BY <2>1
  <2>5. RadioTyped'
    BY <2>1, <2>4 DEF RadioTyped
  <2>6. OnAir'
    BY <2>1, <2>3, <2>4 DEF OnAir, Holding
  <2> QED BY <2>1, <2>2, <2>3, <2>5, <2>6
<1> QED BY <1>1, <1>2

\* csma_backoff: a timer is armed, or the frame is given up.
LEMMA BacksOff ==
    ASSUME RadioTyped, NEW t \in TranState, Backoff(t), ~csma_timer, ~ack_timer, tranq' = <<>>,
           t.sbuf \in Frame, ~t.can_send, ~t.ack_needed, reached' = "nowhere"
    PROVE  /\ tran' \in TranState /\ RadioTyped'
           /\ (Free' /\ tran'.sbuf = NoFrame /\ result' = FALSE)
              \/ (BackingOff' /\ tran'.sbuf = t.sbuf /\ result' = result)
<1>1. CASE GiveUp(t)
  <2>1. tranq' \in Seq(TranEvents) /\ OnlyRx(tranq')
    BY DEF OnlyRx
  <2> QED BY <1>1, <2>1, GivenUp
<1>2. CASE ~GiveUp(t)
  <2>1. /\ t.nb < MAX_CSMA_BACKOFFS /\ tran' = t /\ csma_timer' = TRUE /\ air' = NoFrame /\ phy' = "IDLE"
        /\ ack_timer' = ack_timer /\ result' = result
    BY <1>2 DEF Backoff, SetPhy
  <2>2. RadioTyped'
    BY <2>1 DEF RadioTyped
  <2>3. BackingOff'
    BY <2>1 DEF BackingOff, Holding
  <2> QED BY <2>1, <2>2, <2>3
<1> QED BY <1>1, <1>2

\* m_tran_send in a free module with no event left.
LEMMA Started ==
    ASSUME tran \in TranState, RadioTyped, Free, NEW f \in Frame, Start(f), tranq' = <<>>,
           f \notin due' \cup {rxfifo'}, due' \subseteq NeedAck, rxfifo' \in Noise \cup NeedAck,
           Unread(tranq', rxfifo')
    PROVE  RInv' /\ HandedOver!HNext
<1> DEFINE t == [tran EXCEPT !.sbuf = f, !.can_send = FALSE, !.ack_received = FALSE, !.nb = 0]
<1>1. t \in TranState /\ t.sbuf = f /\ ~t.can_send /\ ~t.ack_needed
  <2>1. 0 \in 0..MAX_CSMA_BACKOFFS
    BY FrameFacts
  <2>2. [tran EXCEPT !.sbuf = f] \in TranState
    BY DEF TranState
  <2>3. [tran EXCEPT !.sbuf = f, !.can_send = FALSE] \in TranState
    BY <2>2 DEF TranState
  <2>4. [tran EXCEPT !.sbuf = f, !.can_send = FALSE, !.ack_received = FALSE] \in TranState
    BY <2>3 DEF TranState
  <2>5. t \in TranState
    BY <2>1, <2>4 DEF TranState
  <2>6. t.sbuf = f /\ ~t.can_send /\ ~t.ack_needed
    BY DEF TranState, Free
  <2> QED BY <2>5, <2>6
<1>2. reached' = "nowhere" /\ (Backoff(t) \/ TranSend(t))
  BY DEF Start
<1> HIDE DEF t
<1>3. ~csma_timer /\ ~ack_timer
  BY DEF Free, Silent
<1>4. /\ tran' \in TranState /\ RadioTyped' /\ Phase'
      /\ (tran'.sbuf = NoFrame /\ result' = FALSE) \/ (tran'.sbuf = f /\ result' = result)
  BY <1>1, <1>2, <1>3, Transmits, BacksOff DEF Phase
<1>5. Acknowledged'
  BY <1>2, <1>4, FrameFacts DEF Acknowledged
<1>6. QueueSound'
  BY DEF QueueSound
<1>7. tran.sbuf = NoFrame
  BY DEF Free
<1>8. HandedOver!HNext
  BY <1>2, <1>4, <1>7, FrameFacts DEF HandedOver!HNext, HandedOver!Accept, HandedOver!Refuse
<1> QED BY <1>4, <1>5, <1>6, <1>8 DEF RInv

-----------------------------------------------------------------------------
(* Every step keeps the invariant and does what HandOver allows.            *)

LEMMA Phases ==
    ASSUME RInv
    PROVE  /\ tran.can_send => Free
           /\ ack_timer => AwaitingAck
           /\ csma_timer => BackingOff
           /\ phy = "RX" => Free \/ AwaitingAck
           /\ air # NoFrame => OnAir
<1>1. Free \/ BackingOff \/ OnAir \/ AwaitingAck
  BY DEF RInv, Phase
<1> QED BY <1>1 DEF Free, BackingOff, OnAir, AwaitingAck, Silent, Holding

\* The steps that touch neither the frame nor what is said of it.
LEMMA Aside ==
    ASSUME RInv, UNCHANGED <<tran, reached, result>>, RadioTyped', QueueSound', Phase',
           due' \subseteq NeedAck, rxfifo' \in Noise \cup NeedAck,
           due' \cup {rxfifo'} \subseteq due \cup {rxfifo, "bad"}
    PROVE  Good
<1>1. tran' \in TranState /\ tran'.sbuf = tran.sbuf
  BY DEF RInv
<1>2. Acknowledged'
  BY <1>1, FrameFacts DEF RInv, Acknowledged
<1> QED BY <1>1, <1>2 DEF Good, RInv, HandedOver!hvars

LEMMA SendGood == ASSUME RInv, CallerWaits, Send PROVE Good
<1>1. PICK f \in Frame \ (due \cup {rxfifo}) : Start(f)
  BY DEF Send
<1>2. Free /\ tranq' = <<>> /\ rxfifo' = rxfifo /\ due' = due
  BY Phases DEF Send
<1>3. /\ tran \in TranState /\ RadioTyped /\ due \subseteq NeedAck /\ rxfifo \in Noise \cup NeedAck
      /\ Unread(tranq, rxfifo) /\ tranq = <<>>
  BY DEF RInv, Acknowledged, QueueSound, Send
<1> QED BY <1>1, <1>2, <1>3, Started DEF Good

LEMMA TurnGood == ASSUME RInv, CallerWaits, Recv \/ Sleep PROVE Good
<1>1. PICK s \in {"RX", "SLEEP"} : Turn(s)
  BY DEF Recv, Sleep
<1>2. /\ phy' = s /\ air' = NoFrame /\ (Free \/ AwaitingAck)
      /\ UNCHANGED <<tran, csma_timer, ack_timer, tranq, result, rxfifo, reached, due>>
  BY <1>1, Phases DEF Turn, SetPhy, tranTimers, peer
<1>3. RadioTyped'
  BY <1>2 DEF RInv, RadioTyped
<1>4. Free' \/ AwaitingAck'
  BY <1>2 DEF Free, AwaitingAck, Silent, Holding
<1>5. QueueSound' /\ due \subseteq NeedAck /\ rxfifo \in Noise \cup NeedAck
  BY <1>2 DEF RInv, QueueSound, Acknowledged
<1> QED BY <1>2, <1>3, <1>4, <1>5, Aside DEF Phase

LEMMA CsmaExpiresGood == ASSUME RInv, CsmaExpires PROVE Good
<1>1. /\ csma_timer /\ csma_timer' = FALSE /\ tranq' = Append(tranq, "CSMA_TIMEOUT")
      /\ UNCHANGED <<tran, ack_timer, result, phy, air, rxfifo, reached, due>>
  BY DEF CsmaExpires, Post, Untouched, peer
<1>2. BackingOff /\ tranq = <<>> /\ tranq' = <<"CSMA_TIMEOUT">>
  <2>1. BackingOff /\ tranq = <<>>
    BY <1>1, Phases DEF BackingOff
  <2> QED BY <1>1, <2>1
<1>3. RadioTyped' /\ due \subseteq NeedAck /\ rxfifo \in Noise \cup NeedAck
  BY <1>1 DEF RInv, RadioTyped, Acknowledged
<1>4. BackingOff'
  BY <1>1, <1>2 DEF BackingOff, Holding
<1>5. QueueSound'
  <2>1. "CSMA_TIMEOUT" \in TranEvents /\ tranq \in Seq(TranEvents) /\ Unread(tranq, rxfifo)
    BY DEF TranEvents, RInv, QueueSound
  <2>2. Unread(Append(tranq, "CSMA_TIMEOUT"), rxfifo)
    BY <2>1, UnreadAfter
  <2> QED BY <1>1, <2>1, <2>2 DEF QueueSound
<1> QED BY <1>1, <1>3, <1>4, <1>5, Aside DEF Phase

LEMMA AckExpiresGood == ASSUME RInv, AckExpires PROVE Good
<1>1. AwaitingAck /\ OnlyRx(tranq) /\ ~tran.ack_received
  BY Phases DEF AckExpires, AwaitingAck
<1>2. /\ ack_timer' = FALSE /\ tranq' = Append(tranq, "ACK_TIMEOUT")
      /\ UNCHANGED <<tran, csma_timer, result, phy, air, rxfifo, reached, due>>
  BY <1>1 DEF AckExpires, Post, Untouched, peer
<1>3. "ACK_TIMEOUT" \in TranEvents /\ tranq \in Seq(TranEvents) /\ Unread(tranq, rxfifo)
  BY DEF TranEvents, RInv, QueueSound
<1>4. QueueSound'
  <2>1. Unread(Append(tranq, "ACK_TIMEOUT"), rxfifo)
    BY <1>3, UnreadAfter
  <2> QED BY <1>2, <1>3, <2>1 DEF QueueSound
<1>5. \E k \in 1..Len(tranq') : AckAt(tranq', k)
  <2>1. AckAt(tranq', Len(tranq) + 1)
    BY <1>1, <1>2, <1>3, RxPosted
  <2> QED BY <2>1 DEF AckAt
<1>6. AwaitingAck'
  BY <1>1, <1>2, <1>5 DEF AwaitingAck, Holding
<1>7. RadioTyped' /\ due \subseteq NeedAck /\ rxfifo \in Noise \cup NeedAck
  BY <1>2 DEF RInv, RadioTyped, Acknowledged
<1> QED BY <1>2, <1>4, <1>6, <1>7, Aside DEF Phase

LEMMA TxDoneGood == ASSUME RInv, TxDone PROVE Good
<1>1. PICK heard \in BOOLEAN :
        /\ reached' = IF heard THEN "heard" ELSE "sent"
        /\ due' = IF heard /\ air \in NeedAck THEN due \cup {air} ELSE due
  BY DEF TxDone
<1>2. /\ OnAir /\ air = tran.sbuf /\ tranq = <<>> /\ reached = "nowhere"
      /\ phy' = "TXOK" /\ air' = NoFrame /\ tranq' = Append(tranq, "TXOK")
      /\ UNCHANGED <<tran, csma_timer, ack_timer, result, rxfifo>>
  BY Phases DEF TxDone, SetPhy, Post, tranTimers, OnAir
<1>3. tranq' = <<"TXOK">> /\ tran.sbuf \in Frame /\ tran.sbuf # NoFrame
  BY <1>2, FrameFacts DEF OnAir, Holding
<1>4. OnAir'
  BY <1>1, <1>2, <1>3 DEF OnAir, Holding
<1>5. RadioTyped' /\ tran' \in TranState
  BY <1>2 DEF RInv, RadioTyped
<1>6. QueueSound'
  <2>1. "TXOK" \in TranEvents /\ tranq \in Seq(TranEvents) /\ Unread(tranq, rxfifo)
    BY DEF TranEvents, RInv, QueueSound
  <2>2. Unread(Append(tranq, "TXOK"), rxfifo)
    BY <2>1, UnreadAfter
  <2> QED BY <1>2, <2>1, <2>2 DEF QueueSound
<1>7. Acknowledged'
  <2>1. tran.sbuf \notin due \cup {rxfifo} /\ due \subseteq NeedAck /\ rxfifo \in Noise \cup NeedAck
    BY <1>2, <1>3 DEF RInv, Acknowledged
  <2>2. tran'.sbuf = tran.sbuf /\ rxfifo' = rxfifo /\ due' \subseteq NeedAck
    BY <1>1, <1>2, <2>1
  <2>3. reached' # "heard" => due' = due
    BY <1>1
  <2> QED BY <2>1, <2>2, <2>3 DEF Acknowledged
<1>8. HandedOver!Travel
  BY <1>1, <1>2, <1>3 DEF HandedOver!Travel
<1> QED BY <1>4, <1>5, <1>6, <1>7, <1>8 DEF Good, RInv, Phase, HandedOver!HNext

LEMMA RxDoneGood == ASSUME RInv, RxDone PROVE Good
<1>1. PICK r \in Noise \cup due : /\ due' = due \ {r}
                                 /\ rxfifo' = IF "RXOK" \in ToSet(tranq) THEN "bad" ELSE r
  BY DEF RxDone
<1>2. /\ Free \/ AwaitingAck
      /\ phy' = "RXOK" /\ tranq' = Append(tranq, "RXOK")
      /\ UNCHANGED <<tran, csma_timer, ack_timer, air, reached, result>>
  BY Phases DEF RxDone, Post, tranTimers
<1>3. "RXOK" \in TranEvents /\ tranq \in Seq(TranEvents) /\ Unread(tranq, rxfifo)
  BY DEF TranEvents, RInv, QueueSound
<1>4. QueueSound'
  BY <1>1, <1>2, <1>3, UnreadAfter DEF QueueSound
<1>5. /\ OnlyRx(tranq) => OnlyRx(tranq')
      /\ \A k : AckAt(tranq, k) => AckAt(tranq', k) /\ k \in 1..Len(tranq')
  BY <1>2, <1>3, RxPosted DEF AckAt
<1>6. Free' \/ AwaitingAck'
  <2>1. CASE Free
    BY <1>2, <1>5, <2>1 DEF Free, Silent
  <2>2. CASE AwaitingAck
    BY <1>2, <1>5, <2>2 DEF AwaitingAck, Holding
  <2> QED BY <1>2, <2>1, <2>2
<1>7. RadioTyped'
  BY <1>2 DEF RInv, RadioTyped
<1>8. /\ due' \subseteq NeedAck /\ rxfifo' \in Noise \cup NeedAck /\ tran' \in TranState
      /\ tran'.sbuf \in due' \cup {rxfifo'} => tran'.sbuf \notin Frame \/ reached' = "heard"
  <2>1. due \subseteq NeedAck
    BY DEF RInv, Acknowledged
  <2>2. "bad" \in Noise /\ Noise \cap Frame = {}
    BY FrameFacts DEF Noise
  <2>3. tran.sbuf \in Frame /\ tran.sbuf \in due' \cup {rxfifo'} => tran.sbuf \in due
    BY <1>1, <2>2
  <2> QED BY <1>1, <1>2, <2>1, <2>2, <2>3 DEF RInv, Acknowledged
<1> QED BY <1>2, <1>4, <1>6, <1>7, <1>8 DEF Good, RInv, Acknowledged, Phase, HandedOver!hvars

LEMMA AckLostGood == ASSUME RInv, AckLost PROVE Good
<1>1. /\ UNCHANGED <<tran, csma_timer, ack_timer, phy, tranq, rxfifo, air, reached, result>>
      /\ due' \subseteq due
  BY DEF AckLost, tranTimers
<1>2. RadioTyped' /\ QueueSound' /\ due' \subseteq NeedAck /\ rxfifo' \in Noise \cup NeedAck
  BY <1>1 DEF RInv, RadioTyped, QueueSound, Acknowledged
<1>3. Phase'
  BY <1>1 DEF RInv, Phase, Free, BackingOff, OnAir, AwaitingAck, Silent, Holding
<1> QED BY <1>1, <1>2, <1>3, Aside

\* The end of a frame under way.
LEMMA GivesBack ==
    ASSUME RInv, Holding, NEW t \in TranState, GiveUp(t), ~csma_timer, UNCHANGED peer,
           QueueSound', OnlyRx(tranq')
    PROVE  Good
<1>1. tranq' \in Seq(TranEvents) /\ UNCHANGED <<rxfifo, reached, due>>
  BY DEF QueueSound, peer
<1>2. tran' \in TranState /\ RadioTyped' /\ Free' /\ tran'.sbuf = NoFrame /\ result' = FALSE
  BY <1>1, GivenUp DEF RInv
<1>3. Acknowledged'
  BY <1>1, <1>2, FrameFacts DEF RInv, Acknowledged
<1>4. tran.sbuf \in Frame /\ tran.sbuf # NoFrame
  BY FrameFacts DEF Holding
<1>5. HandedOver!GiveBack(FALSE)
  BY <1>1, <1>2, <1>4 DEF HandedOver!GiveBack
<1> QED BY <1>2, <1>3, <1>5 DEF Good, RInv, Phase, HandedOver!HNext, HandedOver!Finish

LEMMA QueueLeft ==
    ASSUME RInv, tranq # <<>>, Head(tranq) # "RXOK", tranq' = Tail(tranq), rxfifo' = rxfifo
    PROVE  QueueSound'
<1>1. tranq \in Seq(TranEvents) /\ Unread(tranq, rxfifo)
  BY DEF RInv, QueueSound
<1>2. Tail(tranq) \in Seq(TranEvents) /\ Unread(Tail(tranq), rxfifo)
  BY <1>1, Taken, UnreadAfter
<1> QED BY <1>2 DEF QueueSound

\* Which frame an event meets.
LEMMA EventMeets ==
    ASSUME RInv, tranq # <<>>
    PROVE  /\ Head(tranq) = "CSMA_TIMEOUT" => BackingOff /\ ~csma_timer /\ Tail(tranq) = <<>>
           /\ Head(tranq) = "TXOK" => OnAir /\ Tail(tranq) = <<>> /\ air = NoFrame /\ reached \in {"sent", "heard"}
           /\ Head(tranq) = "ACK_TIMEOUT" => \/ Free /\ tran.ack_received
                                             \/ AwaitingAck /\ ~ack_timer
           /\ Head(tranq) = "ACK_TIMEOUT" => OnlyRx(Tail(tranq))
           /\ Head(tranq) = "RXOK" => \/ Free /\ OnlyRx(tranq)
                                      \/ AwaitingAck
<1>1. tranq \in Seq(TranEvents) /\ Phase
  BY DEF RInv, QueueSound
<1>2. CASE Free
  <2>1. CASE OnlyRx(tranq)
    BY <1>1, <1>2, <2>1, OnlyRxTaken
  <2>2. CASE tran.ack_received /\ AckAt(tranq, 1)
    BY <1>1, <1>2, <2>2, AckTaken
  <2> QED BY <1>2, <2>1, <2>2 DEF Free
<1>3. CASE BackingOff
  <2>1. ~csma_timer /\ tranq = <<"CSMA_TIMEOUT">>
    BY <1>3 DEF BackingOff
  <2>2. Head(tranq) = "CSMA_TIMEOUT" /\ Tail(tranq) = <<>>
    BY <2>1
  <2> QED BY <1>3, <2>1, <2>2
<1>4. CASE OnAir
  <2>1. tranq = <<"TXOK">> /\ air = NoFrame /\ reached \in {"sent", "heard"}
    BY <1>4 DEF OnAir
  <2>2. Head(tranq) = "TXOK" /\ Tail(tranq) = <<>>
    BY <2>1
  <2> QED BY <1>4, <2>1, <2>2
<1>5. CASE AwaitingAck
  <2>1. CASE OnlyRx(tranq)
    BY <1>1, <1>5, <2>1, OnlyRxTaken
  <2>2. CASE ~OnlyRx(tranq)
    <3>1. PICK k \in 1..Len(tranq) : AckAt(tranq, k)
      BY <1>5, <2>2 DEF AwaitingAck
    <3>2. ~ack_timer
      BY <1>5, <2>2 DEF AwaitingAck
    <3> QED BY <1>1, <1>5, <3>1, <3>2, AckTaken
  <2> QED BY <2>1, <2>2
<1> QED BY <1>1, <1>2, <1>3, <1>4, <1>5 DEF Phase

LEMMA OnCsmaTimeoutGood == ASSUME RInv, OnCsmaTimeout PROVE Good
<1>1. /\ tranq # <<>> /\ Head(tranq) = "CSMA_TIMEOUT" /\ tranq' = Tail(tranq)
      /\ UNCHANGED <<rxfifo, reached, due>>
      /\ TranSend(tran) \/ Backoff([tran EXCEPT !.nb = @ + 1])
  BY DEF OnCsmaTimeout, Handle, peer
<1>2. BackingOff /\ ~csma_timer /\ tranq' = <<>> /\ tran \in TranState /\ RadioTyped
  BY <1>1, EventMeets DEF RInv
<1>3. QueueSound'
  BY <1>1, QueueLeft
<1> DEFINE t == [tran EXCEPT !.nb = @ + 1]
<1>4. t \in TranState /\ t.sbuf = tran.sbuf /\ ~t.can_send /\ ~t.ack_needed
  <2>1. tran.nb \in 0..MAX_CSMA_BACKOFFS /\ tran.nb + 1 \in 0..MAX_CSMA_BACKOFFS
    BY <1>2, FrameFacts DEF BackingOff, TranState
  <2>2. t \in TranState
    BY <1>2, <2>1 DEF TranState
  <2> QED BY <1>2, <2>2 DEF TranState, BackingOff, Holding
<1>5. TranSend(tran) \/ Backoff(t)
  BY <1>1
<1> HIDE DEF t
<1>6. reached' = "nowhere" /\ ~ack_timer /\ tran.sbuf \in Frame /\ ~tran.can_send /\ ~tran.ack_needed
  BY <1>1, <1>2 DEF BackingOff, Holding
<1>7. /\ tran' \in TranState /\ RadioTyped' /\ Phase'
      /\ (tran'.sbuf = NoFrame /\ result' = FALSE) \/ (tran'.sbuf = tran.sbuf /\ result' = result)
  BY <1>2, <1>4, <1>5, <1>6, Transmits, BacksOff DEF Phase
<1>8. Acknowledged'
  BY <1>1, <1>7, FrameFacts DEF RInv, Acknowledged
<1>9. HandedOver!GiveBack(FALSE) \/ UNCHANGED HandedOver!hvars
  BY <1>1, <1>6, <1>7, FrameFacts DEF HandedOver!GiveBack, HandedOver!hvars
<1> QED BY <1>3, <1>7, <1>8, <1>9 DEF Good, RInv, HandedOver!HNext, HandedOver!Finish

LEMMA OnTxokGood == ASSUME RInv, OnTxok PROVE Good
<1>1. /\ tranq # <<>> /\ Head(tranq) = "TXOK" /\ tranq' = Tail(tranq)
      /\ UNCHANGED <<rxfifo, reached, due>>
  BY DEF OnTxok, Handle, peer
<1>2. /\ OnAir /\ tranq' = <<>> /\ tran \in TranState /\ RadioTyped /\ reached \in {"sent", "heard"}
      /\ tran.sbuf \in Frame /\ ~csma_timer /\ ~ack_timer /\ (tran.ack_needed <=> tran.sbuf \in NeedAck)
  BY <1>1, EventMeets DEF RInv, OnAir, Holding
<1>3. QueueSound' /\ OnlyRx(tranq')
  BY <1>1, <1>2, QueueLeft DEF OnlyRx
<1>4. CASE tran.ack_needed /\ WaitAck
  <2>1. /\ tran' = [tran EXCEPT !.ack_received = FALSE, !.ack_timeout_happened = FALSE]
        /\ ack_timer' = TRUE /\ phy' = "RX" /\ air' = NoFrame /\ csma_timer' = csma_timer /\ result' = result
    BY <1>4 DEF WaitAck, SetPhy
  <2>2. /\ tran' \in TranState /\ tran'.sbuf = tran.sbuf /\ (tran'.ack_needed <=> tran.ack_needed)
        /\ (tran'.can_send <=> tran.can_send) /\ ~tran'.ack_received /\ ~tran'.ack_timeout_happened
    BY <1>2, <2>1 DEF TranState
  <2>3. RadioTyped'
    BY <1>2, <2>1 DEF RadioTyped
  <2>4. AwaitingAck'
    BY <1>2, <1>3, <1>4, <2>1, <2>2 DEF AwaitingAck, Holding, OnAir
  <2>5. Acknowledged'
    BY <1>1, <2>2 DEF RInv, Acknowledged
  <2> QED BY <1>1, <1>3, <2>1, <2>2, <2>3, <2>4, <2>5 DEF Good, RInv, Phase, HandedOver!hvars
<1>5. CASE ~tran.ack_needed
  <2>1. /\ tran' = [tran EXCEPT !.sbuf = NoFrame, !.can_send = TRUE, !.ack_needed = FALSE]
        /\ result' = TRUE /\ phy' = "SLEEP" /\ air' = NoFrame /\ UNCHANGED <<csma_timer, ack_timer>>
    BY <1>5 DEF OnTxok, Freed, SetPhy, tranTimers
  <2>2. tran' \in TranState /\ tran'.sbuf = NoFrame /\ tran'.can_send /\ ~tran'.ack_needed
    BY <1>2, <2>1 DEF TranState
  <2>3. RadioTyped'
    BY <1>2, <2>1 DEF RadioTyped
  <2>4. Free'
    BY <1>2, <1>3, <2>1, <2>2 DEF Free, Silent
  <2>5. Acknowledged'
    BY <1>1, <2>2, FrameFacts DEF RInv, Acknowledged
  <2>6. HandedOver!GiveBack(TRUE)
    BY <1>1, <1>2, <1>5, <2>1, <2>2, FrameFacts DEF HandedOver!GiveBack
  <2> QED BY <1>3, <2>2, <2>3, <2>4, <2>5, <2>6 DEF Good, RInv, Phase, HandedOver!HNext, HandedOver!Finish
<1> QED BY <1>4, <1>5 DEF OnTxok

LEMMA OnAckTimeoutGood == ASSUME RInv, OnAckTimeout PROVE Good
<1>1. /\ tranq # <<>> /\ Head(tranq) = "ACK_TIMEOUT" /\ tranq' = Tail(tranq) /\ UNCHANGED peer
  BY DEF OnAckTimeout, Handle
<1>2. /\ (Free /\ tran.ack_received) \/ (AwaitingAck /\ ~ack_timer)
      /\ OnlyRx(tranq') /\ tran \in TranState /\ RadioTyped
  BY <1>1, EventMeets DEF RInv
<1>3. QueueSound'
  BY <1>1, QueueLeft DEF peer
<1>4. CASE Free /\ tran.ack_received
  <2>1. UNCHANGED <<tran, csma_timer, ack_timer, result, phy, air, rxfifo, reached, due>>
    BY <1>1, <1>4 DEF OnAckTimeout, Untouched, tranTimers, peer
  <2>2. Free' /\ RadioTyped'
    BY <1>2, <1>4, <2>1 DEF Free, Silent, RadioTyped
  <2> QED BY <1>3, <2>1, <2>2, Aside DEF Phase, RInv, Acknowledged
<1>5. CASE AwaitingAck /\ ~ack_timer
  <2> DEFINE t == [tran EXCEPT !.ack_timeout_happened = TRUE]
  <2>1. GiveUp(t) /\ Holding /\ ~csma_timer
    BY <1>5 DEF OnAckTimeout, AwaitingAck
  <2>2. t \in TranState
    BY <1>2 DEF TranState
  <2> HIDE DEF t
  <2> QED BY <1>1, <1>2, <1>3, <2>1, <2>2, GivesBack
<1> QED BY <1>2, <1>4, <1>5

\* A received frame that is none of the module's business.
LEMMA RxIgnored ==
    ASSUME RInv, tranq # <<>>, Head(tranq) = "RXOK", tranq' = Tail(tranq), rxfifo' = "bad",
           UNCHANGED <<due, tran, csma_timer, ack_timer, result, reached>>,
           UNCHANGED <<phy, air>> \/ (phy' = "RX" /\ air' = NoFrame)
    PROVE  Good
<1>1. tranq \in Seq(TranEvents) /\ RadioTyped /\ ((Free /\ OnlyRx(tranq)) \/ AwaitingAck)
  BY EventMeets DEF RInv, QueueSound
<1>2. air' = NoFrame /\ RadioTyped'
  BY <1>1 DEF Free, AwaitingAck, Silent, RadioTyped
<1>3. QueueSound'
  BY <1>1, Taken DEF QueueSound, Unread
<1>4. CASE Free /\ OnlyRx(tranq)
  <2>1. OnlyRx(tranq')
    BY <1>1, <1>4, OnlyRxTaken
  <2>2. Free'
    BY <1>2, <1>4, <2>1 DEF Free, Silent
  <2> QED BY <1>2, <1>3, <2>2, Aside DEF Phase, Noise, RInv, Acknowledged
<1>5. CASE AwaitingAck
  <2>1. (ack_timer /\ OnlyRx(tranq')) \/ (~ack_timer /\ \E k \in 1..Len(tranq') : AckAt(tranq', k))
    <3>1. CASE ack_timer /\ OnlyRx(tranq)
      BY <1>1, <3>1, OnlyRxTaken
    <3>2. CASE ~ack_timer
      <4>1. PICK k \in 1..Len(tranq) : AckAt(tranq, k)
        BY <1>5, <3>2 DEF AwaitingAck
      <4>2. k # 1 /\ AckAt(tranq', k - 1)
        BY <1>1, <4>1, AckTaken
      <4>3. k - 1 \in 1..Len(tranq')
        BY <4>2 DEF AckAt
      <4> QED BY <3>2, <4>2, <4>3
    <3> QED BY <1>5, <3>1, <3>2 DEF AwaitingAck
  <2>2. AwaitingAck'
    BY <1>2, <1>5, <2>1 DEF AwaitingAck, Holding
  <2> QED BY <1>2, <1>3, <2>2, Aside DEF Phase, Noise, RInv, Acknowledged
<1> QED BY <1>1, <1>4, <1>5

LEMMA OnRxokGood == ASSUME RInv, OnRxok PROVE Good
<1> DEFINE r == rxfifo
<1>1. /\ tranq # <<>> /\ Head(tranq) = "RXOK" /\ tranq' = Tail(tranq) /\ rxfifo' = "bad" /\ due' = due
  BY DEF OnRxok, Handle
<1>2. /\ tran \in TranState /\ RadioTyped /\ due \subseteq NeedAck /\ tranq \in Seq(TranEvents)
      /\ Unread(tranq, r)
  BY <1>1 DEF RInv, Acknowledged, QueueSound
<1>8. (Free /\ OnlyRx(tranq)) \/ AwaitingAck
  BY <1>1, EventMeets
<1>3. QueueSound'
  BY <1>1, <1>2, Taken DEF RInv, QueueSound, Unread
<1>4. CASE UNCHANGED <<tran, tranTimers, result, reached>> /\ (Untouched \/ SetPhy("RX"))
  BY <1>1, <1>4, RxIgnored DEF tranTimers, Untouched, SetPhy
<1>5. CASE r = "data_ack" /\ ~tran.ack_needed /\ tran.can_send /\ Start(AckFrame)
  <2>1. Free /\ OnlyRx(tranq)
    BY <1>8, <1>5 DEF AwaitingAck
  <2>2. tranq' = <<>>
    BY <1>1, <1>2, <1>5, <2>1, LoneTaken
  <2>3. AckFrame \notin due' \cup {rxfifo'} /\ rxfifo' \in Noise \cup NeedAck /\ Unread(tranq', rxfifo')
    BY <1>1, <1>2, FrameFacts DEF Noise, Unread
  <2> QED BY <1>1, <1>2, <1>5, <2>1, <2>2, <2>3, FrameFacts, Started DEF Good
<1>6. CASE r \in Frame /\ Untouched /\ UNCHANGED reached /\ tran.ack_needed /\ tran.sbuf = r /\ Acked(r)
  <2>1. AwaitingAck /\ r # "bad"
    BY <1>8, <1>6, FrameFacts DEF Free
  <2>2. /\ tran' = [[tran EXCEPT !.sbuf = NoFrame, !.can_send = TRUE, !.ack_needed = FALSE]
                      EXCEPT !.ack_received = TRUE]
        /\ ack_timer' = FALSE /\ result' = TRUE /\ csma_timer' = csma_timer
    BY <1>6, <2>1 DEF Acked, Freed, AwaitingAck
  <2>3. /\ tran' \in TranState /\ tran'.sbuf = NoFrame /\ tran'.can_send /\ ~tran'.ack_needed
        /\ tran'.ack_received
    <3> DEFINE u == [tran EXCEPT !.sbuf = NoFrame, !.can_send = TRUE, !.ack_needed = FALSE]
    <3>1. u \in TranState /\ u.sbuf = NoFrame /\ u.can_send /\ ~u.ack_needed
      BY <1>2 DEF TranState
    <3>2. tran' = [u EXCEPT !.ack_received = TRUE]
      BY <2>2
    <3> HIDE DEF u
    <3> QED BY <3>1, <3>2 DEF TranState
  <2>4. RadioTyped' /\ Silent'
    BY <1>2, <1>6, <2>1, <2>2 DEF RadioTyped, Untouched, Silent, AwaitingAck
  <2>5. OnlyRx(tranq') \/ AckAt(tranq', 1)
    <3>1. CASE OnlyRx(tranq)
      BY <1>1, <1>2, <3>1, OnlyRxTaken
    <3>2. CASE \E k \in 1..Len(tranq) : AckAt(tranq, k)
      BY <1>1, <1>2, <2>1, <3>2, LoneTaken
    <3> QED BY <2>1, <3>1, <3>2 DEF AwaitingAck
  <2>6. Free'
    BY <2>3, <2>4, <2>5 DEF Free
  <2>7. Acknowledged'
    BY <1>1, <1>2, <2>3, FrameFacts DEF Acknowledged, Noise
  <2>8. reached = "heard" /\ tran.sbuf # NoFrame
    BY <1>6, FrameFacts DEF RInv, Acknowledged
  <2>9. HandedOver!GiveBack(TRUE)
    BY <1>6, <2>2, <2>3, <2>8 DEF HandedOver!GiveBack
  <2> QED BY <1>3, <2>3, <2>4, <2>6, <2>7, <2>9 DEF Good, RInv, Phase, HandedOver!HNext, HandedOver!Finish
<1>7. CASE r \in Frame /\ Untouched /\ UNCHANGED reached /\ tran.ack_needed /\ tran.sbuf # r /\ Acked(r)
  BY <1>4, <1>7 DEF Acked
<1> QED BY <1>4, <1>5, <1>6, <1>7 DEF OnRxok

-----------------------------------------------------------------------------
LEMMA TranInitGood == TranInit => RInv /\ HandedOver!HInit
<1> SUFFICES ASSUME TranInit PROVE RInv /\ HandedOver!HInit
  OBVIOUS
<1>1. tran = [sbuf |-> NoFrame, can_send |-> TRUE, ack_needed |-> FALSE,
              ack_received |-> FALSE, ack_timeout_happened |-> FALSE, nb |-> 0]
  BY DEF TranInit
<1>2. /\ ~csma_timer /\ ~ack_timer /\ csma_timer \in BOOLEAN /\ ack_timer \in BOOLEAN
      /\ phy = "SLEEP" /\ tranq = <<>> /\ rxfifo = "bad"
      /\ air = NoFrame /\ reached = "nowhere" /\ result = FALSE /\ due = {}
  BY DEF TranInit
<1>3. tran \in TranState /\ tran.sbuf = NoFrame /\ tran.can_send /\ ~tran.ack_needed
  BY <1>1, FrameFacts DEF TranState
<1>4. RadioTyped /\ Silent
  BY <1>2 DEF RadioTyped, Silent
<1>5. QueueSound /\ OnlyRx(tranq)
  BY <1>2 DEF QueueSound, Unread, OnlyRx
<1>6. Acknowledged
  BY <1>2, <1>3, FrameFacts DEF Acknowledged, Noise
<1>7. Free
  BY <1>3, <1>4, <1>5 DEF Free
<1>8. HandedOver!HInit
  BY <1>2, <1>3 DEF HandedOver!HInit
<1> QED BY <1>3, <1>4, <1>5, <1>6, <1>7, <1>8 DEF RInv, Phase

LEMMA TranStep == ASSUME CallerWaits PROVE RInv /\ [TranNext]_tranVars => Good
<1> SUFFICES ASSUME RInv, [TranNext]_tranVars PROVE Good
  OBVIOUS
<1>1. CASE UNCHANGED tranVars
  <2>1. UNCHANGED <<tran, csma_timer, ack_timer, phy, tranq, rxfifo, air, reached, result, due>>
    BY <1>1 DEF tranVars
  <2>2. RadioTyped' /\ QueueSound' /\ due' \subseteq NeedAck /\ rxfifo' \in Noise \cup NeedAck
    BY <2>1 DEF RInv, RadioTyped, QueueSound, Acknowledged
  <2>3. Phase'
    BY <2>1 DEF RInv, Phase, Free, BackingOff, OnAir, AwaitingAck, Silent, Holding
  <2> QED BY <2>1, <2>2, <2>3, Aside
<1>2. CASE TranNext
  BY <1>2, OnCsmaTimeoutGood, OnTxokGood, OnAckTimeoutGood, OnRxokGood, CsmaExpiresGood, AckExpiresGood,
     TxDoneGood, RxDoneGood, AckLostGood, SendGood, TurnGood DEF TranNext, OnEvent, TranExpires
<1> QED BY <1>1, <1>2

LEMMA TranInvariant == ASSUME CallerWaits PROVE TranSpec => []RInv
<1>1. RInv /\ [TranNext]_tranVars => RInv'
  BY TranStep DEF Good
<1> QED BY <1>1, TranInitGood, PTL DEF TranSpec

\* A frame that m_tran_send has accepted has something under way that will give it
\* back: the antenna, a timer, or an event its handler is waiting for (m_tran.c).
THEOREM FrameUnderway == ASSUME CallerWaits PROVE TranSpec => []Underway
<1>1. RInv => Underway
  <2> SUFFICES ASSUME RInv PROVE Underway
    OBVIOUS
  <2>1. DOMAIN tranq = 1..Len(tranq)
    BY DEF RInv, QueueSound
  <2>2. CASE Free
    BY <2>2 DEF Free, Underway
  <2>3. CASE BackingOff
    <3>1. csma_timer \/ "CSMA_TIMEOUT" \in ToSet(tranq)
      <4>1. csma_timer \/ (1 \in 1..Len(tranq) /\ tranq[1] = "CSMA_TIMEOUT")
        BY <2>3 DEF BackingOff
      <4> QED BY <2>1, <4>1 DEF ToSet
    <3> QED BY <3>1 DEF Underway
  <2>4. CASE OnAir
    <3>1. air # NoFrame \/ "TXOK" \in ToSet(tranq)
      <4>1. air # NoFrame \/ (1 \in 1..Len(tranq) /\ tranq[1] = "TXOK")
        BY <2>4, FrameFacts DEF OnAir, Holding
      <4> QED BY <2>1, <4>1 DEF ToSet
    <3> QED BY <3>1 DEF Underway
  <2>5. CASE AwaitingAck
    <3>1. ack_timer \/ "ACK_TIMEOUT" \in ToSet(tranq)
      BY <2>1, <2>5 DEF AwaitingAck, AckAt, ToSet
    <3> QED BY <2>5, <3>1 DEF Underway, AwaitingAck
  <2> QED BY <2>2, <2>3, <2>4, <2>5 DEF RInv, Phase
<1> QED BY <1>1, TranInvariant, PTL

\* No event of an earlier frame meets a later one, and the assertions of the
\* handlers hold (m_tran.c).
THEOREM HandlersAreReady == ASSUME CallerWaits PROVE TranSpec => []HandlersReady
<1>1. RInv => HandlersReady
  <2> SUFFICES ASSUME RInv, tranq # <<>> PROVE HandlersReady
    BY DEF HandlersReady
  <2>1. Head(tranq) \in TranEvents
    BY Taken DEF RInv, QueueSound
  <2>2. CASE Head(tranq) = "CSMA_TIMEOUT"
    <3>1. tran.sbuf # NoFrame
      BY <2>2, EventMeets, FrameFacts DEF BackingOff, Holding
    <3> QED BY <2>2, <3>1 DEF HandlersReady
  <2>3. CASE Head(tranq) = "TXOK"
    <3>1. ~ack_timer /\ ~tran.can_send
      BY <2>3, EventMeets DEF OnAir, Holding
    <3> QED BY <2>3, <3>1 DEF HandlersReady
  <2>4. CASE Head(tranq) = "ACK_TIMEOUT"
    <3>1. tran.ack_received \/ tran.sbuf # NoFrame
      BY <2>4, EventMeets, FrameFacts DEF AwaitingAck, Holding
    <3> QED BY <2>4, <3>1 DEF HandlersReady
  <2>5. CASE Head(tranq) = "RXOK"
    <3>1. tran.ack_needed => tran.sbuf # NoFrame
      BY <2>5, EventMeets, FrameFacts DEF AwaitingAck, Free, Holding
    <3> QED BY <2>5, <3>1 DEF HandlersReady
  <2> QED BY <2>1, <2>2, <2>3, <2>4, <2>5 DEF TranEvents
<1> QED BY <1>1, TranInvariant, PTL

\* Every frame is given back at most once, and with success only if it has left the
\* antenna and, if it asks for an acknowledgement, was received: the safety part of
\* what the transport module promises the MAC layer (m_tran.c).
THEOREM TransmitHandsOver == ASSUME CallerWaits PROVE TranSpec => HandedOver!HSafety
<1>1. RInv /\ [TranNext]_tranVars => RInv' /\ [HandedOver!HNext]_(HandedOver!hvars)
  BY TranStep DEF Good
<1> QED BY <1>1, TranInitGood, PTL DEF TranSpec, HandedOver!HSafety
===============================================================================
