------------------------------- MODULE Parts_proofs -----------------------------
(***************************************************************************)
(* Three devices of the box, each worked by the application and by timers   *)
(* whose events meet it half way. A lock that counts as open can always be  *)
(* closed with its lever and its motor is never driven without a delay that *)
(* lets it go; a GPS receiver that is supplied is watched and one that is   *)
(* wanted comes back; a tag reader that is on will be stopped.              *)
(*                                                                         *)
(* At the end, what holds of each of the six components of MCParts holds of *)
(* them together.                                                           *)
(***************************************************************************)
EXTENDS MCParts, Radio_proofs, Pthread_proofs

Events == {"FROZEN", "LOCK", "NFC"}

\* The closing order disables the lever after it has stored Close: an opening
\* that comes in between has its own frozen delay, which enables the lever again.
ReopenedWhileClosing == lock_pc = "close_int" /\ State = "Open" => FrozenPending

\* A motor that is driven, in either direction, has a frozen delay or its event
\* under way, or the closing that drives it has still to start one.
MotorWatched == motor # "off" => FrozenPending \/ lock_pc \in {"close_state", "close_int", "close_arm"}

LockInv == LockTypeOK /\ StaysClosable /\ ReopenedWhileClosing /\ MotorWatched

-----------------------------------------------------------------------------
\* An event taken from the queue leaves the others in it.
LEMMA Take ==
    ASSUME LockTypeOK, NEW e, TakeLockEvent(e), NEW x
    PROVE  /\ lockq' \in Seq(Events)
           /\ x \in ToSet(lockq) <=> x \in ToSet(lockq') \/ x = e
<1>1. lockq \in Seq(Events) /\ lockq # <<>> /\ lockq' = Tail(lockq) /\ Head(lockq) = e
  BY DEF LockTypeOK, TakeLockEvent, Events
<1> QED BY <1>1, InTail

LEMMA LockInvInit == LockInit => LockInv
<1> SUFFICES ASSUME LockInit PROVE LockInv
  OBVIOUS
<1>1. LockTypeOK
  <2>1. <<>> \in Seq({"FROZEN", "LOCK", "NFC"})
    OBVIOUS
  <2> QED BY <2>1 DEF LockInit, LockTypeOK
<1>2. StaysClosable /\ ReopenedWhileClosing /\ MotorWatched
  BY DEF LockInit, StaysClosable, ReopenedWhileClosing, MotorWatched
<1> QED BY <1>1, <1>2 DEF LockInv

-----------------------------------------------------------------------------
LEMMA LockTypeStep == LockTypeOK /\ [LockNext]_lockVars => LockTypeOK'
<1> SUFFICES ASSUME LockTypeOK, [LockNext]_lockVars PROVE LockTypeOK'
  OBVIOUS
<1> USE DEF lockIO, lockMem, lockTime, AppAt
<1>1. CASE NfcOpen
  <2>1. CASE AppAt("idle", "nfc_open") /\ TakeLockEvent("NFC") /\ State # "Open"
             /\ UNCHANGED <<lockIO, lockMem, frozen_timer, lock_timer>>
    BY <2>1, Take DEF LockTypeOK, Events
  <2>2. CASE AppAt("nfc_open", "idle") /\ OpenLock
    BY <2>2 DEF OpenLock, LockTypeOK
  <2> QED BY <1>1, <2>1, <2>2 DEF NfcOpen
<1>2. CASE NfcGiveUp
  <2>1. lockq' \in Seq(Events)
    BY <1>2, Take DEF NfcGiveUp, LockTypeOK, Events
  <2> QED BY <1>2, <2>1 DEF NfcGiveUp, LockTypeOK, Events
<1>3. CASE NfcOther
  BY <1>3, Take DEF NfcOther, LockTypeOK, Events
<1>4. CASE LockHandle
  <2>1. lockq' \in Seq(Events)
    BY <1>4, Take DEF LockHandle, CloseReverse, CloseState, CloseInt, CloseArm, LockTypeOK, Events
  <2> QED BY <1>4, <2>1 DEF LockHandle, CloseReverse, CloseState, CloseInt, CloseArm, LockTypeOK, Events
<1>5. CASE FrozenHandle
  <2>1. lockq' \in Seq(Events)
    BY <1>5, Take DEF FrozenHandle, FrozenFloat, FrozenSend, FrozenInt, LockTypeOK, Events
  <2> QED BY <1>5, <2>1 DEF FrozenHandle, FrozenFloat, FrozenSend, FrozenInt, LockTypeOK, Events
<1>6. CASE BluOpen \/ BluUpdata \/ LeverInterrupt
  BY <1>6 DEF BluOpen, OpenLock, BluUpdata, LeverInterrupt, LockTypeOK
<1>7. CASE NfcExpires \/ FrozenExpires \/ LockExpires
  <2>1. lockq' \in Seq({"FROZEN", "LOCK", "NFC"})
    BY <1>7 DEF NfcExpires, FrozenExpires, LockExpires, LockTypeOK
  <2> QED BY <1>7, <2>1 DEF NfcExpires, FrozenExpires, LockExpires, LockTypeOK
<1>8. CASE UNCHANGED lockVars
  BY <1>8 DEF lockVars, LockTypeOK
<1> QED BY <1>1, <1>2, <1>3, <1>4, <1>5, <1>6, <1>7, <1>8 DEF LockNext, LockTask

\* What a step may do to the queue and the timers: take an event, or leave both alone.
Handled(e) ==
    /\ TakeLockEvent(e) /\ lock_pc = "idle" /\ UNCHANGED <<frozen_timer, lock_timer>>
    /\ e = "FROZEN" => lock_pc' = "frozen_send"
    /\ e = "LOCK" => lock_pc' = "close_state"
Kept == lockq' = lockq /\ (frozen_timer => frozen_timer') /\ (lock_timer => lock_timer')

\* What is pending stays so until its event is taken.
LEMMA PendingStep ==
    ASSUME LockTypeOK, [LockNext]_lockVars
    PROVE  /\ FrozenPending => FrozenPending' \/ lock_pc' = "frozen_send"
           /\ LockPending   => LockPending'   \/ lock_pc' = "close_state"
           /\ lock_pc # "idle" /\ FrozenPending => FrozenPending'
<1> USE DEF lockIO, lockMem, lockTime, AppAt, FrozenPending, LockPending
<1>1. CASE \E e \in Events : Handled(e)
  <2>1. PICK e \in Events : Handled(e)
    BY <1>1
  <2>2. "FROZEN" \in ToSet(lockq) => "FROZEN" \in ToSet(lockq') \/ e = "FROZEN"
    BY <2>1, Take DEF Handled
  <2>3. "LOCK" \in ToSet(lockq) => "LOCK" \in ToSet(lockq') \/ e = "LOCK"
    BY <2>1, Take DEF Handled
  <2> QED BY <2>1, <2>2, <2>3 DEF Handled
<1>2. CASE Kept
  BY <1>2 DEF Kept
<1>3. CASE NfcExpires \/ FrozenExpires \/ LockExpires
  <2>1. lockq \in Seq(Events)
    BY DEF LockTypeOK, Events
  <2>2. ASSUME NEW e \in Events, lockq' = Append(lockq, e), NEW x
        PROVE  x \in ToSet(lockq') <=> x \in ToSet(lockq) \/ x = e
    BY <2>1, <2>2, InAppend
  <2> QED BY <1>3, <2>2 DEF NfcExpires, FrozenExpires, LockExpires, Events
<1>4. ASSUME LockNext
      PROVE  (\E e \in Events : Handled(e)) \/ Kept \/ NfcExpires \/ FrozenExpires \/ LockExpires
  <2>1. CASE NfcOpen \/ NfcGiveUp \/ NfcOther
    BY <2>1 DEF Handled, Kept, NfcOpen, NfcGiveUp, NfcOther, OpenLock, Events
  <2>2. CASE LockHandle \/ FrozenHandle
    BY <2>2 DEF Handled, Kept, LockHandle, CloseReverse, CloseState, CloseInt, CloseArm,
                FrozenHandle, FrozenFloat, FrozenSend, FrozenInt, Events
  <2>3. CASE BluOpen \/ BluUpdata \/ LeverInterrupt
    BY <2>3 DEF Handled, Kept, BluOpen, OpenLock, BluUpdata, LeverInterrupt
  <2> QED BY <1>4, <2>1, <2>2, <2>3 DEF LockNext, LockTask
<1>5. CASE UNCHANGED lockVars
  BY <1>5, <1>2 DEF Handled, Kept, lockVars
<1> QED BY <1>1, <1>2, <1>3, <1>4, <1>5

LEMMA LockInvStep == LockInv /\ [LockNext]_lockVars => LockInv'
<1> SUFFICES ASSUME LockInv, [LockNext]_lockVars PROVE LockInv'
  OBVIOUS
<1> USE DEF lockIO, lockMem, lockTime, AppAt
<1>t. LockTypeOK /\ LockTypeOK'
  BY LockTypeStep DEF LockInv
<1>p. /\ FrozenPending => FrozenPending' \/ lock_pc' = "frozen_send"
      /\ LockPending => LockPending' \/ lock_pc' = "close_state"
      /\ lock_pc # "idle" /\ FrozenPending => FrozenPending'
  BY <1>t, PendingStep
<1>o. frozen_timer' => FrozenPending'
  BY DEF FrozenPending
<1>l. lock_timer' => LockPending'
  BY DEF LockPending
<1>a. StaysClosable /\ ReopenedWhileClosing /\ MotorWatched
  BY DEF LockInv
<1> SUFFICES StaysClosable' /\ ReopenedWhileClosing' /\ MotorWatched'
  BY <1>t DEF LockInv
<1>1. CASE NfcOpen
  BY <1>1, <1>a, <1>p, <1>o DEF NfcOpen, OpenLock, StaysClosable, ReopenedWhileClosing, MotorWatched
<1>2. CASE NfcGiveUp
  BY <1>2, <1>a, <1>p DEF NfcGiveUp, StaysClosable, ReopenedWhileClosing, MotorWatched
<1>3. CASE NfcOther
  BY <1>3, <1>a, <1>p DEF NfcOther, StaysClosable, ReopenedWhileClosing, MotorWatched
<1>4. CASE LockHandle
  BY <1>4, <1>a, <1>p, <1>o
     DEF LockHandle, CloseReverse, CloseState, CloseInt, CloseArm, StaysClosable, ReopenedWhileClosing, MotorWatched
<1>5. CASE FrozenHandle
  BY <1>5, <1>a, <1>p, <1>t
     DEF FrozenHandle, FrozenFloat, FrozenSend, FrozenInt, StaysClosable, ReopenedWhileClosing, MotorWatched, LockTypeOK
<1>6. CASE BluOpen
  BY <1>6, <1>o DEF BluOpen, OpenLock, StaysClosable, ReopenedWhileClosing, MotorWatched
<1>7. CASE BluUpdata
  BY <1>7, <1>a, <1>p DEF BluUpdata, StaysClosable, ReopenedWhileClosing, MotorWatched
<1>8. CASE LeverInterrupt
  BY <1>8, <1>a, <1>p, <1>l DEF LeverInterrupt, StaysClosable, ReopenedWhileClosing, MotorWatched
<1>9. CASE NfcExpires \/ FrozenExpires \/ LockExpires
  BY <1>9, <1>a, <1>p DEF NfcExpires, FrozenExpires, LockExpires, StaysClosable, ReopenedWhileClosing, MotorWatched
<1>10. CASE UNCHANGED lockVars
  BY <1>10, <1>a, <1>p DEF lockVars, StaysClosable, ReopenedWhileClosing, MotorWatched
<1> QED
  BY <1>1, <1>2, <1>3, <1>4, <1>5, <1>6, <1>7, <1>8, <1>9, <1>10 DEF LockNext, LockTask

\* A lock that counts as open can be closed with the lever, in whatever order the
\* application, the phone, the tag, the lever and the timers act.
THEOREM LockStaysClosable == LockSpec => []StaysClosable
<1>1. LockInv => StaysClosable
  BY DEF LockInv
<1> QED BY <1>1, LockInvInit, LockInvStep, PTL DEF LockSpec

\* The motor is never left driven: whoever drives it, a delay that lets go of the
\* lines is running, has run out or is about to be started by the same call.
THEOREM MotorIsWatched == LockSpec => []MotorWatched
<1>1. LockInv => MotorWatched
  BY DEF LockInv
<1> QED BY <1>1, LockInvInit, LockInvStep, PTL DEF LockSpec

-----------------------------------------------------------------------------
(* The GPS receiver.                                                        *)

GpsEvents == {"OPEN", "WAIT", "PROTECT", "UART"}
Timers    == {"OPEN", "WAIT", "PROTECT"}
Closing   == {"power_off", "mute", "disarm_open", "disarm_wait", "disarm_protect"}
OnlyUart  == \A i \in 1..Len(gpsq) : gpsq[i] = "UART"

\* An opening finds no timer of an earlier opening or restart: the GPS task,
\* which goes before it, cannot arm one while the receiver counts as closed.
Opening == gps_pc \in {"power_on", "arm"} => gps_status = "OPEN" /\ armed = {} /\ OnlyUart
\* A closing has stored CLOSE first, so that no handler undoes what it does.
Closes  == gps_pc \in Closing => gps_status = "CLOSE"
Disarms ==
    /\ gps_pc \in {"disarm_wait", "disarm_protect"} => ~Coming("OPEN")
    /\ gps_pc = "disarm_protect" => ~Coming("WAIT")
\* A closed receiver has no timer armed, and while gps_restore still records a
\* restart that the closing cut off, no event of a timer is on its way.
ClosedRests == gps_status = "CLOSE" /\ gps_pc \notin Closing => armed = {} /\ (gps_restore => OnlyUart)

GInv == GpsTypeOK /\ Opening /\ Closes /\ Disarms /\ ClosedRests /\ PoweredIsWatched

LEMMA Queued ==
    ASSUME NEW q \in Seq(GpsEvents)
    PROVE  /\ \A x : x \in ToSet(q) <=> \E i \in 1..Len(q) : q[i] = x
           /\ (\A i \in 1..Len(q) : q[i] = "UART") <=> ToSet(q) \subseteq {"UART"}
<1>1. DOMAIN q = 1..Len(q)
  OBVIOUS
<1> QED BY <1>1 DEF ToSet

\* What is on its way, now and after a step.
LEMMA OnTheWay ==
    ASSUME GpsTypeOK
    PROVE  /\ \A t : Coming(t) <=> t \in armed \/ t \in ToSet(gpsq)
           /\ OnlyUart <=> ToSet(gpsq) \subseteq {"UART"}
           /\ gpsq = <<>> => ToSet(gpsq) = {}
  BY Queued, EmptySet DEF GpsTypeOK, GpsEvents, Coming, OnlyUart

LEMMA OnTheWayNext ==
    ASSUME GpsTypeOK'
    PROVE  /\ \A t : Coming(t)' <=> t \in armed' \/ t \in ToSet(gpsq')
           /\ OnlyUart' <=> ToSet(gpsq') \subseteq {"UART"}
  BY Queued DEF GpsTypeOK, GpsEvents, Coming, OnlyUart

LEMMA GpsTaken ==
    ASSUME GpsTypeOK, NEW e, GpsTake(e)
    PROVE  gpsq' \in Seq(GpsEvents) /\ ToSet(gpsq) = ToSet(gpsq') \cup {e} /\ gps_pc' = gps_pc
<1>1. gpsq \in Seq(GpsEvents) /\ gpsq # <<>> /\ gpsq' = Tail(gpsq) /\ Head(gpsq) = e /\ gps_pc' = gps_pc
  BY DEF GpsTypeOK, GpsTake, GpsEvents
<1> QED BY <1>1, TailSet

LEMMA GpsAppended ==
    ASSUME GpsTypeOK, NEW e \in GpsEvents, gpsq' = Append(gpsq, e)
    PROVE  gpsq' \in Seq(GpsEvents) /\ ToSet(gpsq') = ToSet(gpsq) \cup {e}
<1>1. gpsq \in Seq(GpsEvents)
  BY DEF GpsTypeOK, GpsEvents
<1> QED BY <1>1, AppendSet

LEMMA GInvInit == GpsInit => GInv
<1> SUFFICES ASSUME GpsInit PROVE GInv
  OBVIOUS
<1>1. GpsTypeOK
  <2>1. <<>> \in Seq({"OPEN", "WAIT", "PROTECT", "UART"})
    OBVIOUS
  <2> QED BY <2>1 DEF GpsInit, GpsTypeOK
<1>2. OnlyUart
  BY <1>1, OnTheWay DEF GpsInit
<1> QED BY <1>1, <1>2 DEF GpsInit, GInv, Opening, Closes, Closing, Disarms, ClosedRests, PoweredIsWatched

LEMMA GpsTypeStep == GpsTypeOK /\ [GpsNext]_gpsVars => GpsTypeOK'
<1> SUFFICES ASSUME GpsTypeOK, [GpsNext]_gpsVars PROVE GpsTypeOK'
  OBVIOUS
<1> USE DEF gpsState, gpsIO
<1>1. CASE OnUart
  <2>1. gpsq' \in Seq(GpsEvents)
    BY <1>1, GpsTaken DEF OnUart
  <2> QED BY <1>1, <2>1 DEF OnUart, GpsTake, GpsTypeOK, GpsEvents
<1>2. CASE OnProtect
  <2>1. gpsq' \in Seq(GpsEvents)
    BY <1>2, GpsTaken DEF OnProtect
  <2> QED BY <1>2, <2>1 DEF OnProtect, GpsTake, GpsTypeOK, GpsEvents
<1>3. CASE OnWait
  <2>1. gpsq' \in Seq(GpsEvents)
    BY <1>3, GpsTaken DEF OnWait
  <2> QED BY <1>3, <2>1 DEF OnWait, GpsTake, GpsTypeOK, GpsEvents
<1>4. CASE OnOpen
  <2>1. gpsq' \in Seq(GpsEvents)
    BY <1>4, GpsTaken DEF OnOpen
  <2> QED BY <1>4, <2>1 DEF OnOpen, GpsTake, GpsTypeOK, GpsEvents, ShutOff, Configure
<1>5. CASE Command \/ KeepCommand
  BY <1>5 DEF Command, KeepCommand, GpsAt, GpsTypeOK
<1>6. CASE GpsOpen
  BY <1>6 DEF GpsOpen, GpsAt, GpsTypeOK
<1>7. CASE GpsClose
  BY <1>7 DEF GpsClose, GpsAt, GpsTypeOK
<1>8. CASE GpsExpires
  <2>1. PICK t \in armed : armed' = armed \ {t} /\ gpsq' = Append(gpsq, t)
    BY <1>8 DEF GpsExpires
  <2>2. gpsq' \in Seq(GpsEvents)
    BY <2>1, GpsAppended DEF GpsTypeOK, GpsEvents
  <2> QED BY <1>8, <2>1, <2>2 DEF GpsExpires, GpsTypeOK, GpsEvents
<1>9. CASE Sentence
  <2>1. gpsq' \in Seq(GpsEvents)
    BY <1>9, GpsAppended DEF Sentence, GpsEvents
  <2> QED BY <1>9, <2>1 DEF Sentence, GpsTypeOK, GpsEvents
<1>10. CASE UNCHANGED gpsVars
  BY <1>10 DEF gpsVars, GpsTypeOK
<1> QED BY <1>1, <1>2, <1>3, <1>4, <1>5, <1>6, <1>7, <1>8, <1>9, <1>10 DEF GpsNext, GpsTask, GpsCall

\* The GPS task takes an event between two steps of the application.
LEMMA TaskKeepsGInv == ASSUME GInv, GpsTypeOK', GpsTask PROVE GInv'
<1> DEFINE Q == ToSet(gpsq)
<1> USE DEF gpsState, gpsIO
<1>t. GpsTypeOK
  BY DEF GInv
<1>q. /\ \A t : Coming(t) <=> t \in armed \/ t \in Q
      /\ OnlyUart <=> Q \subseteq {"UART"}
  BY <1>t, OnTheWay
<1>r. /\ \A t : Coming(t)' <=> t \in armed' \/ t \in Q'
      /\ OnlyUart' <=> Q' \subseteq {"UART"}
  BY OnTheWayNext
<1>i. Opening /\ Closes /\ Disarms /\ ClosedRests /\ PoweredIsWatched
  BY DEF GInv
<1> HIDE DEF Q
<1> USE DEF Closing
<1>1. CASE OnUart
  <2>1. Q = Q' \cup {"UART"} /\ gps_pc' = gps_pc
    BY <1>1, <1>t, GpsTaken DEF OnUart, Q
  <2> QED BY <1>1, <1>i, <1>q, <1>r, <2>1 DEF OnUart, GInv, Opening, Closes, Disarms, ClosedRests, PoweredIsWatched
<1>2. CASE OnProtect
  <2>1. Q = Q' \cup {"PROTECT"} /\ gps_pc' = gps_pc
    BY <1>2, <1>t, GpsTaken DEF OnProtect, Q
  <2> QED BY <1>2, <1>i, <1>t, <1>q, <1>r, <2>1
          DEF OnProtect, GInv, GpsTypeOK, Opening, Closes, Disarms, ClosedRests, PoweredIsWatched
<1>3. CASE OnWait
  <2>1. Q = Q' \cup {"WAIT"} /\ gps_pc' = gps_pc
    BY <1>3, <1>t, GpsTaken DEF OnWait, Q
  <2> QED BY <1>3, <1>i, <1>t, <1>q, <1>r, <2>1
          DEF OnWait, GInv, GpsTypeOK, Opening, Closes, Disarms, ClosedRests, PoweredIsWatched
<1>4. CASE OnOpen
  <2>1. Q = Q' \cup {"OPEN"} /\ gps_pc' = gps_pc
    BY <1>4, <1>t, GpsTaken DEF OnOpen, Q
  <2> QED BY <1>4, <1>i, <1>t, <1>q, <1>r, <2>1
          DEF OnOpen, ShutOff, Configure, GInv, GpsTypeOK, Opening, Closes, Disarms, ClosedRests, PoweredIsWatched
<1> QED BY <1>1, <1>2, <1>3, <1>4 DEF GpsTask

\* The application goes on only when the GPS task has no event left.
LEMMA CallKeepsGInv == ASSUME GInv, GpsTypeOK', Command \/ GpsCall PROVE GInv'
<1> USE DEF gpsState, gpsIO
<1>t. GpsTypeOK
  BY DEF GInv
<1>1. gpsq = <<>> /\ gpsq' = <<>>
  BY DEF Command, GpsCall, KeepCommand, GpsOpen, GpsClose, GpsAt
<1>q. OnlyUart /\ \A t : Coming(t) <=> t \in armed
  BY <1>t, <1>1, OnTheWay
<1>e. ToSet(gpsq') = {}
  BY <1>1, EmptySet
<1>r. OnlyUart' /\ \A t : Coming(t)' <=> t \in armed'
  <2>1. /\ \A t : Coming(t)' <=> t \in armed' \/ t \in ToSet(gpsq')
        /\ OnlyUart' <=> ToSet(gpsq') \subseteq {"UART"}
    BY OnTheWayNext
  <2> QED BY <2>1, <1>e
<1>i. Opening /\ Closes /\ Disarms /\ ClosedRests /\ PoweredIsWatched
  BY DEF GInv
<1> USE DEF Closing, GpsAt
<1>2. CASE Command \/ KeepCommand
  BY <1>2, <1>i, <1>q, <1>r
     DEF Command, KeepCommand, GInv, Opening, Closes, Disarms, ClosedRests, PoweredIsWatched
<1>3. CASE GpsOpen
  BY <1>3, <1>i, <1>t, <1>q, <1>r
     DEF GpsOpen, GpsTypeOK, GInv, Opening, Closes, Disarms, ClosedRests, PoweredIsWatched
<1>4. CASE GpsClose
  BY <1>4, <1>i, <1>t, <1>q, <1>r
     DEF GpsClose, GpsTypeOK, GInv, Opening, Closes, Disarms, ClosedRests, PoweredIsWatched
<1> QED BY <1>2, <1>3, <1>4 DEF GpsCall

\* A timer's event, or a sentence, is queued.
LEMMA EventKeepsGInv == ASSUME GInv, GpsTypeOK', GpsExpires \/ Sentence PROVE GInv'
<1> DEFINE Q == ToSet(gpsq)
<1> USE DEF gpsState, gpsIO, Closing
<1>t. GpsTypeOK
  BY DEF GInv
<1>q. /\ \A t : Coming(t) <=> t \in armed \/ t \in Q
      /\ OnlyUart <=> Q \subseteq {"UART"}
  BY <1>t, OnTheWay
<1>r. /\ \A t : Coming(t)' <=> t \in armed' \/ t \in Q'
      /\ OnlyUart' <=> Q' \subseteq {"UART"}
  BY OnTheWayNext
<1>i. Opening /\ Closes /\ Disarms /\ ClosedRests /\ PoweredIsWatched
  BY DEF GInv
<1> HIDE DEF Q
<1>1. CASE GpsExpires
  <2>1. PICK t \in armed : armed' = armed \ {t} /\ gpsq' = Append(gpsq, t)
    BY <1>1 DEF GpsExpires
  <2>2. Q' = Q \cup {t}
    BY <1>t, <2>1, GpsAppended DEF Q, GpsTypeOK, GpsEvents
  <2> QED BY <1>1, <1>i, <1>t, <1>q, <1>r, <2>1, <2>2
          DEF GpsExpires, GpsTypeOK, GInv, Opening, Closes, Disarms, ClosedRests, PoweredIsWatched
<1>2. CASE Sentence
  <2>1. Q' = Q \cup {"UART"}
    BY <1>2, <1>t, GpsAppended DEF Q, Sentence, GpsEvents
  <2> QED BY <1>2, <1>i, <1>q, <1>r, <2>1
          DEF Sentence, GInv, Opening, Closes, Disarms, ClosedRests, PoweredIsWatched
<1> QED BY <1>1, <1>2

LEMMA GInvStep == GInv /\ [GpsNext]_gpsVars => GInv'
<1> SUFFICES ASSUME GInv, [GpsNext]_gpsVars PROVE GInv'
  OBVIOUS
<1>1. GpsTypeOK'
  BY GpsTypeStep DEF GInv
<1>2. CASE UNCHANGED gpsVars
  BY <1>1, <1>2 DEF gpsVars, GInv, Opening, Closes, Disarms, ClosedRests, PoweredIsWatched, Coming, OnlyUart
<1>3. CASE GpsNext
  BY <1>1, <1>3, TaskKeepsGInv, CallKeepsGInv, EventKeepsGInv DEF GpsNext
<1> QED BY <1>2, <1>3

\* A supplied receiver is watched and a closed one is not supplied, however many
\* sentences queue up before the GPS task, and wherever an opening or a closing
\* of the application is cut off by a restart.
THEOREM GpsStaysWatched == GpsSpec => []PoweredIsWatched
<1>1. GInv => PoweredIsWatched
  BY DEF GInv
<1> QED BY <1>1, GInvInit, GInvStep, PTL DEF GpsSpec

-----------------------------------------------------------------------------
(* An opened receiver comes back: it is heard and watched, or one timer of   *)
(* its opening or restart is under way, and never two.                       *)

AllUart(q)    == \A i \in 1..Len(q) : q[i] = "UART"
AloneIn(q, t) == \E i \in 1..Len(q) : q[i] = t /\ \A j \in 1..Len(q) : j # i => q[j] = "UART"

\* Of the three timers t alone is armed, or alone has an event in the queue.
Alone(t) == \/ armed = {t} /\ AllUart(gpsq)
            \/ armed = {} /\ AloneIn(gpsq, t)

Opened ==
    gps_status = "OPEN" =>
        \/ gps_pc \in {"power_on", "arm"} /\ (gps_pc = "arm" => power)
        \/ Alone("OPEN") /\ power
        \/ Alone("WAIT") /\ gps_restore /\ ~power
        \/ Alone("PROTECT") /\ power /\ uart /\ ~gps_restore

LEMMA AloneTail ==
    ASSUME NEW q \in Seq(GpsEvents), q # <<>>
    PROVE  /\ AllUart(q) => Head(q) = "UART" /\ AllUart(Tail(q))
           /\ \A t \in Timers : AloneIn(q, t) =>
                (Head(q) = t /\ AllUart(Tail(q))) \/ (Head(q) = "UART" /\ AloneIn(Tail(q), t))
<1>1. /\ Len(q) \in Nat \ {0} /\ Head(q) = q[1] /\ Len(Tail(q)) = Len(q) - 1
      /\ \A i \in 1..Len(q) - 1 : Tail(q)[i] = q[i + 1]
  OBVIOUS
<1>2. AllUart(q) => Head(q) = "UART" /\ AllUart(Tail(q))
  BY <1>1 DEF AllUart
<1>3. ASSUME NEW t \in Timers, AloneIn(q, t)
      PROVE  \/ Head(q) = t /\ AllUart(Tail(q))
             \/ Head(q) = "UART" /\ AloneIn(Tail(q), t)
  <2>1. PICK i \in 1..Len(q) : q[i] = t /\ \A j \in 1..Len(q) : j # i => q[j] = "UART"
    BY <1>3 DEF AloneIn
  <2>2. CASE i = 1
    BY <1>1, <2>1, <2>2 DEF AllUart
  <2>3. CASE i # 1
    <3>1. i - 1 \in 1..Len(Tail(q)) /\ Tail(q)[i - 1] = t
      BY <1>1, <2>1, <2>3
    <3>2. \A j \in 1..Len(Tail(q)) : j # i - 1 => Tail(q)[j] = "UART"
      BY <1>1, <2>1, <2>3
    <3> QED BY <1>1, <2>1, <2>3, <3>1, <3>2 DEF AloneIn
  <2> QED BY <2>2, <2>3
<1> QED BY <1>2, <1>3

LEMMA AloneAppend ==
    ASSUME NEW q \in Seq(GpsEvents), NEW e \in GpsEvents
    PROVE  /\ AllUart(q) => AloneIn(Append(q, e), e)
           /\ AllUart(q) => AllUart(Append(q, "UART"))
           /\ \A t \in Timers : AloneIn(q, t) => AloneIn(Append(q, "UART"), t)
<1>1. ASSUME NEW x \in GpsEvents
      PROVE  /\ Len(q) \in Nat /\ Len(Append(q, x)) = Len(q) + 1 /\ Append(q, x)[Len(q) + 1] = x
             /\ \A i \in 1..Len(q) : Append(q, x)[i] = q[i]
  OBVIOUS
<1>2. AllUart(q) => AloneIn(Append(q, e), e)
  BY <1>1 DEF AllUart, AloneIn
<1>3. AllUart(q) => AllUart(Append(q, "UART"))
  BY <1>1 DEF AllUart, GpsEvents
<1>4. \A t \in Timers : AloneIn(q, t) => AloneIn(Append(q, "UART"), t)
  BY <1>1 DEF AloneIn, GpsEvents
<1> QED BY <1>2, <1>3, <1>4

LEMMA OpenedTask == ASSUME GInv, GpsTypeOK', Opened, GpsTask PROVE Opened'
<1> USE DEF gpsState, gpsIO
<1>1. PICK e \in GpsEvents : GpsTake(e)
  BY DEF GpsTask, OnUart, OnProtect, OnWait, OnOpen, GpsEvents
<1>2. gpsq \in Seq(GpsEvents) /\ gpsq # <<>> /\ gpsq' = Tail(gpsq) /\ Head(gpsq) = e /\ gps_pc' = gps_pc
  BY <1>1 DEF GInv, GpsTypeOK, GpsTake, GpsEvents
<1>3. /\ AllUart(gpsq) => e = "UART" /\ AllUart(gpsq')
      /\ \A t \in Timers : AloneIn(gpsq, t) =>
            (e = t /\ AllUart(gpsq')) \/ (e = "UART" /\ AloneIn(gpsq', t))
  BY <1>2, AloneTail
<1>4. gps_pc \in {"power_on", "arm"} => AllUart(gpsq)
  BY DEF GInv, Opening, OnlyUart, AllUart
<1>t. gps_status \in {"OPEN", "CLOSE"} /\ gps_restore \in BOOLEAN /\ power \in BOOLEAN
  BY DEF GInv, GpsTypeOK
<1>5. CASE OnUart
  <2>1. e = "UART"
    BY <1>2, <1>5 DEF OnUart, GpsTake
  <2> QED BY <1>2, <1>3, <1>5, <2>1 DEF OnUart, Opened, Alone, Timers
<1>6. CASE OnProtect
  <2>1. e = "PROTECT"
    BY <1>2, <1>6 DEF OnProtect, GpsTake
  <2> QED BY <1>2, <1>3, <1>4, <1>t, <1>6, <2>1 DEF OnProtect, Opened, Alone, Timers
<1>7. CASE OnWait
  <2>1. e = "WAIT"
    BY <1>2, <1>7 DEF OnWait, GpsTake
  <2> QED BY <1>2, <1>3, <1>4, <1>t, <1>7, <2>1 DEF OnWait, Opened, Alone, Timers
<1>8. CASE OnOpen
  <2>1. e = "OPEN"
    BY <1>2, <1>8 DEF OnOpen, GpsTake
  <2> QED BY <1>2, <1>3, <1>4, <1>t, <1>8, <2>1 DEF OnOpen, ShutOff, Configure, Opened, Alone, Timers
<1> QED BY <1>5, <1>6, <1>7, <1>8 DEF GpsTask

LEMMA OpenedCall == ASSUME GInv, Opened, Command \/ GpsCall PROVE Opened'
<1> USE DEF gpsState, gpsIO, GpsAt
<1>1. gpsq = <<>> /\ gpsq' = <<>> /\ AllUart(<<>>) /\ \A t \in Timers : ~AloneIn(<<>>, t)
  BY DEF Command, GpsCall, KeepCommand, GpsOpen, GpsClose, AllUart, AloneIn
<1>2. /\ gps_pc \in {"power_on", "arm"} => armed = {}
      /\ gps_status = "CLOSE" /\ gps_pc \notin Closing => armed = {}
      /\ gps_pc \in Closing => gps_status = "CLOSE"
  BY DEF GInv, Opening, ClosedRests, Closes
<1>t. gps_status \in {"OPEN", "CLOSE"}
  BY DEF GInv, GpsTypeOK
<1>3. CASE Command \/ KeepCommand
  BY <1>1, <1>3 DEF Command, KeepCommand, Opened, Alone, Timers
<1>4. CASE GpsOpen
  BY <1>1, <1>2, <1>t, <1>4 DEF GpsOpen, Opened, Alone, Timers, Closing
<1>5. CASE GpsClose
  BY <1>1, <1>2, <1>t, <1>5 DEF GpsClose, Opened, Alone, Timers, Closing
<1> QED BY <1>3, <1>4, <1>5 DEF GpsCall

LEMMA OpenedEvent == ASSUME GInv, Opened, GpsExpires \/ Sentence PROVE Opened'
<1> USE DEF gpsState, gpsIO
<1>1. gpsq \in Seq(GpsEvents)
  BY DEF GInv, GpsTypeOK, GpsEvents
<1>2. CASE GpsExpires
  <2>1. PICK x \in armed : armed' = armed \ {x} /\ gpsq' = Append(gpsq, x)
    BY <1>2 DEF GpsExpires
  <2>2. x \in GpsEvents
    BY <2>1 DEF GInv, GpsTypeOK, GpsEvents
  <2>3. gps_pc \in {"power_on", "arm"} => armed = {}
    BY DEF GInv, Opening
  <2>4. AllUart(gpsq) => AloneIn(gpsq', x)
    BY <1>1, <2>1, <2>2, AloneAppend
  <2> QED BY <1>2, <2>1, <2>3, <2>4 DEF GpsExpires, Opened, Alone
<1>3. CASE Sentence
  <2>1. /\ AllUart(gpsq) => AllUart(gpsq')
        /\ \A t \in Timers : AloneIn(gpsq, t) => AloneIn(gpsq', t)
    BY <1>1, <1>3, AloneAppend DEF Sentence, GpsEvents
  <2> QED BY <1>3, <2>1 DEF Sentence, Opened, Alone, Timers
<1> QED BY <1>2, <1>3

LEMMA OpenedStep == GInv /\ Opened /\ [GpsNext]_gpsVars => Opened'
<1> SUFFICES ASSUME GInv, Opened, [GpsNext]_gpsVars PROVE Opened'
  OBVIOUS
<1>1. GpsTypeOK'
  BY GpsTypeStep DEF GInv
<1>2. CASE UNCHANGED gpsVars
  BY <1>2 DEF gpsVars, Opened, Alone
<1>3. CASE GpsNext
  BY <1>1, <1>3, OpenedTask, OpenedCall, OpenedEvent DEF GpsNext
<1> QED BY <1>2, <1>3

\* A receiver that counts as open has exactly one thing under way: the timer of
\* its opening, of its restart, or the one that watches it while it is heard. So
\* no restart is cut off and none is begun twice, however commands, restarts and
\* sentences interleave.
THEOREM OpenedComesBack == GpsSpec => []Opened
<1>1. GpsInit => Opened
  BY DEF GpsInit, Opened
<1> QED BY <1>1, GInvInit, GInvStep, OpenedStep, PTL DEF GpsSpec

-----------------------------------------------------------------------------
(* The tag reader.                                                          *)

ScanEvents == {"RX", "TAG"}

\* The last order has an end under way that answers it: the timer, its event, or
\* a handler that has taken one and not yet answered. And a reader that is on has
\* a timer or an event that turns it off.
OrderHasEnd == owed => tag_timer # "off" \/ "TAG" \in ToSet(scanq) \/ scan_pc # "idle"
ReaderStops == reading => tag_timer # "off" \/ "TAG" \in ToSet(scanq)

ScanInv == ScanTypeOK /\ OrderHasEnd /\ ReaderStops

LEMMA ScanInvInit == ScanInit => ScanInv
<1> SUFFICES ASSUME ScanInit PROVE ScanInv
  OBVIOUS
<1>1. <<>> \in Seq({"RX", "TAG"})
  OBVIOUS
<1> QED BY <1>1 DEF ScanInit, ScanInv, ScanTypeOK, OrderHasEnd, ReaderStops

LEMMA ScanInvStep == ScanInv /\ [ScanNext]_scanVars => ScanInv'
<1> SUFFICES ASSUME ScanInv, [ScanNext]_scanVars PROVE ScanInv'
  OBVIOUS
<1>q. scanq \in Seq(ScanEvents)
  BY DEF ScanInv, ScanTypeOK, ScanEvents
<1>a. ASSUME NEW e, ScanTake(e)
      PROVE  scanq' \in Seq(ScanEvents) /\ ToSet(scanq) = ToSet(scanq') \cup {e}
  BY <1>q, <1>a, TailSet DEF ScanTake
<1>b. ASSUME NEW e \in ScanEvents, scanq' = Append(scanq, e)
      PROVE  scanq' \in Seq(ScanEvents) /\ ToSet(scanq') = ToSet(scanq) \cup {e}
  BY <1>q, <1>b, AppendSet
<1> USE DEF ScanInv, ScanTypeOK, OrderHasEnd, ReaderStops, ScanEvents
<1>1. CASE ScanOrder
  BY <1>1 DEF ScanOrder
<1>2. CASE OnRx
  <2>1. scanq' \in Seq(ScanEvents) /\ ToSet(scanq) = ToSet(scanq') \cup {"RX"}
    BY <1>2, <1>a DEF OnRx
  <2> QED BY <1>2, <2>1 DEF OnRx
<1>3. CASE OnTag
  <2>1. CASE ScanTake("TAG") /\ reading' = FALSE /\ scan_pc' = "stop_again"
             /\ UNCHANGED <<rx_timer, tag_timer, owed>>
    <3>1. scanq' \in Seq(ScanEvents)
      BY <2>1, <1>a
    <3> QED BY <2>1, <3>1
  <2>2. CASE ScanAt("stop_again", "stop_poll") /\ reading' = FALSE
             /\ UNCHANGED <<rx_timer, tag_timer, owed>>
    BY <2>2 DEF ScanAt
  <2>3. CASE ScanAt("stop_poll", "answer") /\ rx_timer' = FALSE
             /\ UNCHANGED <<reading, tag_timer, owed>>
    BY <2>3 DEF ScanAt
  <2>4. CASE ScanAt("answer", "idle") /\ owed' = FALSE
             /\ UNCHANGED <<reading, rx_timer, tag_timer>>
    BY <2>4 DEF ScanAt
  <2> QED BY <1>3, <2>1, <2>2, <2>3, <2>4 DEF OnTag
<1>4. CASE RxExpires
  <2>1. scanq' \in Seq(ScanEvents) /\ ToSet(scanq') = ToSet(scanq) \cup {"RX"}
    BY <1>4, <1>b DEF RxExpires
  <2> QED BY <1>4, <2>1 DEF RxExpires
<1>5. CASE TagExpires
  <2>1. CASE tag_timer = "set" /\ tag_timer' = "due" /\ UNCHANGED scanq
    BY <1>5, <2>1 DEF TagExpires
  <2>2. CASE tag_timer = "due" /\ tag_timer' = "off" /\ scanq' = Append(scanq, "TAG")
    <3>1. scanq' \in Seq(ScanEvents) /\ ToSet(scanq') = ToSet(scanq) \cup {"TAG"}
      BY <2>2, <1>b
    <3> QED BY <1>5, <2>2, <3>1 DEF TagExpires
  <2> QED BY <1>5, <2>1, <2>2 DEF TagExpires
<1>6. CASE UNCHANGED scanVars
  BY <1>6 DEF scanVars
<1> QED BY <1>1, <1>2, <1>3, <1>4, <1>5, <1>6 DEF ScanNext, ScanTask

\* Whenever an order of the phone meets an earlier scan, between any two steps of
\* its end, the new order has an end of its own and the reader will be stopped.
THEOREM ScanHasEnd == ScanSpec => [](OrderHasEnd /\ ReaderStops)
<1>1. ScanInv => OrderHasEnd /\ ReaderStops
  BY DEF ScanInv
<1> QED BY <1>1, ScanInvInit, ScanInvStep, PTL DEF ScanSpec

-----------------------------------------------------------------------------
(* The parts together.                                                      *)

\* The components share no state: what is proved of one on its own holds in every
\* behaviour of the composition, its fairness included.
THEOREM PartsAreTheirOwn ==
    Spec => LockSpec /\ ScanSpec /\ PthreadSpec /\ TranSpec /\ JoinSpec /\ GpsSpec
<1>1. Init => LockInit /\ ScanInit /\ PthreadInit /\ TranInit /\ JoinInit /\ GpsInit
  BY DEF Init
<1>2. [Next]_vars => [LockNext]_lockVars
  BY DEF Next, vars, restLock, restScan, restPthread, restTran, restJoin, restGps
<1>3. [Next]_vars => [ScanNext]_scanVars
  BY DEF Next, vars, restLock, restScan, restPthread, restTran, restJoin, restGps
<1>4. [Next]_vars => [PthreadNext]_pthreadVars
  BY DEF Next, vars, restLock, restScan, restPthread, restTran, restJoin, restGps
<1>5. [Next]_vars => [TranNext]_tranVars
  BY DEF Next, vars, restLock, restScan, restPthread, restTran, restJoin, restGps
<1>6. [Next]_vars => [JoinNext]_joinVars
  BY DEF Next, vars, restLock, restScan, restPthread, restTran, restJoin, restGps
<1>7. [Next]_vars => [GpsNext]_gpsVars
  BY DEF Next, vars, restLock, restScan, restPthread, restTran, restJoin, restGps
<1> QED BY <1>1, <1>2, <1>3, <1>4, <1>5, <1>6, <1>7, PTL
        DEF Spec, LockSpec, ScanSpec, PthreadSpec, TranSpec, JoinSpec, GpsSpec

LEMMA TranTyped == ASSUME CallerWaits PROVE TranSpec => []TranTypeOK
<1>1. RInv => TranTypeOK
  BY FrameFacts DEF RInv, TranState, RadioTyped, QueueSound, Acknowledged, TranTypeOK, TranEvents
<1> QED BY <1>1, TranInvariant, PTL

\* The state of every component keeps its shape, for any numbers of threads, frames,
\* backoffs, join requests and queued events.
THEOREM PartsTyped == ASSUME CallerWaits PROVE Spec => []PartsTypeOK
<1>1. LockSpec => []LockTypeOK
  <2>1. LockInv => LockTypeOK
    BY DEF LockInv
  <2> QED BY <2>1, LockInvInit, LockInvStep, PTL DEF LockSpec
<1>2. ScanSpec => []ScanTypeOK
  <2>1. ScanInv => ScanTypeOK
    BY DEF ScanInv
  <2> QED BY <2>1, ScanInvInit, ScanInvStep, PTL DEF ScanSpec
<1>3. JoinSpec => []JoinTypeOK
  <2>1. JoinInv => JoinTypeOK
    BY DEF JoinInv
  <2> QED BY <2>1, JoinInvInit, JoinInvStep, PTL DEF JoinSpec
<1>4. GpsSpec => []GpsTypeOK
  <2>1. GInv => GpsTypeOK
    BY DEF GInv
  <2> QED BY <2>1, GInvInit, GInvStep, PTL DEF GpsSpec
<1>5. TranSpec => []TranTypeOK
  BY TranTyped
<1>6. LockTypeOK /\ ScanTypeOK /\ PthreadTypeOK /\ TranTypeOK /\ JoinTypeOK /\ GpsTypeOK => PartsTypeOK
  BY DEF PartsTypeOK
<1> QED BY <1>1, <1>2, <1>3, <1>4, <1>5, <1>6, PthreadTyped, PartsAreTheirOwn, PTL
===============================================================================
