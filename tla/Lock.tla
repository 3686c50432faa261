--------------------------------- MODULE Lock ---------------------------------
(***************************************************************************)
(* The motor lock (elec_lock.c, USE_EXTERN_LOCK) and who drives it: the     *)
(* application task, which handles the RFID tag and the events of the two   *)
(* timers, the bluetooth task, which preempts it anywhere, and the          *)
(* interrupt of the lever that asks for the lock to be closed.              *)
(*                                                                         *)
(* elec_lock_open runs in a critical section; elec_lock_close,              *)
(* elec_lock_init and the handler of FROZEN do not, so lock_pc says how far *)
(* the application task has got in them.  The application's queue has room: *)
(* what a full one does is the subject of Outbox.                           *)
(***************************************************************************)
EXTENDS Integers, Sequences, SequencesExt

CONSTANT MaxLockEvents      \* bound on the events queued when a tag or an order comes
ASSUME LockAssumption == MaxLockEvents \in Nat

VARIABLES
    motor,          \* the two control lines: "off", "open" or "close"
    State,          \* elec_lock_State
    updata,         \* elec_lock_State_updata: an opening is to be reported
    int_en,         \* the lever's interrupt is enabled
    frozen_timer, lock_timer,     \* whether they are armed
    lockq,          \* of the application's queue, the two timers' and the tag's events
    lock_pc,        \* what the application task does next
    ordering        \* the bluetooth task has opened and not yet set updata

lockVars == <<motor, State, updata, int_en, frozen_timer, lock_timer, lockq, lock_pc, ordering>>
lockIO   == <<motor, int_en>>
lockMem  == <<State, updata>>
lockTime == <<frozen_timer, lock_timer, lockq>>

LockInit ==
    /\ motor = "off" /\ State = "Close" /\ updata = FALSE /\ int_en = FALSE
    /\ frozen_timer = FALSE /\ lock_timer = FALSE /\ lockq = <<>>
    /\ lock_pc = "idle" /\ ordering = FALSE

-----------------------------------------------------------------------------
(* The application task; the bluetooth task, of higher priority, has to     *)
(* have finished.                                                           *)

AppAt(here, next) == ~ordering /\ lock_pc = here /\ lock_pc' = next /\ UNCHANGED ordering
TakeLockEvent(e)  == lockq # <<>> /\ Head(lockq) = e /\ lockq' = Tail(lockq)

OpenLock ==
    /\ motor' = "open" /\ State' = "Open" /\ frozen_timer' = TRUE
    /\ UNCHANGED <<updata, int_en, lock_timer, lockq>>

\* box_nfc_int_handle, operation 1; if_get_password is not read in this build.
NfcOpen ==
    \/ /\ AppAt("idle", "nfc_open") /\ TakeLockEvent("NFC") /\ State # "Open"
       /\ UNCHANGED <<lockIO, lockMem, frozen_timer, lock_timer>>
    \/ AppAt("nfc_open", "idle") /\ OpenLock

\* operation 3, the box is given up: elec_lock_init
NfcGiveUp ==
    \/ /\ AppAt("idle", "init_int") /\ TakeLockEvent("NFC") /\ motor' = "off"
       /\ UNCHANGED <<int_en, lockMem, frozen_timer, lock_timer>>
    \/ AppAt("init_int", "init_state") /\ int_en' = FALSE /\ UNCHANGED <<motor, lockMem, lockTime>>
    \/ AppAt("init_state", "init_updata") /\ State' = "Close" /\ UNCHANGED <<updata, lockIO, lockTime>>
    \/ AppAt("init_updata", "idle") /\ updata' = FALSE /\ UNCHANGED <<State, lockIO, lockTime>>

\* an operation that leaves the lock alone, or an order to open an open lock
NfcOther ==
    /\ AppAt("idle", "idle") /\ TakeLockEvent("NFC")
    /\ UNCHANGED <<lockIO, lockMem, frozen_timer, lock_timer>>

\* EXTERN_LOCK_LOCK_EVENT: elec_lock_close
CloseReverse ==
    /\ AppAt("idle", "close_state") /\ TakeLockEvent("LOCK") /\ motor' = "close"
    /\ UNCHANGED <<int_en, lockMem, frozen_timer, lock_timer>>
CloseState ==
    /\ AppAt("close_state", "close_int") /\ State' = "Close"
    /\ UNCHANGED <<updata, lockIO, lockTime>>
CloseInt ==
    /\ AppAt("close_int", "close_arm") /\ int_en' = FALSE
    /\ UNCHANGED <<motor, lockMem, lockTime>>
\* Faulty: a frozen delay is started only when the lock opens.
CloseArmless ==
    /\ AppAt("close_arm", "idle")
    /\ UNCHANGED <<lockIO, lockMem, lockTime>>

CloseArm ==
    /\ AppAt("close_arm", "idle") /\ frozen_timer' = TRUE
    /\ UNCHANGED <<lockIO, lockMem, lock_timer, lockq>>
LockHandle == CloseReverse \/ CloseState \/ CloseInt \/ CloseArm

\* EXTERN_LOCK_FROZEN_EVENT: the lines are let go, an opening is reported, and
\* the lever is heard while the lock is open.
FrozenFloat ==
    /\ AppAt("idle", "frozen_send") /\ TakeLockEvent("FROZEN") /\ motor' = "off"
    /\ UNCHANGED <<int_en, lockMem, frozen_timer, lock_timer>>
FrozenSend ==
    /\ AppAt("frozen_send", "frozen_int") /\ updata' = FALSE
    /\ UNCHANGED <<State, lockIO, lockTime>>
FrozenInt ==
    /\ AppAt("frozen_int", "idle") /\ int_en' = (State = "Open")
    /\ UNCHANGED <<motor, lockMem, lockTime>>
FrozenHandle == FrozenFloat \/ FrozenSend \/ FrozenInt

-----------------------------------------------------------------------------
(* The bluetooth task and the interrupts.                                   *)

\* An order of the phone; one that finds the lock open is dropped.
BluOpen ==
    /\ ~ordering /\ State # "Open" /\ Len(lockq) < MaxLockEvents /\ OpenLock
    /\ ordering' = TRUE /\ UNCHANGED lock_pc
BluUpdata ==
    /\ ordering /\ updata' = TRUE /\ ordering' = FALSE
    /\ UNCHANGED <<State, lock_pc, lockIO, lockTime>>

\* Faulty: a bounce leaves the interrupt disabled.
LeverInterruptDeaf ==
    /\ int_en /\ int_en' = FALSE
    /\ (lock_timer' = TRUE \/ UNCHANGED lock_timer)
    /\ UNCHANGED <<motor, lockMem, frozen_timer, lockq, lock_pc, ordering>>

\* port3_int_handle: the lever is held, or has only bounced.
LeverInterrupt ==
    /\ int_en
    /\ \/ int_en' = FALSE /\ lock_timer' = TRUE
       \/ int_en' = TRUE /\ UNCHANGED lock_timer
    /\ UNCHANGED <<motor, lockMem, frozen_timer, lockq, lock_pc, ordering>>

FrozenExpires ==
    /\ frozen_timer /\ frozen_timer' = FALSE /\ lockq' = Append(lockq, "FROZEN")
    /\ UNCHANGED <<lockIO, lockMem, lock_timer, lock_pc, ordering>>
\* Faulty: both timers post the same event.
LockExpiresFrozen ==
    /\ lock_timer /\ lock_timer' = FALSE /\ lockq' = Append(lockq, "FROZEN")
    /\ UNCHANGED <<lockIO, lockMem, frozen_timer, lock_pc, ordering>>

LockExpires ==
    /\ lock_timer /\ lock_timer' = FALSE /\ lockq' = Append(lockq, "LOCK")
    /\ UNCHANGED <<lockIO, lockMem, frozen_timer, lock_pc, ordering>>

NfcExpires ==
    /\ Len(lockq) < MaxLockEvents /\ lockq' = Append(lockq, "NFC")
    /\ UNCHANGED <<lockIO, lockMem, frozen_timer, lock_timer, lock_pc, ordering>>

LockTask  == NfcOpen \/ NfcGiveUp \/ NfcOther \/ LockHandle \/ FrozenHandle
LockNext  == \/ LockTask \/ BluOpen \/ BluUpdata
             \/ LeverInterrupt \/ NfcExpires \/ FrozenExpires \/ LockExpires

LockFair  == /\ WF_lockVars(LockTask) /\ WF_lockVars(BluUpdata)
             /\ WF_lockVars(FrozenExpires) /\ WF_lockVars(LockExpires)
LockSpec  == LockInit /\ [][LockNext]_lockVars /\ LockFair

-----------------------------------------------------------------------------
LockTypeOK ==
    /\ motor \in {"off", "open", "close"} /\ State \in {"Open", "Close"}
    /\ updata \in BOOLEAN /\ int_en \in BOOLEAN /\ ordering \in BOOLEAN
    /\ frozen_timer \in BOOLEAN /\ lock_timer \in BOOLEAN
    /\ lockq \in Seq({"FROZEN", "LOCK", "NFC"})
    /\ lock_pc \in {"idle", "nfc_open", "init_int", "init_state", "init_updata",
                    "close_state", "close_int", "close_arm", "frozen_send", "frozen_int"}

FrozenPending == frozen_timer \/ "FROZEN" \in ToSet(lockq)
LockPending   == lock_timer \/ "LOCK" \in ToSet(lockq)

\* A lock that counts as open can be closed with the lever: the lever is heard,
\* or has been, or an event that will enable it is on its way.
StaysClosable ==
    State = "Open" => \/ int_en \/ FrozenPending \/ LockPending
                      \/ lock_pc \in {"frozen_send", "frozen_int", "close_state", "init_state"}

\* The motor's lines are let go again and again, whatever the phone, the tag and
\* the lever do: no order leaves the motor driven.
MotorRests == []<>(motor = "off")

\* Once the lever has been felt the lock closes.
PressCloses == LockPending ~> State = "Close"
===============================================================================
