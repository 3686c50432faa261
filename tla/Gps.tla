---------------------------------- MODULE Gps ----------------------------------
(***************************************************************************)
(* The GPS receiver (gps.c): the application task opens and closes it when  *)
(* the motion sensor asks, and the GPS task, of higher priority, configures *)
(* it, watches it, and restarts it when no sentence has come for a while.   *)
(* A command that finds a restart under way is kept for its end.            *)
(*                                                                         *)
(* gps_open and gps_close run with interrupts on, so gps_pc says how far    *)
(* the application task has got in them.                                    *)
(***************************************************************************)
EXTENDS Integers, Sequences

CONSTANT MaxGpsEvents       \* bound on the events queued when a sentence comes
ASSUME GpsAssumption == MaxGpsEvents \in Nat

VARIABLES
    gps_status, gps_restore, gps_delay_cmd,
    gps_data_cnt,   \* whether it is not 0
    power, uart,    \* the receiver is supplied; the serial line is heard
    armed,          \* of the timers, the armed ones
    gpsq,           \* events of the GPS task
    gps_pc          \* what the application task does next

gpsVars  == <<gps_status, gps_restore, gps_delay_cmd, gps_data_cnt, power, uart, armed, gpsq, gps_pc>>
gpsState == <<gps_status, gps_restore, gps_delay_cmd, gps_data_cnt>>
gpsIO    == <<power, uart, armed>>

GpsInit ==
    /\ gps_status = "CLOSE" /\ gps_restore = FALSE /\ gps_delay_cmd = "NULL" /\ gps_data_cnt = FALSE
    /\ power = FALSE /\ uart = FALSE /\ armed = {}
    /\ gpsq = <<>> /\ gps_pc = "idle"

-----------------------------------------------------------------------------
(* The GPS task.                                                            *)

GpsTake(e) == gpsq # <<>> /\ Head(gpsq) = e /\ gpsq' = Tail(gpsq) /\ UNCHANGED gps_pc

\* The body of gps_close_intra and the end of gps_close.
ShutOff   == power' = FALSE /\ uart' = FALSE /\ armed' = {}
Configure == uart' = TRUE /\ armed' = armed \cup {"PROTECT"} /\ UNCHANGED power

\* A sentence that gps_parse_rmc accepts, or another.
OnUart ==
    /\ GpsTake("UART") /\ gps_data_cnt' \in {gps_data_cnt, TRUE}
    /\ UNCHANGED <<gps_status, gps_restore, gps_delay_cmd, gpsIO>>

\* Faulty: the delay before the restart is armed first, and disarmed at once.
OnProtectShut ==
    /\ GpsTake("PROTECT") /\ UNCHANGED <<gps_status, gps_delay_cmd>> /\ gps_data_cnt' = FALSE
    /\ IF gps_status = "CLOSE" THEN UNCHANGED <<gps_restore, gpsIO>>
       ELSE IF gps_data_cnt
       THEN armed' = armed \cup {"PROTECT"} /\ UNCHANGED <<gps_restore, power, uart>>
       ELSE gps_restore' = TRUE /\ ShutOff

\* gps_protect_timer_handler
OnProtect ==
    /\ GpsTake("PROTECT") /\ UNCHANGED <<gps_status, gps_delay_cmd>> /\ gps_data_cnt' = FALSE
    /\ IF gps_status = "CLOSE" THEN UNCHANGED <<gps_restore, gpsIO>>
       ELSE IF gps_data_cnt
       THEN armed' = armed \cup {"PROTECT"} /\ UNCHANGED <<gps_restore, power, uart>>
       ELSE gps_restore' = TRUE /\ power' = FALSE /\ uart' = FALSE /\ armed' = {"WAIT"}

\* gps_wait_for_open_handler
OnWait ==
    /\ GpsTake("WAIT") /\ UNCHANGED <<gpsState, uart>>
    /\ IF gps_status = "OPEN" /\ gps_restore
       THEN power' = TRUE /\ armed' = armed \cup {"OPEN"}
       ELSE UNCHANGED <<power, armed>>

\* Faulty: after a restart the receiver is configured and no longer watched.
OnOpenUnwatched ==
    /\ GpsTake("OPEN") /\ UNCHANGED gps_data_cnt
    /\ gps_restore' = FALSE
    /\ gps_delay_cmd' = IF gps_restore THEN "NULL" ELSE gps_delay_cmd
    /\ IF gps_restore /\ gps_delay_cmd = "CLOSE" /\ gps_status = "OPEN"
       THEN gps_status' = "CLOSE" /\ ShutOff
       ELSE /\ UNCHANGED <<gps_status, power>> /\ uart' = TRUE
            /\ armed' = IF gps_restore THEN armed ELSE armed \cup {"PROTECT"}

\* gps_open_handler, which ends a restart with the command kept meanwhile
OnOpen ==
    /\ GpsTake("OPEN") /\ UNCHANGED gps_data_cnt
    /\ gps_restore' = FALSE
    /\ gps_delay_cmd' = IF gps_restore THEN "NULL" ELSE gps_delay_cmd
    /\ \/ /\ gps_restore /\ gps_delay_cmd = "CLOSE" /\ gps_status = "OPEN"
          /\ gps_status' = "CLOSE" /\ ShutOff
       \/ /\ IF gps_restore THEN gps_delay_cmd # "CLOSE" ELSE gps_status = "OPEN"
          /\ Configure /\ UNCHANGED gps_status
       \/ /\ gps_status = "CLOSE" /\ (gps_restore => gps_delay_cmd = "CLOSE")
          /\ UNCHANGED <<gps_status, gpsIO>>

GpsTask == OnUart \/ OnProtect \/ OnWait \/ OnOpen

-----------------------------------------------------------------------------
(* The application task, when the GPS task has nothing to do.               *)

GpsAt(here, next) == gpsq = <<>> /\ gps_pc = here /\ gps_pc' = next /\ UNCHANGED gpsq

\* A command looks at gps_restore first.
Command ==
    /\ \/ gps_restore  /\ (GpsAt("idle", "keep_open") \/ GpsAt("idle", "keep_close"))
       \/ ~gps_restore /\ (GpsAt("idle", "open") \/ GpsAt("idle", "close"))
    /\ UNCHANGED <<gpsState, gpsIO>>
KeepCommand ==
    /\ \/ GpsAt("keep_open", "idle")  /\ gps_delay_cmd' = "OPEN"
       \/ GpsAt("keep_close", "idle") /\ gps_delay_cmd' = "CLOSE"
    /\ UNCHANGED <<gps_status, gps_restore, gps_data_cnt, gpsIO>>

\* gps_open
GpsOpen ==
    \/ /\ GpsAt("open", "power_on") /\ gps_status = "CLOSE" /\ gps_status' = "OPEN"
       /\ UNCHANGED <<gps_restore, gps_delay_cmd, gps_data_cnt, gpsIO>>
    \/ /\ GpsAt("open", "idle") /\ gps_status = "OPEN" /\ UNCHANGED <<gpsState, gpsIO>>
    \/ /\ GpsAt("power_on", "arm") /\ power' = TRUE /\ UNCHANGED <<gpsState, uart, armed>>
    \/ /\ GpsAt("arm", "idle") /\ armed' = armed \cup {"OPEN"} /\ UNCHANGED <<gpsState, power, uart>>

\* gps_close
GpsClose ==
    \/ /\ GpsAt("close", "power_off") /\ gps_status = "OPEN" /\ gps_status' = "CLOSE"
       /\ UNCHANGED <<gps_restore, gps_delay_cmd, gps_data_cnt, gpsIO>>
    \/ /\ GpsAt("close", "idle") /\ gps_status = "CLOSE" /\ UNCHANGED <<gpsState, gpsIO>>
    \/ /\ GpsAt("power_off", "mute") /\ power' = FALSE /\ UNCHANGED <<gpsState, uart, armed>>
    \/ /\ GpsAt("mute", "disarm_open") /\ uart' = FALSE /\ UNCHANGED <<gpsState, power, armed>>
    \/ /\ UNCHANGED <<gpsState, power, uart>>
       /\ \/ GpsAt("disarm_open", "disarm_wait") /\ armed' = armed \ {"OPEN"}
          \/ GpsAt("disarm_wait", "disarm_protect") /\ armed' = armed \ {"WAIT"}
          \/ GpsAt("disarm_protect", "idle") /\ armed' = armed \ {"PROTECT"}

GpsCall == KeepCommand \/ GpsOpen \/ GpsClose

-----------------------------------------------------------------------------
GpsExpires ==
    /\ \E t \in armed : armed' = armed \ {t} /\ gpsq' = Append(gpsq, t)
    /\ UNCHANGED <<gpsState, power, uart, gps_pc>>
Sentence ==
    /\ power /\ uart /\ Len(gpsq) < MaxGpsEvents /\ gpsq' = Append(gpsq, "UART")
    /\ UNCHANGED <<gpsState, gpsIO, gps_pc>>

GpsNext == GpsTask \/ Command \/ GpsCall \/ GpsExpires \/ Sentence
GpsFair == WF_gpsVars(GpsTask) /\ WF_gpsVars(GpsCall) /\ WF_gpsVars(GpsExpires)
GpsSpec == GpsInit /\ [][GpsNext]_gpsVars /\ GpsFair

-----------------------------------------------------------------------------
GpsTypeOK ==
    /\ gps_status \in {"OPEN", "CLOSE"} /\ gps_delay_cmd \in {"NULL", "OPEN", "CLOSE"}
    /\ {gps_restore, gps_data_cnt, power, uart} \subseteq BOOLEAN
    /\ armed \subseteq {"OPEN", "WAIT", "PROTECT"}
    /\ gpsq \in Seq({"OPEN", "WAIT", "PROTECT", "UART"})
    /\ gps_pc \in {"idle", "keep_open", "keep_close", "open", "power_on", "arm", "close",
                   "power_off", "mute", "disarm_open", "disarm_wait", "disarm_protect"}

Coming(t) == t \in armed \/ \E i \in 1..Len(gpsq) : gpsq[i] = t

\* A supplied receiver is watched, and one that has been closed is not supplied:
\* neither commands nor restarts, cut off by each other, leave it on unattended.
PoweredIsWatched ==
    power => \/ gps_status = "OPEN" /\ (Coming("OPEN") \/ Coming("PROTECT") \/ gps_pc = "arm")
             \/ gps_pc = "power_off"

\* A receiver that counts as open is heard, whatever restarts it takes.
OpenedIsHeard == gps_status = "OPEN" ~> (power /\ uart) \/ gps_status = "CLOSE"
===============================================================================
