--------------------------------- MODULE Gprs ---------------------------------
(***************************************************************************)
(* The GPRS task (gprs_tx.c, gprs_rx.c, built with USE_GPRS_M26): one       *)
(* mailbox filled by gprs_tran_send, a thread that dispatches its events    *)
(* to the function of the current state, three timers, an AT dialogue with  *)
(* the modem, and the result reported through gprs_tx_cb.                   *)
(*                                                                         *)
(* A GPRS_STATE_TRANS_EVENT is written as its signal.  The byte buffers     *)
(* hold the tokens the handlers search for.  The commands and states that   *)
(* nothing in the code ever enters (SEND_AT, CIPMUX, gprs_recv_state, ...)  *)
(* are left out.  The modem and the sender of frames are external.          *)
(***************************************************************************)
EXTENDS Integers, Sequences, FiniteSets, SequencesExt

CONSTANTS
    Sn,                          \* serial numbers the frames carry
    GPRS_EVENT_MAX,              \* length of the task's event store
    GPRS_CMD_ATE0_MAX_NUM, GPRS_CMD_CGATT_MAX_NUM, GPRS_CMD_QIOPEN_MAX_NUM,
    GPRS_CMD_SEND_LEN_MAX_NUM, GPRS_SEND_DATA_COUNT_MAX,
    GPRS_CONNECT_TIMEOUT_COUNT,  \* 15 in gprs_connect_state
    POWER_ON_STEPS,              \* 5 in gprs_power_on_state
    UINT8,                       \* range of the counters, 256 in the code
    APP_EVENT_MAX,               \* room for results in the queue of the application
    Answers(_),                  \* the replies a modem may give to a command
    MaxOwed,                     \* bound on the commands a modem has not answered
    MaxBacklog                   \* bound on the events queued when a timer or the modem adds one

VARIABLES
    fsm,                 \* fsm_gprs.current_state
    gprs_cmd_type,       \* the command whose answer is awaited
    gprs_cur_power_flag,
    gprs_if_connected,
    count,               \* the retry and failure counters
    timers,              \* armed timers
    gprsq,               \* event queue of the GPRS task
    gprs_sn,             \* gprs_data_recv_from_app.gprs_sn
    buf,                 \* gprs_cmd_recv_array, as the tokens in it
    rx,                  \* auto_recv_sqq: received, not yet read
    appq,                \* results posted by gprs_tx_cb
    owed,                \* external: commands the modem has not answered
    delivered,           \* external: frames the modem has sent
    unsent, is_sending,  \* external: the frames of the application, one at a time
    missed               \* history: a timer ran out and the event queue was full

private == <<fsm, gprs_cmd_type, gprs_cur_power_flag, gprs_if_connected, count, timers, buf>>
modem   == <<owed, delivered>>
user    == <<unsent, is_sending>>
task    == <<private, gprsq, gprs_sn, rx, appq, modem>>
gvars   == <<task, user, missed>>

Counter == {"ate0", "cgatt", "qiopen", "len", "connect", "doubt", "on", "off"}
Signal  == {"INIT_SIG", "TIMEOUT_SIG", "SEND_ATE0", "SEND_CGATT", "SEND_QIOPEN",
            "SEND_QISEND_LEN", "SEND_DATA"}
Events  == Signal \cup {"SEND", "UART", "TIMEOUT", "NO_DATA", "ERROR"}
Timer   == {"TIMEOUT", "NO_DATA", "ERROR"}
State   == {"none", "power_on", "prepare", "connect", "send", "power_off"}
Command == {"NULL", "ATE0", "CGATT", "QIOPEN", "SEND_LEN", "SEND_DATA"}
Token   == {"OK", "+CGATT: 1", "CONNECT OK", ">", "urc"}
Asked   == (Command \ {"NULL"}) \cup {"opening"}    \* what a modem still has to say

ASSUME GprsAssumption ==
    /\ IsFiniteSet(Sn) /\ Sn \subseteq Nat \ {0}
    /\ GPRS_EVENT_MAX \in Nat \ {0} /\ APP_EVENT_MAX \in Nat \ {0} /\ UINT8 \in Nat \ {0}
    /\ MaxOwed \in Nat /\ MaxBacklog \in Nat
    /\ \A c \in Asked : Answers(c) \subseteq SUBSET Token

GprsInit ==
    /\ fsm = "none"
    /\ gprs_cmd_type = "NULL"
    /\ gprs_cur_power_flag = FALSE
    /\ gprs_if_connected = FALSE
    /\ count = [c \in Counter |-> 0]
    /\ timers = {}
    /\ gprsq = <<>>
    /\ gprs_sn = 0
    /\ buf = {} /\ rx = {}
    /\ appq = <<>>
    /\ owed = <<>> /\ delivered = {}

-----------------------------------------------------------------------------
(* What handlers are made of.                                               *)

\* A full queue drops the event: osel_post ignores the result.
Post(q, e)  == IF Len(q) < GPRS_EVENT_MAX THEN Append(q, e) ELSE q

Take(e)     == gprsq # <<>> /\ Head(gprsq) = e
Finish      == gprsq' = Tail(gprsq)
Raise(sig)  == gprsq' = Post(Tail(gprsq), sig)

\* TRAN(state) and the signal that starts it.
Goto(state, sig) == fsm' = state /\ Raise(sig)

Bump(c)     == [count EXCEPT ![c] = (@ + 1) % UINT8]
\* Faulty: the result is queued without looking at the space left.
ReportUnbounded(ok) == appq' = Append(appq, [sn |-> gprs_sn, ok |-> ok])

Report(ok)  == appq' = IF Len(appq) < APP_EVENT_MAX
                       THEN Append(appq, [sn |-> gprs_sn, ok |-> ok]) ELSE appq

\* gprs_send_cmd: the command goes to the modem and its answer is awaited.
Write(cmd) ==
    /\ gprs_cmd_type' = cmd
    /\ LET sn == IF cmd = "SEND_DATA" THEN gprs_sn ELSE 0
       IN  owed' = IF Len(owed) < MaxOwed THEN Append(owed, [cmd |-> cmd, sn |-> sn]) ELSE owed

-----------------------------------------------------------------------------
(* gprs_tran_send, called by the application.                               *)
TranSend(sn) ==
    /\ gprs_sn' = sn
    /\ gprsq' = Post(gprsq, "SEND")

\* Faulty: the modem is to be powered on, without TRAN.
SendEventNoTran ==
    /\ Take("SEND")
    /\ Raise("INIT_SIG")
    /\ fsm' = IF ~gprs_cur_power_flag THEN fsm ELSE IF gprs_if_connected THEN "send" ELSE "connect"
    /\ UNCHANGED <<gprs_cmd_type, gprs_cur_power_flag, gprs_if_connected, count, timers,
                   buf, gprs_sn, rx, appq, modem>>

\* gprs_send_event_handler
SendEvent ==
    /\ Take("SEND")
    /\ IF ~gprs_cur_power_flag THEN Goto("power_on", "INIT_SIG")
       ELSE IF count["doubt"] >= GPRS_SEND_DATA_COUNT_MAX \/ ~gprs_if_connected
         THEN Goto("connect", "INIT_SIG")
         ELSE Goto("send", "INIT_SIG")
    /\ UNCHANGED <<gprs_cmd_type, gprs_cur_power_flag, gprs_if_connected, count, timers,
                   buf, gprs_sn, rx, appq, modem>>

\* gprs_timeout_timer_cb hands the timeout to the state of that moment.
TimeoutEvent ==
    /\ Take("TIMEOUT")
    /\ Raise("TIMEOUT_SIG")
    /\ UNCHANGED <<private, gprs_sn, rx, appq, modem>>

\* Faulty: a modem that does not answer counts as success.
NoDataEventTrue ==
    /\ Take("NO_DATA")
    /\ Report(TRUE)
    /\ Finish
    /\ UNCHANGED <<private, gprs_sn, rx, modem>>

\* gprs_no_data_timer_cb
NoDataEvent ==
    /\ Take("NO_DATA")
    /\ Report(FALSE)
    /\ Finish
    /\ UNCHANGED <<private, gprs_sn, rx, modem>>

\* gprs_send_data_error_timer_cb
SendDataErrorEvent ==
    /\ Take("ERROR")
    /\ Report(FALSE)
    /\ gprs_if_connected' = TRUE
    /\ count' = Bump("doubt")
    /\ Finish
    /\ UNCHANGED <<fsm, gprs_cmd_type, gprs_cur_power_flag, timers, buf, gprs_sn, rx, modem>>

-----------------------------------------------------------------------------
(* The states.                                                              *)

\* INIT_SIG in any state only arms the timer; power-on also clears counters.
StateInit ==
    /\ Take("INIT_SIG") /\ fsm # "none"
    /\ timers' = timers \cup {"TIMEOUT"}
    /\ count' = IF fsm = "power_on"
                THEN [count EXCEPT !["cgatt"] = 0, !["qiopen"] = 0, !["len"] = 0]
                ELSE count
    /\ Finish
    /\ UNCHANGED <<fsm, gprs_cmd_type, gprs_cur_power_flag, gprs_if_connected, buf,
                   gprs_sn, rx, appq, modem>>

\* gprs_power_on_state: the steps of the power key, then AT commands.
PowerOnTimeout ==
    /\ Take("TIMEOUT_SIG") /\ fsm = "power_on"
    /\ IF count["on"] + 1 < POWER_ON_STEPS
         THEN /\ count' = [count EXCEPT !["on"] = @ + 1]
              /\ timers' = timers \cup {"TIMEOUT"}
              /\ Finish
              /\ UNCHANGED <<fsm, gprs_cur_power_flag>>
         ELSE /\ count' = [count EXCEPT !["on"] = 0]
              /\ gprs_cur_power_flag' = TRUE
              /\ Goto("prepare", "SEND_ATE0")
              /\ UNCHANGED timers
    /\ UNCHANGED <<gprs_cmd_type, gprs_if_connected, buf, gprs_sn, rx, appq, modem>>

\* gprs_power_off_state; the second step cuts the power and, if a command was
\* being answered, powers the modem on again.
PowerOffTimeout ==
    /\ Take("TIMEOUT_SIG") /\ fsm = "power_off"
    /\ timers' = timers \cup {"TIMEOUT"}
    /\ IF count["off"] = 0
         THEN /\ count' = [count EXCEPT !["off"] = 1]
              /\ Finish
              /\ UNCHANGED <<fsm, gprs_cmd_type, gprs_cur_power_flag, owed>>
         ELSE /\ count' = [count EXCEPT !["off"] = 0]
              /\ gprs_cur_power_flag' = FALSE
              /\ gprs_cmd_type' = "NULL"
              /\ owed' = <<>>
              /\ IF gprs_cmd_type \in {"ATE0", "CGATT", "QIOPEN", "SEND_LEN"}
                   THEN Goto("power_on", "INIT_SIG")
                   ELSE Finish /\ UNCHANGED fsm
    /\ UNCHANGED <<gprs_if_connected, buf, gprs_sn, rx, appq, delivered>>

\* gprs_connect_state gives up after too many timeouts since the program started.
ConnectTimeout ==
    /\ Take("TIMEOUT_SIG") /\ fsm = "connect"
    /\ count' = Bump("connect")
    /\ IF count'["connect"] > GPRS_CONNECT_TIMEOUT_COUNT
         THEN Goto("power_off", "INIT_SIG")
         ELSE Raise("SEND_QIOPEN") /\ UNCHANGED fsm
    /\ UNCHANGED <<gprs_cmd_type, gprs_cur_power_flag, gprs_if_connected, timers, buf,
                   gprs_sn, rx, appq, modem>>

\* gprs_prepare_connect_state and gprs_send_state go on to their command.
CommandTimeout ==
    /\ Take("TIMEOUT_SIG")
    /\ \/ fsm = "prepare" /\ Raise("SEND_CGATT")
       \/ fsm = "send"    /\ Raise("SEND_QISEND_LEN")
    /\ UNCHANGED <<private, gprs_sn, rx, appq, modem>>

\* Faulty: the answer is awaited without a timer.
SendCommandUntimed ==
    /\ \/ Take("SEND_ATE0")   /\ fsm = "prepare" /\ Write("ATE0")
       \/ Take("SEND_CGATT")  /\ fsm = "prepare" /\ Write("CGATT")
       \/ Take("SEND_QIOPEN") /\ fsm = "connect" /\ Write("QIOPEN")
    /\ Finish
    /\ UNCHANGED <<fsm, gprs_cur_power_flag, gprs_if_connected, count, timers, buf, gprs_sn,
                   rx, appq, delivered>>

\* ATE0 and CGATT in the prepare state, QIOPEN in the connect state.
SendCommand ==
    /\ \/ Take("SEND_ATE0")   /\ fsm = "prepare" /\ Write("ATE0")
       \/ Take("SEND_CGATT")  /\ fsm = "prepare" /\ Write("CGATT")
       \/ Take("SEND_QIOPEN") /\ fsm = "connect" /\ Write("QIOPEN")
    /\ timers' = timers \cup {"NO_DATA"}
    /\ Finish
    /\ UNCHANGED <<fsm, gprs_cur_power_flag, gprs_if_connected, count, buf, gprs_sn, rx,
                   appq, delivered>>

\* The length, then the data, in gprs_send_state.
SendLenOrData ==
    /\ fsm = "send"
    /\ \/ Take("SEND_QISEND_LEN") /\ Write("SEND_LEN") /\ buf' = {}
       \/ Take("SEND_DATA") /\ Write("SEND_DATA") /\ UNCHANGED buf
    /\ timers' = timers \cup {"ERROR"}
    /\ Finish
    /\ UNCHANGED <<fsm, gprs_cur_power_flag, gprs_if_connected, count, gprs_sn, rx, appq,
                   delivered>>

\* A signal the current state has no case for.
SignalIgnored ==
    /\ gprsq # <<>>
    /\ \/ Head(gprsq) = "SEND_ATE0"       /\ fsm # "prepare"
       \/ Head(gprsq) = "SEND_CGATT"      /\ fsm # "prepare"
       \/ Head(gprsq) = "SEND_QIOPEN"     /\ fsm # "connect"
       \/ Head(gprsq) = "SEND_QISEND_LEN" /\ fsm # "send"
       \/ Head(gprsq) = "SEND_DATA"       /\ fsm # "send"
    /\ Finish
    /\ UNCHANGED <<private, gprs_sn, rx, appq, modem>>

-----------------------------------------------------------------------------
(* The answers of the modem.  A handler searches the whole buffer.          *)

Answered(cmd) == Take("UART") /\ gprs_cmd_type = cmd /\ "urc" \notin buf \cup rx
Found(str)    == \E t \in buf \cup rx : t = str \/ (str = "OK" /\ t = "CONNECT OK")
Flush         == buf' = {} /\ rx' = {}

\* A restart, a power-down or another unsolicited message throws away the
\* whole buffer, an answer in it included.
UnsolicitedMessage ==
    /\ Take("UART") /\ "urc" \in buf \cup rx
    /\ Flush
    /\ Finish
    /\ UNCHANGED <<fsm, gprs_cmd_type, gprs_cur_power_flag, gprs_if_connected, count,
                   timers, gprs_sn, appq, modem>>

\* No command is awaited: what came stays in the buffer.
UnexpectedAnswer ==
    /\ Answered("NULL")
    /\ buf' = buf \cup rx /\ rx' = {}
    /\ Finish
    /\ UNCHANGED <<fsm, gprs_cmd_type, gprs_cur_power_flag, gprs_if_connected, count,
                   timers, gprs_sn, appq, modem>>

\* gprs_cmd_ate0_recv_handler; its counter is never reset.
Ate0Answer ==
    /\ Answered("ATE0")
    /\ IF Found("OK")
         THEN Goto("prepare", "SEND_CGATT") /\ UNCHANGED <<count, appq>>
         ELSE /\ count' = Bump("ate0")
              /\ IF count'["ate0"] < GPRS_CMD_ATE0_MAX_NUM
                   THEN Goto("prepare", "SEND_ATE0") /\ UNCHANGED appq
                   ELSE Report(FALSE) /\ Finish /\ UNCHANGED fsm
    /\ timers' = timers \ {"NO_DATA"}
    /\ Flush
    /\ UNCHANGED <<gprs_cmd_type, gprs_cur_power_flag, gprs_if_connected, gprs_sn, modem>>

\* gprs_cmd_cgatt_recv_handler
CgattAnswer ==
    /\ Answered("CGATT")
    /\ LET last == count["cgatt"] + 1 >= GPRS_CMD_CGATT_MAX_NUM
           none == ~Found("+CGATT: 1")
       IN  /\ count' = IF none /\ ~last THEN Bump("cgatt") ELSE [count EXCEPT !["cgatt"] = 0]
           /\ IF ~none THEN Goto("connect", "SEND_QIOPEN") /\ UNCHANGED appq
              ELSE IF ~last THEN Goto("prepare", "INIT_SIG") /\ UNCHANGED appq
              ELSE Report(FALSE) /\ Finish /\ UNCHANGED fsm
    /\ timers' = timers \ {"NO_DATA"}
    /\ Flush
    /\ UNCHANGED <<gprs_cmd_type, gprs_cur_power_flag, gprs_if_connected, gprs_sn, modem>>

\* gprs_cmd_qiopen_recv_handler
QiopenAnswer ==
    /\ Answered("QIOPEN")
    /\ LET last == count["qiopen"] + 1 >= GPRS_CMD_QIOPEN_MAX_NUM
           none == ~Found("CONNECT OK")
       IN  /\ count' = IF none /\ ~last THEN Bump("qiopen") ELSE [count EXCEPT !["qiopen"] = 0]
           /\ IF ~none THEN Goto("send", "SEND_QISEND_LEN")
              ELSE IF ~last THEN Goto("connect", "INIT_SIG")
              ELSE Goto("power_off", "INIT_SIG")
    /\ timers' = timers \ {"NO_DATA"}
    /\ Flush
    /\ UNCHANGED <<gprs_cmd_type, gprs_cur_power_flag, gprs_if_connected, gprs_sn, appq, modem>>

\* Faulty: failed attempts are not counted.
SendLenAnswerEndless ==
    /\ Answered("SEND_LEN")
    /\ IF Found(">") THEN timers' = timers \ {"ERROR"} /\ Raise("SEND_DATA")
                     ELSE Raise("INIT_SIG") /\ UNCHANGED timers
    /\ Flush
    /\ UNCHANGED <<fsm, gprs_cmd_type, gprs_cur_power_flag, gprs_if_connected, count, gprs_sn,
                   appq, modem>>

\* gprs_cmd_send_recv_handler; without a prompt the error timer stays armed.
SendLenAnswer ==
    /\ Answered("SEND_LEN")
    /\ IF Found(">")
         THEN /\ count' = [count EXCEPT !["len"] = 0]
              /\ timers' = timers \ {"ERROR"}
              /\ Raise("SEND_DATA")
              /\ UNCHANGED <<appq, gprs_if_connected>>
         ELSE /\ count' = Bump("len")
              /\ UNCHANGED timers
              /\ IF count["len"] <= GPRS_CMD_SEND_LEN_MAX_NUM
                   THEN Raise("INIT_SIG") /\ UNCHANGED <<appq, gprs_if_connected>>
                   ELSE Report(FALSE) /\ Finish /\ gprs_if_connected' = TRUE
    /\ Flush
    /\ UNCHANGED <<fsm, gprs_cmd_type, gprs_cur_power_flag, gprs_sn, modem>>

\* gprs_cmd_data_recv_handler, in the UDP_CONTINE mode the application uses.
SendDataAnswer ==
    /\ Answered("SEND_DATA")
    /\ Report(Found("OK"))
    /\ count' = IF Found("OK") THEN [count EXCEPT !["doubt"] = 0] ELSE count
    /\ gprs_if_connected' = TRUE
    /\ gprs_cmd_type' = "NULL"
    /\ timers' = timers \ {"ERROR"}
    /\ Flush
    /\ Finish
    /\ UNCHANGED <<fsm, gprs_cur_power_flag, gprs_sn, modem>>

UartEvent == UnsolicitedMessage \/ UnexpectedAnswer \/ Ate0Answer \/ CgattAnswer
                \/ QiopenAnswer \/ SendLenAnswer \/ SendDataAnswer

StateSignal == StateInit \/ PowerOnTimeout \/ PowerOffTimeout \/ ConnectTimeout
                  \/ CommandTimeout \/ SendCommand \/ SendLenOrData \/ SignalIgnored

\* One event of the thread.
Dispatch == /\ SendEvent \/ TimeoutEvent \/ NoDataEvent \/ SendDataErrorEvent
                  \/ StateSignal \/ UartEvent
            /\ UNCHANGED <<user, missed>>

\* wsnos_ticks posts the event of a timer that ran out.
TimerFires ==
    /\ Len(gprsq) <= MaxBacklog
    /\ \E t \in timers : timers' = timers \ {t} /\ gprsq' = Post(gprsq, t)
    /\ missed' = (missed \/ Len(gprsq) >= GPRS_EVENT_MAX)
    /\ UNCHANGED <<fsm, gprs_cmd_type, gprs_cur_power_flag, gprs_if_connected, count, buf,
                   gprs_sn, rx, appq, modem, user>>

-----------------------------------------------------------------------------
(* The modem answers in order or not at all; one event follows each burst,  *)
(* and {} is an answer with nothing in it that is searched for.             *)
(* A connection may be announced after the acknowledgement of AT+QIOPEN.    *)
ModemAnswers ==
    /\ owed # <<>> /\ Len(gprsq) <= MaxBacklog
    /\ \E ans \in Answers(Head(owed).cmd) :
         /\ rx' = rx \cup ans
         /\ gprsq' = Post(gprsq, "UART")
         /\ delivered' = IF Head(owed).cmd = "SEND_DATA" /\ "OK" \in ans
                         THEN delivered \cup {Head(owed).sn} ELSE delivered
         /\ owed' = IF Head(owed).cmd = "QIOPEN" /\ ans = {"OK"}
                    THEN Append(Tail(owed), [Head(owed) EXCEPT !.cmd = "opening"]) ELSE Tail(owed)
    /\ UNCHANGED <<private, gprs_sn, appq, user, missed>>

ModemSilent ==
    /\ owed # <<>>
    /\ owed' = Tail(owed)
    /\ UNCHANGED <<private, gprsq, gprs_sn, rx, appq, delivered, user, missed>>

\* The application sends its first frame until that is reported sent.  Its
\* task has a lower priority: it runs when the GPRS task has no event left.
UserSends ==
    /\ gprsq = <<>>
    /\ ~is_sending /\ unsent # <<>>
    /\ TranSend(Head(unsent))
    /\ is_sending' = TRUE
    /\ UNCHANGED <<private, rx, appq, modem, unsent, missed>>

UserHears ==
    /\ gprsq = <<>>
    /\ appq # <<>>
    /\ appq' = Tail(appq)
    /\ is_sending' = FALSE
    /\ unsent' = IF Head(appq).ok THEN RemoveFirst(unsent, Head(appq).sn) ELSE unsent
    /\ UNCHANGED <<private, gprsq, gprs_sn, rx, modem, missed>>

Init == GprsInit /\ unsent = SetToSeq(Sn) /\ is_sending = FALSE /\ missed = FALSE
Next == Dispatch \/ TimerFires \/ ModemAnswers \/ ModemSilent \/ UserSends \/ UserHears
Spec == Init /\ [][Next]_gvars

\* The scheduler runs a task that has events, and some armed timer runs out.
\* The GPRS task is idle while it waits for a timer, which is when the
\* application, of lower priority, handles a result: it gets infinitely many
\* such chances, not one that lasts.  The modem need not answer.
FairSpec == Spec /\ WF_gvars(Dispatch) /\ WF_gvars(TimerFires) /\ SF_gvars(UserHears)

-----------------------------------------------------------------------------
TypeOK ==
    /\ fsm \in State
    /\ gprs_cmd_type \in Command
    /\ gprs_cur_power_flag \in BOOLEAN /\ gprs_if_connected \in BOOLEAN
    /\ count \in [Counter -> Nat]
    /\ timers \subseteq Timer
    /\ gprsq \in Seq(Events) /\ Len(gprsq) <= GPRS_EVENT_MAX
    /\ gprs_sn \in Sn \cup {0}
    /\ buf \subseteq Token /\ rx \subseteq Token
    /\ appq \in Seq([sn : Sn \cup {0}, ok : BOOLEAN]) /\ Len(appq) <= APP_EVENT_MAX
    /\ owed \in Seq([cmd : Asked, sn : Sn \cup {0}]) /\ Len(owed) <= MaxOwed
    /\ delivered \subseteq Sn
    /\ unsent \in Seq(Sn) /\ is_sending \in BOOLEAN /\ missed \in BOOLEAN

\* FSM_DISPATCH calls the function in current_state, which no initialisation
\* sets: no signal may reach it before the first frame has chosen a state.
StateKnown == gprsq # <<>> /\ Head(gprsq) \in Signal => fsm # "none"

\* A frame in progress is never left with nothing that would end it: there is
\* an event to handle, a timer running or a result under way, whichever
\* answers were lost, late or ignored, unless a timer found the queue full.
NeverStranded == is_sending => gprsq # <<>> \/ timers # {} \/ appq # <<>> \/ missed

\* The task keeps the promise of its interface.
Service == INSTANCE SendService WITH mailbox <- gprs_sn, results <- appq,
                                     out <- gprs_cmd_type = "SEND_DATA"
ImplementsService == Service!Spec

\* A send ends in a result, or the modem is being switched off and on.
SendEnds == is_sending ~> ~is_sending \/ fsm = "power_off"

-----------------------------------------------------------------------------
(* What comments of the code say and the code does not do.                  *)

\* gprs_rx.c:564 hands the application the result of the send.
SuccessIsTrue == \A i \in DOMAIN appq : appq[i].ok => appq[i].sn \in delivered

\* gprs_rx.c:473: connections that fail are reported as no network.
NoNetworkReported == is_sending ~> ~is_sending
=============================================================================
