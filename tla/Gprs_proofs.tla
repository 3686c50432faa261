----------------------------- MODULE Gprs_proofs -----------------------------
(***************************************************************************)
(* The GPRS task never strands a frame, never meets a signal without a      *)
(* state and keeps the promise of SendService, for any number of retries,   *)
(* any capacity of its queue and any answers of the modem.                  *)
(*                                                                         *)
(* What NeverStranded leaves open is that the event in the queue may be     *)
(* one the current state ignores.  The inductive invariant says which       *)
(* events are sure to lead on: a frame in progress has one of those, a      *)
(* running timer or a result.                                               *)
(***************************************************************************)
EXTENDS Gprs, QueueLemmas, FiniteSetTheorems

\* The events that the task never ignores in its current state.
Moving ==
    {"SEND", "TIMEOUT", "NO_DATA", "ERROR", "INIT_SIG", "TIMEOUT_SIG"}
        \cup {sig \in Signal : \/ fsm = "prepare" /\ sig \in {"SEND_ATE0", "SEND_CGATT"}
                               \/ fsm = "connect" /\ sig = "SEND_QIOPEN"
                               \/ fsm = "send"    /\ sig \in {"SEND_QISEND_LEN", "SEND_DATA"}}

Awaited(running) == running # {} \/ appq # <<>> \/ missed \/ ToSet(gprsq) \cap Moving # {}

\* Before the first frame nothing has started.
Fresh == fsm = "none" => /\ timers = {} /\ owed = <<>> /\ gprs_cmd_type = "NULL"
                         /\ ToSet(gprsq) \subseteq {"SEND"}

\* A frame is in the mailbox from the first event on.
Numbered == /\ gprs_sn = 0 => fsm = "none" /\ gprsq = <<>>
            /\ \A i \in 1..Len(owed) : owed[i].cmd = "SEND_DATA" => owed[i].sn \in Sn

Pending == is_sending => Awaited(timers)

\* The prompt of the modem stops the error timer, and what it raises instead is
\* ignored if a frame has taken the task to another state meanwhile.
LatePrompt == is_sending /\ gprs_cmd_type = "SEND_LEN" /\ fsm # "send" => Awaited(timers \ {"ERROR"})

IInv == TypeOK /\ Fresh /\ Numbered /\ Pending /\ LatePrompt

-----------------------------------------------------------------------------
(* What the steps of a handler do.                                          *)

QueueTyped == gprsq \in Seq(Events) /\ Len(gprsq) <= GPRS_EVENT_MAX

LEMMA Posted ==
    ASSUME NEW q \in Seq(Events), Len(q) <= GPRS_EVENT_MAX, NEW e \in Events
    PROVE  /\ Post(q, e) \in Seq(Events) /\ Len(Post(q, e)) <= GPRS_EVENT_MAX
           /\ ToSet(q) \subseteq ToSet(Post(q, e))
           /\ ToSet(Post(q, e)) \subseteq ToSet(q) \cup {e}
           /\ Len(q) < GPRS_EVENT_MAX => e \in ToSet(Post(q, e))
<1>1. GPRS_EVENT_MAX \in Nat \ {0}
  BY GprsAssumption
<1>2. CASE Len(q) < GPRS_EVENT_MAX
  <2>1. Post(q, e) = Append(q, e)
    BY <1>2 DEF Post
  <2>2. Append(q, e) \in Seq(Events) /\ Len(Append(q, e)) = Len(q) + 1
    OBVIOUS
  <2>3. ToSet(Append(q, e)) = ToSet(q) \cup {e}
    BY AppendSet
  <2> QED BY <1>1, <1>2, <2>1, <2>2, <2>3
<1>3. CASE ~(Len(q) < GPRS_EVENT_MAX)
  BY <1>1, <1>3 DEF Post
<1> QED BY <1>2, <1>3

LEMMA Taken ==
    ASSUME TypeOK, NEW e, Take(e), Finish
    PROVE  QueueTyped' /\ e \in ToSet(gprsq) /\ ToSet(gprsq) = ToSet(gprsq') \cup {e}
<1>1. gprsq \in Seq(Events) /\ gprsq # <<>> /\ Head(gprsq) = e /\ Len(gprsq) <= GPRS_EVENT_MAX
  BY DEF TypeOK, Take
<1>2. GPRS_EVENT_MAX \in Nat \ {0}
  BY GprsAssumption
<1> QED BY <1>1, <1>2, TailSet DEF Finish, QueueTyped

LEMMA Raised ==
    ASSUME TypeOK, NEW e, Take(e), NEW sig \in Events, Raise(sig)
    PROVE  /\ QueueTyped' /\ e \in ToSet(gprsq) /\ sig \in ToSet(gprsq')
           /\ ToSet(gprsq) \subseteq ToSet(gprsq') \cup {e}
           /\ ToSet(gprsq') \subseteq ToSet(gprsq) \cup {sig}
<1>1. gprsq \in Seq(Events) /\ gprsq # <<>> /\ Head(gprsq) = e /\ Len(gprsq) <= GPRS_EVENT_MAX
  BY DEF TypeOK, Take
<1>2. GPRS_EVENT_MAX \in Nat \ {0}
  BY GprsAssumption
<1>3. /\ Tail(gprsq) \in Seq(Events) /\ Len(Tail(gprsq)) < GPRS_EVENT_MAX
      /\ ToSet(gprsq) = ToSet(Tail(gprsq)) \cup {e}
  BY <1>1, <1>2, TailSet
<1>4. gprsq' = Post(Tail(gprsq), sig)
  BY DEF Raise
<1>5. Len(Tail(gprsq)) <= GPRS_EVENT_MAX
  BY <1>2, <1>3
<1>6. /\ gprsq' \in Seq(Events) /\ Len(gprsq') <= GPRS_EVENT_MAX
      /\ ToSet(Tail(gprsq)) \subseteq ToSet(gprsq')
      /\ ToSet(gprsq') \subseteq ToSet(Tail(gprsq)) \cup {sig}
      /\ sig \in ToSet(gprsq')
  BY <1>3, <1>4, <1>5, Posted
<1> QED BY <1>3, <1>6 DEF QueueTyped

LEMMA Reported ==
    ASSUME TypeOK, NEW ok \in BOOLEAN, Report(ok)
    PROVE  /\ appq' \in Seq([sn : Sn \cup {0}, ok : BOOLEAN]) /\ Len(appq') <= APP_EVENT_MAX
           /\ appq' # <<>>
<1> DEFINE R == [sn : Sn \cup {0}, ok : BOOLEAN]
<1>1. appq \in Seq(R) /\ Len(appq) <= APP_EVENT_MAX /\ [sn |-> gprs_sn, ok |-> ok] \in R
  BY DEF TypeOK
<1>2. APP_EVENT_MAX \in Nat \ {0}
  BY GprsAssumption
<1> HIDE DEF R
<1>3. CASE Len(appq) < APP_EVENT_MAX
  <2>1. appq' = Append(appq, [sn |-> gprs_sn, ok |-> ok])
    BY <1>3 DEF Report
  <2> DEFINE r == [sn |-> gprs_sn, ok |-> ok]
  <2>2. r \in R
    BY <1>1
  <2> HIDE DEF r
  <2>3. Append(appq, r) \in Seq(R) /\ Len(Append(appq, r)) = Len(appq) + 1
    BY <1>1, <2>2
  <2>4. Append(appq, r) # <<>>
    BY <1>1, <2>2, AppendProperties
  <2> QED BY <1>1, <1>2, <1>3, <2>1, <2>3, <2>4 DEF r, R
<1>4. CASE ~(Len(appq) < APP_EVENT_MAX)
  <2>1. appq' = appq
    BY <1>4 DEF Report
  <2>2. Len(appq) # 0
    BY <1>1, <1>2, <1>4
  <2> QED BY <1>1, <2>1, <2>2 DEF R
<1> QED BY <1>3, <1>4

LEMMA Counted ==
    ASSUME TypeOK, NEW c \in Counter
    PROVE  Bump(c) \in [Counter -> Nat]
<1>1. UINT8 \in Nat \ {0} /\ count \in [Counter -> Nat]
  BY GprsAssumption DEF TypeOK
<1>2. count[c] \in Nat
  BY <1>1
<1>3. (count[c] + 1) % UINT8 \in Nat
  BY <1>1, <1>2
<1> QED BY <1>1, <1>3 DEF Bump

OwedTyped == /\ owed \in Seq([cmd : Asked, sn : Sn \cup {0}]) /\ Len(owed) <= MaxOwed
             /\ \A i \in 1..Len(owed) : owed[i].cmd = "SEND_DATA" => owed[i].sn \in Sn

LEMMA Written ==
    ASSUME OwedTyped, gprs_sn \in Sn, NEW cmd \in Command \ {"NULL"}, Write(cmd)
    PROVE  OwedTyped' /\ gprs_cmd_type' = cmd
<1> DEFINE R == [cmd : Asked, sn : Sn \cup {0}]
           r == [cmd |-> cmd, sn |-> IF cmd = "SEND_DATA" THEN gprs_sn ELSE 0]
<1>1. owed \in Seq(R) /\ Len(owed) <= MaxOwed /\ MaxOwed \in Nat
  BY GprsAssumption DEF OwedTyped
<1>2. r \in R /\ (r.cmd = "SEND_DATA" => r.sn \in Sn)
  BY DEF Asked
<1>3. gprs_cmd_type' = cmd /\ owed' = IF Len(owed) < MaxOwed THEN Append(owed, r) ELSE owed
  BY DEF Write
<1>4. CASE Len(owed) < MaxOwed
  <2> HIDE DEF r, R
  <2>1. owed' \in Seq(R) /\ Len(owed') = Len(owed) + 1 /\ Len(owed') <= MaxOwed
    BY <1>1, <1>2, <1>3, <1>4
  <2>2. \A i \in 1..Len(owed') : owed'[i] = r \/ (i \in 1..Len(owed) /\ owed'[i] = owed[i])
    BY <1>1, <1>2, <1>3, <1>4
  <2>3. \A i \in 1..Len(owed') : owed'[i].cmd = "SEND_DATA" => owed'[i].sn \in Sn
    BY <1>2, <2>2 DEF OwedTyped
  <2> QED BY <1>3, <2>1, <2>3 DEF OwedTyped, R
<1>5. CASE ~(Len(owed) < MaxOwed)
  BY <1>3, <1>5 DEF OwedTyped
<1> QED BY <1>4, <1>5
-----------------------------------------------------------------------------
(* Every event starts from a state: the first of them is SEND.              *)

Acts == SendEvent \/ TimeoutEvent \/ NoDataEvent \/ SendDataErrorEvent \/ StateSignal \/ UartEvent

LEMMA Awake == ASSUME IInv, Acts PROVE fsm' # "none" /\ gprs_sn \in Sn /\ gprs_sn' = gprs_sn
<1>1. gprsq \in Seq(Events) /\ gprsq # <<>> /\ gprs_sn \in Sn
  BY DEF IInv, TypeOK, Numbered, Acts, SendEvent, TimeoutEvent, NoDataEvent, SendDataErrorEvent,
         StateSignal, StateInit, PowerOnTimeout, PowerOffTimeout, ConnectTimeout, CommandTimeout,
         SendCommand, SendLenOrData, SignalIgnored, UartEvent, UnsolicitedMessage, UnexpectedAnswer,
         Ate0Answer, CgattAnswer, QiopenAnswer, SendLenAnswer, SendDataAnswer, Take, Answered
<1>2. fsm = "none" => Head(gprsq) = "SEND"
  BY <1>1, TailSet DEF IInv, Fresh
<1>3. CASE SendEvent
  BY <1>1, <1>3 DEF SendEvent, Goto
<1>4. CASE TimeoutEvent \/ NoDataEvent \/ SendDataErrorEvent
  BY <1>1, <1>2, <1>4 DEF TimeoutEvent, NoDataEvent, SendDataErrorEvent, Take, private
<1>5. CASE StateSignal
  BY <1>1, <1>2, <1>5 DEF StateSignal, StateInit, PowerOnTimeout, PowerOffTimeout, ConnectTimeout,
     CommandTimeout, SendCommand, SendLenOrData, SignalIgnored, Take, Goto, private
<1>6. CASE UartEvent
  BY <1>1, <1>2, <1>6 DEF UartEvent, UnsolicitedMessage, UnexpectedAnswer, Ate0Answer, CgattAnswer,
     QiopenAnswer, SendLenAnswer, SendDataAnswer, Take, Answered, Goto
<1> QED BY <1>3, <1>4, <1>5, <1>6 DEF Acts
-----------------------------------------------------------------------------
(* Types, one part of the state at a time.                                  *)

LEMMA QueueStep == ASSUME IInv, Acts PROVE QueueTyped'
<1> USE DEF Goto, Events, Signal
<1>0. TypeOK
  BY DEF IInv
<1>1. ASSUME NEW e, Take(e), Finish PROVE QueueTyped'
  BY <1>0, <1>1, Taken
<1>2. ASSUME NEW e, Take(e), NEW sig \in Signal, Raise(sig) PROVE QueueTyped'
  BY <1>0, <1>2, Raised
<1>3. CASE SendEvent
  BY <1>2, <1>3 DEF SendEvent
<1>4. CASE TimeoutEvent \/ NoDataEvent \/ SendDataErrorEvent
  BY <1>1, <1>2, <1>4 DEF TimeoutEvent, NoDataEvent, SendDataErrorEvent
<1>5. CASE StateSignal
  <2>1. CASE StateInit
    BY <1>1, <2>1 DEF StateInit
  <2>2. CASE PowerOnTimeout
    BY <1>1, <1>2, <2>2 DEF PowerOnTimeout
  <2>3. CASE PowerOffTimeout
    BY <1>1, <1>2, <2>3 DEF PowerOffTimeout
  <2>4. CASE ConnectTimeout \/ CommandTimeout
    BY <1>2, <2>4 DEF ConnectTimeout, CommandTimeout
  <2>5. CASE SendCommand \/ SendLenOrData
    BY <1>1, <2>5 DEF SendCommand, SendLenOrData
  <2>6. CASE SignalIgnored
    BY <1>1, <2>6 DEF SignalIgnored, Take
  <2> QED BY <1>5, <2>1, <2>2, <2>3, <2>4, <2>5, <2>6 DEF StateSignal
<1>6. CASE UartEvent
  <2> USE DEF Answered
  <2>1. CASE UnsolicitedMessage \/ UnexpectedAnswer \/ SendDataAnswer
    BY <1>1, <2>1 DEF UnsolicitedMessage, UnexpectedAnswer, SendDataAnswer
  <2>2. CASE Ate0Answer
    BY <1>1, <1>2, <2>2 DEF Ate0Answer
  <2>3. CASE CgattAnswer
    BY <1>1, <1>2, <2>3 DEF CgattAnswer
  <2>4. CASE QiopenAnswer
    BY <1>2, <2>4 DEF QiopenAnswer
  <2>5. CASE SendLenAnswer
    BY <1>1, <1>2, <2>5 DEF SendLenAnswer
  <2> QED BY <1>6, <2>1, <2>2, <2>3, <2>4, <2>5 DEF UartEvent
<1> QED BY <1>3, <1>4, <1>5, <1>6 DEF Acts

AppTyped == appq \in Seq([sn : Sn \cup {0}, ok : BOOLEAN]) /\ Len(appq) <= APP_EVENT_MAX

\* A result is queued, or the queue of the application stays as it is.
LEMMA AppStep == ASSUME IInv, Acts
                 PROVE  (appq' = appq \/ \E ok \in BOOLEAN : Report(ok)) /\ AppTyped'
<1>1. appq' = appq \/ \E ok \in BOOLEAN : Report(ok)
  <2>1. CASE SendEvent \/ TimeoutEvent \/ NoDataEvent \/ SendDataErrorEvent
    BY <2>1 DEF SendEvent, TimeoutEvent, NoDataEvent, SendDataErrorEvent
  <2>2. CASE StateSignal
    BY <2>2 DEF StateSignal, StateInit, PowerOnTimeout, PowerOffTimeout, ConnectTimeout,
         CommandTimeout, SendCommand, SendLenOrData, SignalIgnored
  <2>3. CASE UartEvent
    <3>1. Found("OK") \in BOOLEAN
      BY DEF Found
    <3> QED BY <2>3, <3>1 DEF UartEvent, UnsolicitedMessage, UnexpectedAnswer, Ate0Answer, CgattAnswer,
       QiopenAnswer, SendLenAnswer, SendDataAnswer
  <2> QED BY <2>1, <2>2, <2>3 DEF Acts
<1>2. AppTyped'
  BY <1>1, Reported DEF IInv, TypeOK, AppTyped
<1> QED BY <1>1, <1>2

LEMMA CountStep == ASSUME IInv, Acts PROVE count' \in [Counter -> Nat]
<1>0. TypeOK /\ count \in [Counter -> Nat]
  BY DEF IInv, TypeOK
<1>1. \A c \in Counter : Bump(c) \in [Counter -> Nat]
  BY <1>0, Counted
<1>2. CASE SendEvent \/ TimeoutEvent \/ NoDataEvent \/ SendDataErrorEvent
  BY <1>0, <1>1, <1>2 DEF SendEvent, TimeoutEvent, NoDataEvent, SendDataErrorEvent, private, Counter
<1>3. CASE StateSignal
  <2>1. CASE PowerOnTimeout
    BY <1>0, <2>1 DEF PowerOnTimeout, Counter
  <2>2. CASE StateInit \/ PowerOffTimeout
    BY <1>0, <2>2 DEF StateInit, PowerOffTimeout, Counter
  <2>3. CASE ConnectTimeout \/ CommandTimeout \/ SendCommand \/ SendLenOrData \/ SignalIgnored
    BY <1>0, <1>1, <2>3 DEF ConnectTimeout, CommandTimeout, SendCommand, SendLenOrData, SignalIgnored,
       private, Counter
  <2> QED BY <1>3, <2>1, <2>2, <2>3 DEF StateSignal
<1>4. CASE UartEvent
  <2>0. \A c \in Counter : [count EXCEPT ![c] = 0] \in [Counter -> Nat]
    BY <1>0
  <2>1. CASE UnsolicitedMessage \/ UnexpectedAnswer \/ Ate0Answer
    BY <1>0, <1>1, <2>1 DEF UnsolicitedMessage, UnexpectedAnswer, Ate0Answer, Counter
  <2>2. CASE CgattAnswer
    BY <1>1, <2>0, <2>2 DEF CgattAnswer, Counter
  <2>3. CASE QiopenAnswer
    BY <1>1, <2>0, <2>3 DEF QiopenAnswer, Counter
  <2>4. CASE SendLenAnswer \/ SendDataAnswer
    BY <1>0, <1>1, <2>0, <2>4 DEF SendLenAnswer, SendDataAnswer, Counter
  <2> QED BY <1>4, <2>1, <2>2, <2>3, <2>4 DEF UartEvent
<1> QED BY <1>2, <1>3, <1>4 DEF Acts

LEMMA OwedStep == ASSUME IInv, Acts PROVE OwedTyped' /\ delivered' \subseteq Sn
<1>1. OwedTyped /\ gprs_sn \in Sn /\ delivered \subseteq Sn
  BY Awake DEF IInv, TypeOK, Numbered, OwedTyped
<1>2. OwedTyped' /\ delivered' = delivered
  <2>1. CASE SendEvent \/ TimeoutEvent \/ NoDataEvent \/ SendDataErrorEvent
    BY <1>1, <2>1 DEF SendEvent, TimeoutEvent, NoDataEvent, SendDataErrorEvent, modem, OwedTyped
  <2>2. CASE UartEvent
    BY <1>1, <2>2 DEF UartEvent, UnsolicitedMessage, UnexpectedAnswer, Ate0Answer, CgattAnswer,
       QiopenAnswer, SendLenAnswer, SendDataAnswer, modem, OwedTyped
  <2>3. CASE PowerOffTimeout
    <3>1. <<>> \in Seq([cmd : Asked, sn : Sn \cup {0}]) /\ Len(<<>>) = 0 /\ MaxOwed >= 0
      BY GprsAssumption
    <3>2. delivered' = delivered /\ owed' \in {owed, <<>>}
      BY <2>3 DEF PowerOffTimeout
    <3>3. owed' = <<>> => OwedTyped'
      BY <3>1 DEF OwedTyped
    <3>4. owed' = owed => OwedTyped'
      BY <1>1 DEF OwedTyped
    <3> QED BY <3>2, <3>3, <3>4
  <2>4. CASE StateInit \/ PowerOnTimeout \/ ConnectTimeout \/ CommandTimeout \/ SignalIgnored
    BY <1>1, <2>4 DEF StateInit, PowerOnTimeout, ConnectTimeout, CommandTimeout, SignalIgnored,
       modem, OwedTyped
  <2>5. CASE SendCommand \/ SendLenOrData
    <3>1. PICK c \in Command \ {"NULL"} : Write(c) /\ delivered' = delivered
      BY <2>5 DEF SendCommand, SendLenOrData, Command
    <3> QED BY <1>1, <3>1, Written
  <2> QED BY <2>1, <2>2, <2>3, <2>4, <2>5 DEF Acts, StateSignal
<1> QED BY <1>1, <1>2

LEMMA RestStep ==
    ASSUME IInv, Acts
    PROVE  /\ fsm' \in State /\ gprs_cmd_type' \in Command
           /\ gprs_cur_power_flag' \in BOOLEAN /\ gprs_if_connected' \in BOOLEAN
           /\ timers' \subseteq Timer /\ buf' \subseteq Token /\ rx' \subseteq Token
<1> USE DEF State, Command, Timer
<1>0. /\ fsm \in State /\ gprs_cmd_type \in Command
      /\ gprs_cur_power_flag \in BOOLEAN /\ gprs_if_connected \in BOOLEAN
      /\ timers \subseteq Timer /\ buf \subseteq Token /\ rx \subseteq Token
  BY DEF IInv, TypeOK
<1>1. CASE SendEvent \/ TimeoutEvent \/ NoDataEvent \/ SendDataErrorEvent
  BY <1>0, <1>1 DEF SendEvent, TimeoutEvent, NoDataEvent, SendDataErrorEvent, private, Goto
<1>2. CASE StateInit \/ PowerOnTimeout \/ PowerOffTimeout \/ ConnectTimeout
  BY <1>0, <1>2 DEF StateInit, PowerOnTimeout, PowerOffTimeout, ConnectTimeout, private, Goto
<1>3. CASE CommandTimeout \/ SendCommand \/ SendLenOrData \/ SignalIgnored
  BY <1>0, <1>3 DEF CommandTimeout, SendCommand, SendLenOrData, SignalIgnored, private, Write
<1>4. CASE UartEvent
  BY <1>0, <1>4 DEF UartEvent, UnsolicitedMessage, UnexpectedAnswer, Ate0Answer, CgattAnswer,
     QiopenAnswer, SendLenAnswer, SendDataAnswer, Flush, Goto
<1> QED BY <1>1, <1>2, <1>3, <1>4 DEF Acts, StateSignal
-----------------------------------------------------------------------------
(* A frame in progress stays awaited.                                       *)

LEMMA WaitStep == ASSUME IInv, Acts, UNCHANGED <<user, missed>>
                  PROVE  Pending' /\ LatePrompt'
<1> SUFFICES ASSUME is_sending PROVE Pending' /\ LatePrompt'
  BY DEF Pending, LatePrompt, user
<1> USE DEF Goto
<1>0. /\ TypeOK /\ Awaited(timers)
      /\ gprs_cmd_type = "SEND_LEN" /\ fsm # "send" => Awaited(timers \ {"ERROR"})
  BY DEF IInv, Pending, LatePrompt
\* What settles it: a signal the new state handles, a result, a timer.
<1>1. ASSUME NEW e, Take(e), NEW sig \in Events, Raise(sig), sig \in Moving'
      PROVE  Pending' /\ LatePrompt'
  <2>1. sig \in ToSet(gprsq')
    BY <1>0, <1>1, Raised
  <2> QED BY <1>1, <2>1 DEF Pending, LatePrompt, Awaited
<1>2. ASSUME NEW ok \in BOOLEAN, Report(ok)  PROVE Pending' /\ LatePrompt'
  BY <1>0, <1>2, Reported DEF Pending, LatePrompt, Awaited
<1>3. ASSUME "TIMEOUT" \in timers' \/ "NO_DATA" \in timers'  PROVE Pending' /\ LatePrompt'
  BY <1>3 DEF Pending, LatePrompt, Awaited
\* An event that leads nowhere leaves the one that does.
<1>4. ASSUME NEW e, Take(e), Finish, e \notin Moving, UNCHANGED <<fsm, gprs_cmd_type, timers, appq>>
      PROVE  Pending' /\ LatePrompt'
  <2>1. ToSet(gprsq) = ToSet(gprsq') \cup {e} /\ Moving' = Moving
    BY <1>0, <1>4, Taken DEF Moving
  <2> QED BY <1>0, <1>4, <2>1 DEF Pending, LatePrompt, Awaited, user
<1>5. "INIT_SIG" \in Moving' /\ "TIMEOUT_SIG" \in Moving'
  BY DEF Moving
<1>6. CASE SendEvent
  BY <1>1, <1>5, <1>6 DEF SendEvent, Events, Signal
<1>7. CASE TimeoutEvent
  BY <1>1, <1>5, <1>7 DEF TimeoutEvent, Events, Signal
<1>8. CASE NoDataEvent \/ SendDataErrorEvent
  BY <1>2, <1>8 DEF NoDataEvent, SendDataErrorEvent
<1>9. CASE StateInit \/ PowerOffTimeout \/ SendCommand
  BY <1>3, <1>9 DEF StateInit, PowerOffTimeout, SendCommand
<1>10. CASE PowerOnTimeout
  BY <1>1, <1>3, <1>10 DEF PowerOnTimeout, Moving, Events, Signal
<1>11. CASE ConnectTimeout
  BY <1>1, <1>5, <1>11 DEF ConnectTimeout, Moving, Events, Signal
<1>12. CASE CommandTimeout
  BY <1>1, <1>12 DEF CommandTimeout, Moving, Events, Signal, private
<1>13. CASE SendLenOrData
  BY <1>13 DEF SendLenOrData, Pending, LatePrompt, Awaited
<1>14. CASE SignalIgnored
  BY <1>4, <1>14 DEF SignalIgnored, Take, Moving, private
<1>15. CASE UnsolicitedMessage \/ UnexpectedAnswer
  BY <1>4, <1>15 DEF UnsolicitedMessage, UnexpectedAnswer, Answered, Moving, Signal
<1>16. CASE Ate0Answer
  BY <1>1, <1>2, <1>16 DEF Ate0Answer, Answered, Moving, Events, Signal
<1>17. CASE CgattAnswer
  BY <1>1, <1>2, <1>5, <1>17 DEF CgattAnswer, Answered, Moving, Events, Signal
<1>18. CASE QiopenAnswer
  BY <1>1, <1>5, <1>18 DEF QiopenAnswer, Answered, Moving, Events, Signal
<1>19. CASE SendDataAnswer
  BY <1>2, <1>19 DEF SendDataAnswer, Found
<1>20. CASE SendLenAnswer
  <2>1. CASE Found(">") /\ fsm = "send"
    BY <1>1, <1>20, <2>1 DEF SendLenAnswer, Answered, Moving, Events, Signal
  <2>2. CASE Found(">") /\ fsm # "send"
    <3>1. /\ Take("UART") /\ Raise("SEND_DATA") /\ timers' = timers \ {"ERROR"}
          /\ UNCHANGED <<fsm, gprs_cmd_type, appq, missed>>
          /\ Awaited(timers \ {"ERROR"})
      BY <1>0, <1>20, <2>2 DEF SendLenAnswer, Answered
    <3>2. ToSet(gprsq) \subseteq ToSet(gprsq') \cup {"UART"} /\ Moving' = Moving /\ "UART" \notin Moving
      BY <1>0, <3>1, Raised DEF Moving, Events, Signal
    <3>3. Awaited(timers \ {"ERROR"})'
      BY <3>1, <3>2 DEF Awaited
    <3> QED BY <3>1, <3>3 DEF Pending, LatePrompt, Awaited
  <2>3. CASE ~Found(">")
    BY <1>1, <1>2, <1>5, <1>20, <2>3 DEF SendLenAnswer, Answered, Events, Signal
  <2> QED BY <2>1, <2>2, <2>3
<1> QED BY <1>6, <1>7, <1>8, <1>9, <1>10, <1>11, <1>12, <1>13, <1>14, <1>15, <1>16, <1>17, <1>18,
           <1>19, <1>20 DEF Acts, StateSignal, UartEvent
-----------------------------------------------------------------------------
(* The invariant.                                                           *)

LEMMA InitI == Init => IInv
<1> SUFFICES ASSUME Init PROVE IInv
  OBVIOUS
<1>1. SetToSeq(Sn) \in Seq(Sn)
  <2>1. Cardinality(Sn) \in Nat /\ \E f \in [1..Cardinality(Sn) -> Sn] : IsInjective(f)
    BY GprsAssumption, FS_CardinalityType DEF ExistsBijection, Bijection, Injection
  <2>2. SetToSeq(Sn) \in [1..Cardinality(Sn) -> Sn]
    BY <2>1 DEF SetToSeq
  <2> QED BY <2>1, <2>2
<1>2. ToSet(gprsq) = {} /\ ToSet(owed) = {}
  BY EmptySet DEF Init, GprsInit
<1>3. TypeOK
  <2>1. /\ <<>> \in Seq(Events) /\ <<>> \in Seq([sn : Sn \cup {0}, ok : BOOLEAN])
        /\ <<>> \in Seq([cmd : Asked, sn : Sn \cup {0}])
        /\ Len(<<>>) = 0
    OBVIOUS
  <2>2. GPRS_EVENT_MAX >= 0 /\ APP_EVENT_MAX >= 0 /\ MaxOwed >= 0
    BY GprsAssumption
  <2> QED BY <1>1, <2>1, <2>2 DEF Init, GprsInit, TypeOK, State, Command
<1> QED BY <1>2, <1>3 DEF Init, GprsInit, IInv, Fresh, Numbered, Pending, LatePrompt

LEMMA DispatchStep == IInv /\ Dispatch => IInv'
<1> SUFFICES ASSUME IInv, Dispatch PROVE IInv'
  OBVIOUS
<1>1. Acts /\ UNCHANGED <<user, missed>>
  BY DEF Dispatch, Acts
<1>2. unsent' \in Seq(Sn) /\ is_sending' \in BOOLEAN /\ missed' \in BOOLEAN
  BY <1>1 DEF IInv, TypeOK, user
<1>3. TypeOK'
  BY <1>1, <1>2, Awake, QueueStep, AppStep, CountStep, OwedStep, RestStep
     DEF TypeOK, QueueTyped, AppTyped, OwedTyped
<1>4. Fresh' /\ Numbered'
  BY <1>1, Awake, OwedStep, GprsAssumption DEF Fresh, Numbered, OwedTyped
<1> QED BY <1>1, <1>3, <1>4, WaitStep DEF IInv

\* Only a running timer fires, and the task has started it in some state.
LEMMA TimerStep == IInv /\ TimerFires => IInv'
<1> SUFFICES ASSUME IInv, TimerFires PROVE IInv'
  OBVIOUS
<1>1. PICK t \in timers : timers' = timers \ {t} /\ gprsq' = Post(gprsq, t)
  BY DEF TimerFires
<1>2. /\ UNCHANGED <<fsm, gprs_cmd_type, gprs_cur_power_flag, gprs_if_connected, count, buf,
                     gprs_sn, rx, appq, owed, delivered, unsent, is_sending>>
      /\ missed' = (missed \/ Len(gprsq) >= GPRS_EVENT_MAX)
  BY DEF TimerFires, modem, user
<1>3. t \in Timer /\ t \in Events /\ t \in Moving /\ Moving' = Moving
  BY <1>1, <1>2 DEF IInv, TypeOK, Timer, Events, Moving
<1>4. /\ QueueTyped' /\ ToSet(gprsq) \subseteq ToSet(gprsq')
      /\ Len(gprsq) < GPRS_EVENT_MAX => t \in ToSet(gprsq')
  BY <1>1, <1>3, Posted DEF IInv, TypeOK, QueueTyped
<1>5. missed' \/ t \in ToSet(gprsq')
  <2>1. Len(gprsq) \in Nat /\ GPRS_EVENT_MAX \in Nat
    BY GprsAssumption DEF IInv, TypeOK
  <2>2. Len(gprsq) < GPRS_EVENT_MAX \/ Len(gprsq) >= GPRS_EVENT_MAX
    BY <2>1
  <2> QED BY <1>2, <1>4, <2>2
<1>6. TypeOK'
  BY <1>1, <1>2, <1>4 DEF IInv, TypeOK, QueueTyped
<1>7. fsm # "none" /\ Fresh'
  BY <1>1, <1>2 DEF IInv, Fresh
<1>8. Numbered'
  BY <1>2, <1>7 DEF IInv, Numbered
<1>9. Pending' /\ LatePrompt'
  BY <1>3, <1>5 DEF Pending, LatePrompt, Awaited
<1> QED BY <1>6, <1>7, <1>8, <1>9 DEF IInv

LEMMA ModemStep == IInv /\ (ModemAnswers \/ ModemSilent) => IInv'
<1> SUFFICES ASSUME IInv, ModemAnswers \/ ModemSilent PROVE IInv'
  OBVIOUS
<1> DEFINE R == [cmd : Asked, sn : Sn \cup {0}]
           h == Head(owed)
<1>1. /\ owed \in Seq(R) /\ owed # <<>> /\ Len(owed) <= MaxOwed /\ MaxOwed \in Nat
      /\ h \in R /\ (h.cmd = "SEND_DATA" => h.sn \in Sn)
      /\ Tail(owed) \in Seq(R) /\ Len(Tail(owed)) = Len(owed) - 1 /\ Len(owed) > 0
      /\ \A i \in 1..Len(Tail(owed)) : Tail(owed)[i] = owed[i + 1] /\ i + 1 \in 1..Len(owed)
  <2>1. owed \in Seq(R) /\ owed # <<>> /\ Len(owed) <= MaxOwed /\ MaxOwed \in Nat
    BY GprsAssumption DEF IInv, TypeOK, ModemAnswers, ModemSilent
  <2>2. h = owed[1] /\ 1 \in 1..Len(owed)
    BY <2>1
  <2> HIDE DEF R
  <2>3. /\ h \in R /\ Tail(owed) \in Seq(R) /\ Len(Tail(owed)) = Len(owed) - 1 /\ Len(owed) > 0
        /\ \A i \in 1..Len(Tail(owed)) : Tail(owed)[i] = owed[i + 1] /\ i + 1 \in 1..Len(owed)
    BY <2>1
  <2> QED BY <2>1, <2>2, <2>3 DEF IInv, Numbered
<1>2. \A i \in 1..Len(Tail(owed)) : Tail(owed)[i].cmd = "SEND_DATA" => Tail(owed)[i].sn \in Sn
  BY <1>1 DEF IInv, Numbered
<1>3. fsm # "none"
  BY <1>1 DEF IInv, Fresh
<1>4. UNCHANGED <<private, gprs_sn, appq, user, missed>>
  BY DEF ModemAnswers, ModemSilent
<1>5. /\ QueueTyped' /\ ToSet(gprsq) \subseteq ToSet(gprsq')
      /\ rx' \subseteq Token /\ delivered' \subseteq Sn
  <2>1. CASE ModemSilent
    BY <2>1 DEF ModemSilent, IInv, TypeOK, QueueTyped
  <2>2. CASE ModemAnswers
    <3>1. PICK ans \in Answers(h.cmd) :
            /\ rx' = rx \cup ans
            /\ gprsq' = Post(gprsq, "UART")
            /\ delivered' = IF h.cmd = "SEND_DATA" /\ "OK" \in ans
                            THEN delivered \cup {h.sn} ELSE delivered
      BY <2>2 DEF ModemAnswers
    <3>2. ans \subseteq Token
      BY <1>1, GprsAssumption
    <3>3. QueueTyped' /\ ToSet(gprsq) \subseteq ToSet(gprsq')
      BY <3>1, Posted DEF IInv, TypeOK, Events, QueueTyped
    <3> QED BY <1>1, <3>1, <3>2, <3>3 DEF IInv, TypeOK
  <2> QED BY <2>1, <2>2
<1>6. OwedTyped'
  <2> DEFINE o == [h EXCEPT !.cmd = "opening"]
  <2>1. owed' = Tail(owed) \/ owed' = Append(Tail(owed), o)
    BY DEF ModemAnswers, ModemSilent
  <2>2. o \in R /\ o.cmd = "opening"
    BY <1>1 DEF Asked
  <2> HIDE DEF o, R, h
  <2>3. CASE owed' = Tail(owed)
    BY <1>1, <1>2, <2>3 DEF OwedTyped, R
  <2>4. CASE owed' = Append(Tail(owed), o)
    <3>1. owed' \in Seq(R) /\ Len(owed') = Len(owed)
      BY <1>1, <2>2, <2>4
    <3>2. \A i \in 1..Len(owed') : owed'[i] = o \/ (i \in 1..Len(Tail(owed)) /\ owed'[i] = Tail(owed)[i])
      BY <1>1, <2>2, <2>4
    <3> QED BY <1>1, <1>2, <2>2, <3>1, <3>2 DEF OwedTyped, R
  <2> QED BY <2>1, <2>3, <2>4
<1>7. TypeOK'
  BY <1>4, <1>5, <1>6 DEF IInv, TypeOK, QueueTyped, OwedTyped, private, user
<1>8. Fresh' /\ Numbered'
  BY <1>3, <1>4, <1>6 DEF IInv, Fresh, Numbered, OwedTyped, private
<1>9. Pending' /\ LatePrompt'
  BY <1>4, <1>5 DEF IInv, Pending, LatePrompt, Awaited, Moving, private, user
<1> QED BY <1>7, <1>8, <1>9 DEF IInv

LEMMA SendsStep == IInv /\ UserSends => IInv'
<1> SUFFICES ASSUME IInv, UserSends PROVE IInv'
  OBVIOUS
<1>1. /\ gprsq = <<>> /\ Head(unsent) \in Sn /\ gprs_sn' = Head(unsent)
      /\ gprsq' = Post(gprsq, "SEND") /\ is_sending' = TRUE
      /\ UNCHANGED <<private, rx, appq, modem, unsent, missed>>
  BY DEF IInv, TypeOK, UserSends, TranSend
<1>2. QueueTyped' /\ ToSet(gprsq') = {"SEND"}
  <2>1. Len(gprsq) = 0 /\ ToSet(gprsq) = {} /\ gprsq \in Seq(Events) /\ GPRS_EVENT_MAX \in Nat \ {0}
    BY <1>1, EmptySet, GprsAssumption DEF IInv, TypeOK
  <2>2. "SEND" \in Events /\ Len(gprsq) <= GPRS_EVENT_MAX /\ Len(gprsq) < GPRS_EVENT_MAX
    BY <2>1 DEF Events
  <2>3. /\ gprsq' \in Seq(Events) /\ Len(gprsq') <= GPRS_EVENT_MAX
        /\ ToSet(gprsq') \subseteq {"SEND"} /\ "SEND" \in ToSet(gprsq')
    BY <1>1, <2>1, <2>2, Posted
  <2> QED BY <2>3 DEF QueueTyped
<1>3. TypeOK'
  BY <1>1, <1>2 DEF IInv, TypeOK, QueueTyped, private, modem
<1>4. Fresh' /\ Numbered'
  BY <1>1, <1>2, GprsAssumption DEF IInv, Fresh, Numbered, private, modem
<1>5. Pending' /\ LatePrompt'
  BY <1>2 DEF Pending, LatePrompt, Awaited, Moving
<1> QED BY <1>3, <1>4, <1>5 DEF IInv

LEMMA HearsStep == IInv /\ UserHears => IInv'
<1> SUFFICES ASSUME IInv, UserHears PROVE IInv'
  OBVIOUS
<1>1. /\ is_sending' = FALSE /\ UNCHANGED <<private, gprsq, gprs_sn, rx, modem, missed>>
      /\ appq' = Tail(appq) /\ appq # <<>>
      /\ unsent' = IF Head(appq).ok THEN RemoveFirst(unsent, Head(appq).sn) ELSE unsent
  BY DEF UserHears
<1>2. unsent' \in Seq(Sn)
  <2>1. unsent \in Seq(Sn)
    BY DEF IInv, TypeOK
  <2>2. \A n : RemoveFirst(unsent, n) \in Seq(Sn)
    BY <2>1, RemovedFirst
  <2> QED BY <1>1, <2>1, <2>2
<1>3. AppTyped'
  <2> DEFINE R == [sn : Sn \cup {0}, ok : BOOLEAN]
  <2>1. appq \in Seq(R) /\ Len(appq) <= APP_EVENT_MAX /\ APP_EVENT_MAX \in Nat
    BY GprsAssumption DEF IInv, TypeOK
  <2> HIDE DEF R
  <2>2. Tail(appq) \in Seq(R) /\ Len(Tail(appq)) <= APP_EVENT_MAX
    BY <1>1, <2>1
  <2> QED BY <1>1, <2>2 DEF AppTyped, R
<1>4. TypeOK'
  BY <1>1, <1>2, <1>3 DEF IInv, TypeOK, AppTyped, private, modem
<1> QED BY <1>1, <1>4 DEF IInv, Fresh, Numbered, Pending, LatePrompt, private, modem

LEMMA StepI == IInv /\ [Next]_gvars => IInv'
<1>1. IInv /\ UNCHANGED gvars => IInv'
  BY DEF IInv, TypeOK, Fresh, Numbered, Pending, LatePrompt, Awaited, Moving, gvars, task, private,
         modem, user
<1> QED BY <1>1, DispatchStep, TimerStep, ModemStep, SendsStep, HearsStep DEF Next

\* Whatever the modem answers and the timers do (gprs_tx.c, gprs_rx.c), these facts
\* hold together; the properties follow from them.
THEOREM GprsInvariant == Spec => []IInv
<1> QED BY InitI, StepI, PTL DEF Spec

-----------------------------------------------------------------------------
(* What the runs check.                                                     *)

\* The state keeps its types and the three queues their capacities, whatever
\* order timers, results and answers come in (gprs_tx.c, gprs_rx.c).
THEOREM GprsTyped == Spec => []TypeOK
<1>1. IInv => TypeOK
  BY DEF IInv
<1> QED BY <1>1, GprsInvariant, PTL

\* No signal reaches FSM_DISPATCH before a frame has chosen a state.
THEOREM NoSignalBeforeState == Spec => []StateKnown
<1>1. IInv => StateKnown
  <2> SUFFICES ASSUME IInv, gprsq # <<>>, fsm = "none" PROVE Head(gprsq) \notin Signal
    BY DEF StateKnown
  <2>1. gprsq \in Seq(Events) /\ ToSet(gprsq) \subseteq {"SEND"}
    BY DEF IInv, TypeOK, Fresh
  <2>2. Head(gprsq) = "SEND"
    BY <2>1, TailSet
  <2> QED BY <2>2 DEF Signal
<1> QED BY <1>1, GprsInvariant, PTL

\* However often the modem is restarted and whatever it answers, a frame in
\* progress has an event, a timer or a result that leads on, unless a timer
\* found the event queue full.
THEOREM FrameNeverStranded == Spec => []NeverStranded
<1>1. IInv => NeverStranded
  <2> SUFFICES ASSUME IInv, is_sending, timers = {}, appq = <<>>, ~missed PROVE gprsq # <<>>
    BY DEF NeverStranded
  <2>1. gprsq \in Seq(Events) /\ ToSet(gprsq) # {}
    BY DEF IInv, TypeOK, Pending, Awaited
  <2> QED BY <2>1, SetOfSeq
<1> QED BY <1>1, GprsInvariant, PTL

-----------------------------------------------------------------------------
(* The task implements SendService, step by step.                           *)

HasData == gprs_cmd_type = "SEND_DATA"

LEMMA ServiceInit == Init => Service!Init
  BY GprsAssumption DEF Init, GprsInit, Service!Init

\* What a handler can mean to the user of the service.
LEMMA Meaning ==
    ASSUME IInv, Acts
    PROVE  \/ UNCHANGED <<appq, gprs_cmd_type>>
           \/ Report(FALSE) /\ UNCHANGED gprs_cmd_type
           \/ HasData /\ ~HasData' /\ \E ok \in BOOLEAN : Report(ok)
           \/ UNCHANGED appq /\ ~HasData'
           \/ UNCHANGED appq /\ HasData'
<1>1. CASE SendEvent \/ TimeoutEvent \/ NoDataEvent \/ SendDataErrorEvent
  BY <1>1 DEF SendEvent, TimeoutEvent, NoDataEvent, SendDataErrorEvent, private
<1>2. CASE StateSignal
  BY <1>2 DEF StateSignal, StateInit, PowerOnTimeout, PowerOffTimeout, ConnectTimeout, CommandTimeout,
     SendCommand, SendLenOrData, SignalIgnored, Write, private, HasData
<1>3. CASE SendDataAnswer
  <2>1. Found("OK") \in BOOLEAN
    BY DEF Found
  <2> QED BY <1>3, <2>1 DEF SendDataAnswer, Answered, HasData
<1>4. CASE UnsolicitedMessage \/ UnexpectedAnswer \/ Ate0Answer \/ CgattAnswer \/ QiopenAnswer \/ SendLenAnswer
  BY <1>4 DEF UnsolicitedMessage, UnexpectedAnswer, Ate0Answer, CgattAnswer, QiopenAnswer, SendLenAnswer
<1> QED BY <1>1, <1>2, <1>3, <1>4 DEF Acts, UartEvent

LEMMA ServiceReport ==
    ASSUME gprs_sn \in Sn, gprs_sn' = gprs_sn, NEW ok \in BOOLEAN, Report(ok),
           \/ ~ok /\ UNCHANGED gprs_cmd_type
           \/ HasData /\ ~HasData'
    PROVE  [Service!Next]_(Service!vars)
<1>1. CASE Len(appq) < APP_EVENT_MAX
  <2>1. appq' = Append(appq, [sn |-> gprs_sn, ok |-> ok])
    BY <1>1 DEF Report
  <2>2. ok => HasData
    OBVIOUS
  <2>3. HasData' \in IF ok THEN {FALSE} ELSE {HasData, FALSE}
    BY DEF HasData
  <2>4. Service!Complete
    BY <2>1, <2>2, <2>3 DEF Service!Complete, HasData
  <2> QED BY <2>4 DEF Service!Next
<1>2. CASE ~(Len(appq) < APP_EVENT_MAX)
  <2>1. appq' = appq
    BY <1>2 DEF Report
  <2>2. CASE UNCHANGED gprs_cmd_type
    BY <2>1, <2>2 DEF Service!vars
  <2>3. CASE ~HasData'
    <3>1. Service!Lapse
      BY <2>1, <2>3 DEF Service!Lapse, HasData
    <3> QED BY <3>1 DEF Service!Next
  <2> QED BY <2>2, <2>3
<1> QED BY <1>1, <1>2

LEMMA ServiceStep == IInv /\ [Next]_gvars => [Service!Next]_(Service!vars)
<1> SUFFICES ASSUME IInv, [Next]_gvars PROVE [Service!Next]_(Service!vars)
  OBVIOUS
<1>1. CASE Dispatch
  <2>1. Acts /\ gprs_sn \in Sn /\ gprs_sn' = gprs_sn
    BY <1>1, Awake DEF Dispatch, Acts
  <2>2. CASE UNCHANGED <<appq, gprs_cmd_type>>
    BY <2>1, <2>2 DEF Service!vars
  <2>3. ASSUME NEW ok \in BOOLEAN, Report(ok),
               (~ok /\ UNCHANGED gprs_cmd_type) \/ (HasData /\ ~HasData')
        PROVE  [Service!Next]_(Service!vars)
    BY <2>1, <2>3, ServiceReport
  <2>4. CASE UNCHANGED appq /\ ~HasData'
    <3>1. Service!Lapse
      BY <2>1, <2>4 DEF Service!Lapse, HasData
    <3> QED BY <3>1 DEF Service!Next
  <2>5. CASE UNCHANGED appq /\ HasData'
    <3>1. Service!Transmit
      BY <2>1, <2>5 DEF Service!Transmit, HasData
    <3> QED BY <3>1 DEF Service!Next
  <2> QED BY <2>1, <2>2, <2>3, <2>4, <2>5, Meaning
<1>2. CASE TimerFires \/ ModemAnswers \/ ModemSilent
  BY <1>2 DEF TimerFires, ModemAnswers, ModemSilent, private, Service!vars
<1>3. CASE UserSends
  <2>1. gprs_sn' \in Sn /\ UNCHANGED <<appq, gprs_cmd_type>>
    BY <1>3 DEF UserSends, TranSend, IInv, TypeOK, private
  <2>2. Service!Put
    BY <2>1 DEF Service!Put
  <2> QED BY <2>2 DEF Service!Next
<1>4. CASE UserHears
  <2>1. Service!Collect
    BY <1>4 DEF UserHears, private, Service!Collect
  <2> QED BY <2>1 DEF Service!Next
<1>5. CASE UNCHANGED gvars
  BY <1>5 DEF gvars, task, private, Service!vars
<1> QED BY <1>1, <1>2, <1>3, <1>4, <1>5 DEF Next

\* Every answer of gprs_send_cb carries the number in the mailbox, and TRUE is
\* said at most once for data given to the modem: the task implements SendService.
THEOREM GprsImplementsService == Spec => ImplementsService
<1> QED BY ServiceInit, ServiceStep, InitI, GprsInvariant, PTL DEF Spec, ImplementsService, Service!Spec
==============================================================================
