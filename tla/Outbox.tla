-------------------------------- MODULE Outbox --------------------------------
(***************************************************************************)
(* The sending side of the application (app_send.c, app_task.c) for the     *)
(* GPRS channel, the only one in use: ssn_get_status answers FALSE.  The    *)
(* application's thread takes one event at a time; the GPRS task (higher    *)
(* priority) and the bluetooth task (higher still) run between any two of   *)
(* its calls and share its variables without a critical section.            *)
(*                                                                         *)
(* work holds the calls the handler in progress has still to make.  What    *)
(* the bluetooth side does is left to BluTask and AppBlu, a superset of its *)
(* effects here; module BluOutbox has the code in full.  The GPRS task is   *)
(* what SendService says of it.                                             *)
(***************************************************************************)
EXTENDS SendList

CONSTANTS
    APP_EVENT_MAX,   \* 10, the event store of the application's task
    Kinds,           \* the events that make it send: "report", "alarm", "unlock"
    MaxSn            \* bound: once sending_frame_sn is there no frame is added; no bound if > SN_MAX

ASSUME OutboxAssumption == /\ APP_EVENT_MAX \in Nat \ {0} /\ MaxSn \in Nat
                           /\ Kinds \subseteq {"report", "alarm", "unlock"}

VARIABLES
    list,              \* box_send_list
    sn,                \* sending_frame_sn
    is_sending,
    blu_is_sending,
    work, held,        \* the application: calls still to make, the frame box_send fetched
    appq,              \* the events of its task
    mailbox, busy,     \* the GPRS task: gprs_sn, and whether a result is to come
    lost               \* history: a result of the GPRS task found the queue full

vars == <<list, sn, is_sending, blu_is_sending, work, held, appq, mailbox, busy,
          lost>>

Calls  == {"blu", "blu_put", "add", "send", "put", "mark"}
Sent(id, ok) == [ev |-> "SENT", sn |-> id, ok |-> ok]
Make(kind)   == [ev |-> "MAKE", kind |-> kind]

-----------------------------------------------------------------------------
(* The calls.                                                               *)

\* osel_post: a full queue drops the event and nobody looks at the result.
Post(q, e) == IF Len(q) < APP_EVENT_MAX THEN Append(q, e) ELSE q

\* box_send_list_fetch: 0xFFFF when there is no frame.
Fetched(l) == IF l = <<>> THEN SN_MAX ELSE Head(l).id

\* box_send reports a frame as not sent while bluetooth is sending, and goes on.
Complaint(q, l, blu) == IF blu THEN Post(q, Sent(Fetched(l), FALSE)) ELSE q

\* box_send_list_add
AddFrame == IF sn < MaxSn
            THEN sn' = NextSn(sn) /\ list' = ListAdd(list, Entry(NextSn(sn), HIGH))
            ELSE UNCHANGED <<sn, list>>

\* gprs_tran_send
TranSend(id) == mailbox' = id /\ busy' = TRUE

\* box_send in one go, as the bluetooth task runs it, in state l, sending, blu.
BoxSend(l, sending, blu) ==
    IF sending
    THEN is_sending' = sending /\ UNCHANGED <<appq, mailbox, busy>>
    ELSE /\ appq' = Complaint(appq, l, blu)
         /\ is_sending' = (l # <<>>)
         /\ IF l = <<>> THEN UNCHANGED <<mailbox, busy>> ELSE TranSend(Head(l).id)

\* The calls each handler makes.
Steps(kind) == CASE kind = "report" -> <<"add", "send">>
                 [] kind = "alarm"  -> <<"blu", "add", "send">>
                 [] kind = "unlock" -> <<"blu", "add", "send", "add", "send">>

\* app_task_init queues two frames, then calls box_send.
Init ==
    /\ list = <<>> /\ sn = 0
    /\ is_sending = FALSE /\ blu_is_sending = FALSE
    /\ work = <<"add", "add", "send">> /\ held = 0
    /\ appq = <<>>
    /\ mailbox = 0 /\ busy = FALSE
    /\ lost = FALSE

-----------------------------------------------------------------------------
(* The application's thread.                                                *)
gprs == <<mailbox, busy, lost>>

Idle     == work = <<>>
Doing(c) == ~Idle /\ Head(work) = c
Done     == work' = Tail(work)

\* A timer, an interrupt or a sensor posts an event.
Request(kind) ==
    /\ sn < MaxSn
    /\ Len(appq) < APP_EVENT_MAX
    /\ appq' = Append(appq, Make(kind))
    /\ UNCHANGED <<list, sn, is_sending, blu_is_sending, work, held, gprs>>

\* An unlock handler clears is_sending, whatever is going on.
HandleRequest ==
    /\ Idle /\ appq # <<>> /\ Head(appq).ev = "MAKE"
    /\ work' = Steps(Head(appq).kind)
    /\ is_sending' = (is_sending /\ Head(appq).kind # "unlock")
    /\ appq' = Tail(appq)
    /\ UNCHANGED <<list, sn, blu_is_sending, held, gprs>>

\* Faulty: only a frame that was sent ends the sending.
HandleResultSticks ==
    /\ Idle /\ appq # <<>> /\ Head(appq).ev = "SENT"
    /\ list' = ListSent(list, Head(appq).sn, Head(appq).ok)
    /\ is_sending' = (is_sending /\ ~Head(appq).ok)
    /\ work' = <<"send">>
    /\ appq' = Tail(appq)
    /\ UNCHANGED <<sn, blu_is_sending, held, gprs>>

\* Faulty: a frame that was not sent waits for the next request.
HandleResultLazy ==
    /\ Idle /\ appq # <<>> /\ Head(appq).ev = "SENT"
    /\ list' = ListSent(list, Head(appq).sn, Head(appq).ok)
    /\ is_sending' = FALSE
    /\ work' = IF Head(appq).ok THEN <<"send">> ELSE <<>>
    /\ appq' = Tail(appq)
    /\ UNCHANGED <<sn, blu_is_sending, held, gprs>>

\* box_data_sent_event_handle
HandleResult ==
    /\ Idle /\ appq # <<>> /\ Head(appq).ev = "SENT"
    /\ list' = ListSent(list, Head(appq).sn, Head(appq).ok)
    /\ is_sending' = FALSE
    /\ work' = <<"send">>
    /\ appq' = Tail(appq)
    /\ UNCHANGED <<sn, blu_is_sending, held, gprs>>

\* box_send_request
AppAdd ==
    /\ Doing("add") /\ AddFrame /\ Done
    /\ UNCHANGED <<is_sending, blu_is_sending, held, appq, gprs>>

\* box_send up to the frame it fetched.
AppSend ==
    /\ Doing("send")
    /\ IF is_sending
       THEN Done /\ UNCHANGED <<is_sending, held, appq>>
       ELSE /\ appq' = Complaint(appq, list, blu_is_sending)
            /\ IF list = <<>>
               THEN is_sending' = FALSE /\ Done /\ UNCHANGED held
               ELSE /\ held' = Head(list).id
                    /\ work' = <<"put", "mark">> \o Tail(work)
                    /\ UNCHANGED is_sending
    /\ UNCHANGED <<list, sn, blu_is_sending, gprs>>

AppPut ==
    /\ Doing("put") /\ TranSend(held) /\ Done
    /\ UNCHANGED <<list, sn, is_sending, blu_is_sending, held, appq, lost>>

\* Only now: the GPRS task may have answered already.
AppMark ==
    /\ Doing("mark") /\ is_sending' = TRUE /\ Done
    /\ UNCHANGED <<list, sn, blu_is_sending, held, appq, gprs>>

\* box_blu_send_request at the level of the application: bluetooth is busy or
\* not connected, or takes the frame.
AppBlu ==
    /\ Doing("blu")
    /\ Done \/ (~blu_is_sending /\ work' = <<"blu_put">> \o Tail(work))
    /\ UNCHANGED <<list, sn, is_sending, blu_is_sending, held, appq, gprs>>

AppBluPut ==
    /\ Doing("blu_put") /\ blu_is_sending' = TRUE /\ Done
    /\ UNCHANGED <<list, sn, is_sending, held, appq, gprs>>

App == HandleRequest \/ HandleResult \/ AppAdd \/ AppSend \/ AppPut \/ AppMark
       \/ AppBlu \/ AppBluPut

-----------------------------------------------------------------------------
(* The tasks that preempt it.                                               *)

\* gprs_send_cb in the GPRS task.  After its answer it may still owe another.
Complete(ok) ==
    /\ busy
    /\ appq' = Post(appq, Sent(mailbox, ok))
    /\ lost' = (lost \/ Len(appq) >= APP_EVENT_MAX)
    /\ busy' \in BOOLEAN
    /\ UNCHANGED <<list, sn, is_sending, blu_is_sending, work, held, mailbox>>

\* A handler of the bluetooth task: it may set blu_is_sending or clear it, and
\* then restart the sending (box_blu_send on an empty list) or send a frame of
\* its own (blu_cmd_data_recv_handler).
BluRestart == /\ BoxSend(list, FALSE, blu_is_sending') /\ UNCHANGED <<list, sn>>
BluRequest == /\ AddFrame /\ BoxSend(list', is_sending, blu_is_sending')
BluTask ==
    /\ blu_is_sending' \in BOOLEAN
    /\ \/ UNCHANGED <<list, sn, is_sending, appq, mailbox, busy>>
       \/ BluRestart
       \/ BluRequest
    /\ UNCHANGED <<work, held, lost>>

Next == App \/ (\E ok \in BOOLEAN : Complete(ok)) \/ BluTask
        \/ \E kind \in Kinds : Request(kind)

Spec == Init /\ [][Next]_vars

\* The kernel runs a task that has work, and the GPRS task answers, with
\* success from time to time.
FairSpec == Spec /\ WF_vars(App) /\ WF_vars(\E ok \in BOOLEAN : Complete(ok))
                 /\ SF_vars(Complete(TRUE))

-----------------------------------------------------------------------------
Id == 0..SN_MAX

TypeOK ==
    /\ list \in Seq([id : Id, priority : {LOW, HIGH}]) /\ Len(list) <= ListSize
    /\ sn \in Id /\ held \in Id /\ mailbox \in Id
    /\ {is_sending, blu_is_sending, busy, lost} \subseteq BOOLEAN
    /\ work \in Seq(Calls)
    /\ appq \in Seq([ev : {"SENT"}, sn : Id, ok : BOOLEAN] \cup [ev : {"MAKE"}, kind : Kinds])
    /\ Len(appq) <= APP_EVENT_MAX

\* Nothing will clear is_sending any more, except another kind of event.
Stuck == is_sending /\ Idle /\ ~busy /\ \A i \in 1..Len(appq) : appq[i].ev # "SENT"

\* is_sending is set after the frame is handed over and cleared by two other
\* tasks: the sending side waits for nobody only if a result found the queue of
\* the application full.
NoStall == Stuck => lost

\* The list is a first-in first-out queue that forgets only its oldest frame when
\* full, and the frame a result removes is its head, after it was reported sent:
\* whatever the interleaving of the results, of the complaints while bluetooth
\* is sending and of the frames the bluetooth task adds.
Confirmed == {r.sn : r \in {e \in Range(appq) : e.ev = "SENT" /\ e.ok}}
Fifo == INSTANCE DropOldest WITH
            Frame <- Id, Capacity <- ListSize, queue <- [i \in 1..Len(list) |-> list[i].id],
            confirmed <- Confirmed
ImplementsFifo == Fifo!Spec

\* A frame that waits leaves the list, sent or pushed out, as long as no result
\* was lost: box_send is called again after every failure.
FramesLeave == \A id \in Id : id \in Ids(list) ~> (id \notin Ids(list) \/ lost)
=============================================================================
