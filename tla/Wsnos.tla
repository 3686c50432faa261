-------------------------------- MODULE Wsnos --------------------------------
(***************************************************************************)
(* The WSNOS kernel on the MSP430: event queues, the ready table, the      *)
(* preemptive run-to-completion scheduler, interrupts and the priority     *)
(* ceiling mutex (wsnos_sched.c, wsnos_equeue.c, ports/msp430).            *)
(*                                                                         *)
(* There is one C stack.  frames is that stack, newest last; an empty      *)
(* stack is main() in its idle loop.  A "select" or "drain" frame is       *)
(* osel_schedule() with interrupts locked, "task" is osel_schedule()       *)
(* inside a task's handler, "signal" is a post that has queued its event   *)
(* and not yet reached OSEL_POST_SIGNAL, "mutex" a critical region.        *)
(***************************************************************************)
EXTENDS Equeue, FiniteSets

CONSTANTS
    OSEL_MAX_PRIO,    \* priorities are 0 .. OSEL_MAX_PRIO - 1
    QLen,             \* length of each task's event store
    MaxPosts,         \* bound: posts in one behaviour
    MaxIsrs           \* bound: interrupts in one behaviour

Prio == 0 .. OSEL_MAX_PRIO - 1

ASSUME PrioAssumption  == OSEL_MAX_PRIO \in Nat \ {0}
ASSUME QLenAssumption  == QLen \in [Prio -> Nat \ {0}]
ASSUME BoundAssumption == MaxPosts \in Nat /\ MaxIsrs \in Nat

VARIABLES
    equeue,           \* g_task_list[prio].equeue
    osel_rdy_tbl,     \* the priorities whose ready bit is set
    osel_curr_prio,   \* priority ceiling of the running code, -1 in main()
    osel_int_nest,    \* interrupt nesting
    frames,           \* the C stack
    posts, isrs       \* spent bounds

vars == <<equeue, osel_rdy_tbl, osel_curr_prio, osel_int_nest, frames, posts, isrs>>

Level == -1 .. OSEL_MAX_PRIO
Frame == [kind : {"select", "drain", "task", "signal", "isr", "mutex"},
          pin : Level, prio : Level]

Main     == [kind |-> "main", pin |-> -1, prio |-> -1]
TopFrame == IF frames = <<>> THEN Main ELSE frames[Len(frames)]
Push(f)  == frames' = Append(frames, f)
Pop      == frames' = SubSeq(frames, 1, Len(frames) - 1)
Become(f) == frames' = [frames EXCEPT ![Len(frames)] = f]

\* Faulty: a nested osel_schedule() forgets whom it interrupted.
ScheduleFromMain(pin) == [kind |-> "select", pin |-> -1, prio |-> -1]

\* osel_schedule() on entry: pin = osel_curr_prio.
Schedule(pin) == [kind |-> "select", pin |-> pin, prio |-> pin]

InCode     == TopFrame.kind \in {"main", "task", "mutex"}
IntEnabled == InCode \/ (TopFrame.kind = "signal" /\ osel_int_nest = 0)

Init ==
    /\ equeue \in {[p \in Prio |-> EqueueInit(QLen[p], [i \in 0 .. QLen[p] - 1 |-> e])] : e \in Event}
    /\ osel_rdy_tbl = {}
    /\ osel_curr_prio = -1
    /\ osel_int_nest = 0
    /\ frames = <<Schedule(-1)>>              \* osel_run()
    /\ posts = 0
    /\ isrs = 0

\* osel_post / osel_equeue_post from a task, from main() or from an ISR.
PostAccepted(p, e) ==
    /\ InCode \/ TopFrame.kind = "isr"
    /\ posts < MaxPosts
    /\ HasRoom(equeue[p])
    /\ equeue' = [equeue EXCEPT ![p] = EqueuePost(@, e)]
    /\ osel_rdy_tbl' = osel_rdy_tbl \cup {p}
    /\ Push([kind |-> "signal", pin |-> osel_curr_prio, prio |-> p])
    /\ posts' = posts + 1
    /\ UNCHANGED <<osel_curr_prio, osel_int_nest, isrs>>

\* A full queue: osel_equeue_post returns FALSE, which osel_post ignores.
PostRefused(p, e) ==
    /\ InCode \/ TopFrame.kind = "isr"
    /\ posts < MaxPosts
    /\ ~HasRoom(equeue[p])
    /\ posts' = posts + 1
    /\ UNCHANGED <<equeue, osel_rdy_tbl, osel_curr_prio, osel_int_nest, frames, isrs>>

\* Faulty: a post only marks the task ready.
PostSignalLazy ==
    /\ TopFrame.kind = "signal"
    /\ Pop
    /\ UNCHANGED <<equeue, osel_rdy_tbl, osel_curr_prio, osel_int_nest, posts, isrs>>

\* OSEL_POST_SIGNAL: schedule at once, unless inside an interrupt.
PostSignal ==
    /\ TopFrame.kind = "signal"
    /\ IF osel_int_nest = 0 THEN Become(Schedule(osel_curr_prio)) ELSE Pop
    /\ UNCHANGED <<equeue, osel_rdy_tbl, osel_curr_prio, osel_int_nest, posts, isrs>>

\* osel_schedule: the highest ready priority is above pin.
SelectTask ==
    /\ TopFrame.kind = "select"
    /\ \E prio \in osel_rdy_tbl :
          /\ \A r \in osel_rdy_tbl : r <= prio
          /\ prio > TopFrame.pin
          /\ osel_curr_prio' = prio
          /\ Become([kind |-> "drain", pin |-> TopFrame.pin, prio |-> prio])
    /\ UNCHANGED <<equeue, osel_rdy_tbl, osel_int_nest, posts, isrs>>

\* osel_schedule: nothing ready above pin, return to the caller.
ScheduleReturn ==
    /\ TopFrame.kind = "select"
    /\ \A r \in osel_rdy_tbl : r <= TopFrame.pin
    /\ osel_curr_prio' = TopFrame.pin
    /\ Pop
    /\ UNCHANGED <<equeue, osel_rdy_tbl, osel_int_nest, posts, isrs>>

\* The inner loop of osel_schedule takes one event and enters the task.
TakeEvent ==
    /\ TopFrame.kind = "drain"
    /\ HasEvent(equeue[TopFrame.prio])
    /\ equeue' = [equeue EXCEPT ![TopFrame.prio] = EqueueGet(@)]
    /\ Become([TopFrame EXCEPT !.kind = "task"])
    /\ UNCHANGED <<osel_rdy_tbl, osel_curr_prio, osel_int_nest, posts, isrs>>

\* Faulty: the group bit goes with the first drained task.
ClearReadyGroup(prio) == {}

\* osel_rdy_tbl and osel_rdy_grp lose one task.
ClearReady(prio) == osel_rdy_tbl \ {prio}

\* The queue is empty: the ready bit is cleared.
QueueDrained ==
    /\ TopFrame.kind = "drain"
    /\ ~HasEvent(equeue[TopFrame.prio])
    /\ osel_rdy_tbl' = ClearReady(TopFrame.prio)
    /\ Become([TopFrame EXCEPT !.kind = "select"])
    /\ UNCHANGED <<equeue, osel_curr_prio, osel_int_nest, posts, isrs>>

\* The task's handler and threads have run to completion.
TaskReturn ==
    /\ TopFrame.kind = "task"
    /\ Become([TopFrame EXCEPT !.kind = "drain"])
    /\ UNCHANGED <<equeue, osel_rdy_tbl, osel_curr_prio, osel_int_nest, posts, isrs>>

\* OSEL_ISR_ENTRY
IsrEntry ==
    /\ IntEnabled
    /\ isrs < MaxIsrs
    /\ osel_int_nest' = osel_int_nest + 1
    /\ Push([kind |-> "isr", pin |-> osel_curr_prio, prio |-> osel_curr_prio])
    /\ isrs' = isrs + 1
    /\ UNCHANGED <<equeue, osel_rdy_tbl, osel_curr_prio, posts>>

\* Faulty: the outermost interrupt returns to the code it interrupted.
IsrExitDirect ==
    /\ TopFrame.kind = "isr"
    /\ osel_int_nest' = osel_int_nest - 1
    /\ Pop
    /\ UNCHANGED <<equeue, osel_rdy_tbl, osel_curr_prio, posts, isrs>>

\* OSEL_ISR_EXIT: the outermost interrupt schedules what it made ready.
IsrExit ==
    /\ TopFrame.kind = "isr"
    /\ osel_int_nest' = osel_int_nest - 1
    /\ IF osel_int_nest' = 0 THEN Become(Schedule(osel_curr_prio)) ELSE Pop
    /\ UNCHANGED <<equeue, osel_rdy_tbl, osel_curr_prio, posts, isrs>>

\* osel_mutex_lock; the regions of the code do not nest in one activation.
MutexLock(ceiling) ==
    /\ TopFrame.kind \in {"main", "task"}
    /\ osel_curr_prio' = IF osel_curr_prio < ceiling THEN ceiling ELSE osel_curr_prio
    /\ Push([kind |-> "mutex", pin |-> osel_curr_prio, prio |-> osel_curr_prio'])
    /\ UNCHANGED <<equeue, osel_rdy_tbl, osel_int_nest, posts, isrs>>

\* osel_mutex_unlock: interrupts stay locked until osel_schedule has looked.
MutexUnlock ==
    /\ TopFrame.kind = "mutex"
    /\ IF osel_curr_prio > TopFrame.pin
         THEN /\ osel_curr_prio' = TopFrame.pin
              /\ IF osel_int_nest = 0 THEN Become(Schedule(TopFrame.pin)) ELSE Pop
         ELSE Pop /\ UNCHANGED osel_curr_prio
    /\ UNCHANGED <<equeue, osel_rdy_tbl, osel_int_nest, posts, isrs>>

Kernel == PostSignal \/ SelectTask \/ ScheduleReturn \/ TakeEvent \/ QueueDrained

Next ==
    \/ \E p \in Prio, e \in Event : PostAccepted(p, e) \/ PostRefused(p, e)
    \/ Kernel \/ TaskReturn
    \/ IsrEntry \/ IsrExit
    \/ \E ceiling \in 0 .. OSEL_MAX_PRIO : MutexLock(ceiling)
    \/ MutexUnlock

\* Handlers, interrupt routines and critical regions end; the kernel's own
\* code keeps running.  A handler is strongly fair because it may enter and
\* leave critical regions on its way.  Nothing is assumed of who posts or
\* interrupts.
Fairness == WF_vars(Kernel) /\ SF_vars(TaskReturn) /\ WF_vars(IsrExit) /\ WF_vars(MutexUnlock)

Spec == Init /\ [][Next]_vars /\ Fairness

-----------------------------------------------------------------------------
\* Serving(p): an activation of osel_schedule() is working on task p's queue.
Serving(p) == \E i \in 1 .. Len(frames) : frames[i].kind \in {"drain", "task"} /\ frames[i].prio = p

\* Type invariant, with every ring's indices and free count in agreement.
TypeOK ==
    /\ DOMAIN equeue = Prio
    /\ \A p \in Prio : equeue[p] \in EqueueType(QLen[p])
    /\ osel_rdy_tbl \subseteq Prio
    /\ osel_curr_prio \in Level
    /\ osel_int_nest \in 0 .. 1
    /\ frames \in Seq(Frame)
    /\ posts \in 0 .. MaxPosts /\ isrs \in 0 .. MaxIsrs

\* The ready table never loses a task: a queue with events is marked ready,
\* and a ready task with no events is one the scheduler is still serving.
ReadyExact ==
    \A p \in Prio :
        /\ HasEvent(equeue[p]) => p \in osel_rdy_tbl
        /\ p \in osel_rdy_tbl => HasEvent(equeue[p]) \/ Serving(p)

\* No missed wake-up: whenever task, main or critical-region code runs with
\* interrupts on, nothing of higher priority than it is waiting.
NoMissedWakeup ==
    InCode => \A p \in Prio : HasEvent(equeue[p]) => p <= osel_curr_prio

\* A task that runs on top of another, or on top of a critical region, has a
\* priority above it: handlers are never re-entered and a ceiling is respected.
StrictNesting ==
    \A i, j \in 1 .. Len(frames) :
        /\ i < j
        /\ frames[i].kind \in {"drain", "task", "mutex"}
        /\ frames[j].kind \in {"drain", "task"}
        => frames[i].prio < frames[j].prio

\* Code always runs at the priority of its own activation, however many
\* interrupts, preemptions and critical regions came between.
PrioRestored == InCode => osel_curr_prio = TopFrame.prio

\* The kernel implements bounded FIFO mailboxes served highest priority first,
\* and keeps delivering.
Delivery == INSTANCE PrioDelivery WITH mail <- [p \in Prio |-> Contents(equeue[p])]
DeliverySpec == Delivery!Spec

\* Every accepted event is handed to its task in the end.
EventuallyServed == \A p \in Prio : HasEvent(equeue[p]) ~> ~HasEvent(equeue[p])

-----------------------------------------------------------------------------
(* The inductive invariant behind the properties above.                     *)

RingsOK == \A p \in Prio : RingOK(equeue[p])

\* The priority of the code in a frame, and of the i-th activation.
Ceiling(f) == IF f.kind \in {"drain", "task", "mutex"} THEN f.prio ELSE f.pin
LevelAt(i) == IF i = 0 THEN -1 ELSE Ceiling(frames[i])

\* Every activation remembers the priority of the one below it, never lowers
\* it, and a task raises it.
Nested ==
    \A i \in 1 .. Len(frames) :
        /\ frames[i].pin = LevelAt(i - 1)
        /\ frames[i].kind \in {"drain", "task"} => frames[i].prio \in Prio /\ frames[i].prio > frames[i].pin
        /\ frames[i].kind = "mutex" => frames[i].prio >= frames[i].pin

\* Hence priorities rise from the bottom of the stack to its top.
Rising == \A i, j \in 0 .. Len(frames) : i <= j => LevelAt(i) <= LevelAt(j)

\* An interrupt is on top of the stack, or just below the signal of its own
\* post; osel_schedule() is below another frame only while a task runs.
Layered ==
    \A i \in 1 .. Len(frames) - 1 :
        \/ frames[i].kind \in {"task", "mutex", "signal"}
        \/ frames[i].kind = "isr" /\ i + 1 = Len(frames) /\ frames[i + 1].kind = "signal"

NestCounts == osel_int_nest = IF \E i \in 1 .. Len(frames) : frames[i].kind = "isr" THEN 1 ELSE 0

CurrIsTop == TopFrame.kind # "select" => osel_curr_prio = LevelAt(Len(frames))

Awake ==
    InCode \/ TopFrame.kind = "drain" =>
        \A p \in Prio : HasEvent(equeue[p]) => p <= LevelAt(Len(frames))

\* The conjunction a step of the kernel preserves.
IInv == TypeOK /\ RingsOK /\ ReadyExact /\ Nested /\ Rising /\ Layered
        /\ NestCounts /\ CurrIsTop /\ Awake
=============================================================================
