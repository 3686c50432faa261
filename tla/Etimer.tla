-------------------------------- MODULE Etimer ---------------------------------
(* The software timers of wsnos_etimer.c: one list that the tick interrupt    *)
(* walks and a list `act` of newly armed timers that the walk takes in when   *)
(* it reaches the end.  The lists are modelled by their links, because a      *)
(* timer on a list twice, or no longer on it, is what can go wrong here.      *)
(* Two users: code that arms a timer built once at start-up (Plain), and      *)
(* threads waiting in OSEL_ETIMER_DELAY, which builds its timer anew each     *)
(* time (Delayed).  All of them run on one task, whose queue is `queue`.      *)
EXTENDS Naturals, Sequences, FiniteSets, Functions

CONSTANTS Plain, Delayed, \* timers by their use
          Restarted,      \* timers whose thread is created again after its exit
          CtrMod,         \* the range of the 16-bit counter
          MaxTicks,       \* the longest delay asked for
          EVENT_MAX       \* length of the task's queue

\* The callers' longest delay, 60000 ticks of 10 ms (app_humiture.h:4 and
\* app_task.c:308), fits the counter.
ASSUME TicksFit == CtrMod \in Nat /\ MaxTicks \in Nat /\ 1 < CtrMod /\ MaxTicks < CtrMod
ASSUME TimersUsed == Restarted \subseteq Delayed /\ Plain \cap Delayed = {}

Timer == Plain \cup Delayed
First == "time_evt_head"
Null  == "NULL"
Idle  == "idle"

ASSUME TimerAssumption == /\ IsFiniteSet(Timer) /\ Timer \cap {First, Null, Idle} = {}
                          /\ EVENT_MAX \in Nat

VARIABLES next,      \* the links, First's included
          act,       \* time_evt_head.act
          ctr, interval,
          linked,    \* timers with bit 0x80 of ref_ctr set
          prev,      \* where the tick's walk is, Idle between ticks
          queue,     \* timer events posted to the task
          thread     \* what each Delayed timer's thread is doing

lists == <<next, act, linked>>
vars  == <<next, act, ctr, interval, linked, prev, queue, thread>>

Init == /\ next = [p \in Timer \cup {First} |-> Null] /\ act = Null
        /\ ctr = [t \in Timer |-> 0] /\ interval = [t \in Timer |-> 0]
        /\ linked = {} /\ prev = Idle /\ queue = <<>>
        /\ thread = [t \in Delayed |-> "none"]

\* The timers met from link p on.
After(links, p) ==
    LET at[k \in 0 .. Cardinality(Timer) + 1] ==
          IF k = 0 THEN p
          ELSE IF at[k - 1] = Null THEN Null ELSE links[at[k - 1]]
    IN  Range(at) \ {Null, First}

\* The links once a walk that has come to p's end has taken `act` in.
Joined(p) == IF next[p] = Null THEN [next EXCEPT ![p] = act] ELSE next
ActAfter(p) == IF next[p] = Null THEN Null ELSE act

\* Interrupts are off in every timer function and in the tick.
TaskRuns == prev = Idle
\* The handlers of one task run to completion: none starts while a thread is
\* between building its timer and arming it.
Between == TaskRuns /\ \A t \in Delayed : thread[t] # "built"
-----------------------------------------------------------------------------
\* Faulty: the timer goes to `act` without the timers that were there.
LinkAlone(t) == IF t \in linked THEN UNCHANGED lists
                ELSE linked' = linked \cup {t} /\ act' = t /\ UNCHANGED next

\* osel_etimer_arm, 64-70: the timer goes in front of `act` unless it is linked.
Link(t) == IF t \in linked THEN UNCHANGED lists
           ELSE /\ linked' = linked \cup {t}
                /\ next' = [next EXCEPT ![t] = act] /\ act' = t

\* Faulty: every timer is periodic.
ArmPeriodic(t, ticks, period) ==
    /\ ctr' = [ctr EXCEPT ![t] = ticks] /\ interval' = [interval EXCEPT ![t] = ticks]
    /\ Link(t)

Arm(t, ticks, period) ==
    /\ ctr' = [ctr EXCEPT ![t] = ticks % CtrMod]
    /\ interval' = [interval EXCEPT ![t] = period % CtrMod]
    /\ Link(t)

Ctor(t) == /\ next' = [next EXCEPT ![t] = Null]
           /\ ctr' = [ctr EXCEPT ![t] = 0] /\ interval' = [interval EXCEPT ![t] = 0]
           /\ linked' = linked \ {t} /\ UNCHANGED act

\* osel_etimer_disarm: a running timer is looked for in the list, then in `act`,
\* which is joined to the list on the way.
Disarm(t) ==
    IF ctr[t] = 0 THEN UNCHANGED <<next, act, ctr, interval, linked>>
    ELSE LET listed == t \in After(next, First)
             end    == CHOOSE p \in After(next, First) \cup {First} : next[p] = Null
             links  == IF listed THEN next ELSE Joined(end)
         IN  /\ ctr' = [ctr EXCEPT ![t] = 0] /\ UNCHANGED interval
             /\ act' = IF listed THEN act ELSE Null
             /\ IF t \in After(links, First)
                THEN LET p == CHOOSE p \in After(links, First) \cup {First} : links[p] = t
                     IN  next' = [links EXCEPT ![p] = links[t]] /\ linked' = linked \ {t}
                ELSE next' = links /\ UNCHANGED linked

Rearm(t, ticks) ==
    /\ IF ctr[t] = 0 THEN Link(t) ELSE UNCHANGED lists
    /\ ctr' = [ctr EXCEPT ![t] = ticks % CtrMod]
    /\ interval' = [interval EXCEPT ![t] = IF @ # 0 THEN ticks % CtrMod ELSE 0]
-----------------------------------------------------------------------------
\* Faulty: nothing looks at the room left.
PostUnbounded(t) == queue' = Append(queue, t)

\* osel_post from the tick: a full queue drops the event.
Post(t) == queue' = IF Len(queue) < EVENT_MAX THEN Append(queue, t) ELSE queue

\* The tick interrupt, one pass of the loop of wsnos_ticks at a time.
TickStart == /\ prev = Idle /\ prev' = First
             /\ UNCHANGED <<next, act, ctr, interval, linked, queue, thread>>

TickEnd == /\ prev # Idle /\ Joined(prev)[prev] = Null
           /\ prev' = Idle
           /\ UNCHANGED <<next, act, ctr, interval, linked, queue, thread>>

\* Faulty: a timer that is not armed is marked as unlinked and left where it is.
StepStands(t, links) ==
    /\ next' = links
    /\ \/ ctr[t] = 0 /\ linked' = linked \ {t} /\ UNCHANGED <<ctr, prev, queue>>
       \/ /\ ctr[t] = 1 /\ Post(t) /\ prev' = t
          /\ ctr' = [ctr EXCEPT ![t] = interval[t]] /\ UNCHANGED linked
       \/ /\ ctr[t] > 1 /\ ctr' = [ctr EXCEPT ![t] = @ - 1]
          /\ prev' = t /\ UNCHANGED <<linked, queue>>

\* Faulty: an expired one-shot timer stays on the list.
StepLeavesLinked(t, links) ==
    \/ /\ ctr[t] = 0
       /\ next' = [links EXCEPT ![prev] = links[t]] /\ linked' = linked \ {t}
       /\ UNCHANGED <<ctr, prev, queue>>
    \/ /\ ctr[t] = 1 /\ Post(t)
       /\ ctr' = [ctr EXCEPT ![t] = interval[t]]
       /\ next' = links /\ prev' = t
       /\ linked' = IF interval[t] # 0 THEN linked ELSE linked \ {t}
    \/ /\ ctr[t] > 1 /\ ctr' = [ctr EXCEPT ![t] = @ - 1]
       /\ next' = links /\ prev' = t /\ UNCHANGED <<linked, queue>>

\* Faulty: the walk goes on from a timer it has taken off the list.
StepWalksOn(t, links) ==
    \/ /\ ctr[t] <= 1 /\ interval[t] = 0
       /\ next' = [links EXCEPT ![prev] = links[t]] /\ linked' = linked \ {t}
       /\ prev' = t /\ ctr' = [ctr EXCEPT ![t] = 0]
       /\ IF ctr[t] = 1 THEN Post(t) ELSE UNCHANGED queue
    \/ /\ ctr[t] > 1 \/ interval[t] # 0
       /\ ctr' = [ctr EXCEPT ![t] = IF @ > 1 THEN @ - 1 ELSE interval[t]]
       /\ IF ctr[t] = 1 THEN Post(t) ELSE UNCHANGED queue
       /\ next' = links /\ prev' = t /\ UNCHANGED linked

\* What the walk does to the timer it has come to: one that is not armed leaves
\* the list, one that expires is posted and leaves it unless it is periodic.
Step(t, links) ==
    \/ /\ ctr[t] = 0
       /\ next' = [links EXCEPT ![prev] = links[t]] /\ linked' = linked \ {t}
       /\ UNCHANGED <<ctr, prev, queue>>
    \/ /\ ctr[t] = 1 /\ Post(t)
       /\ ctr' = [ctr EXCEPT ![t] = interval[t]]
       /\ IF interval[t] # 0
          THEN next' = links /\ prev' = t /\ UNCHANGED linked
          ELSE /\ next' = [links EXCEPT ![prev] = links[t]]
               /\ linked' = linked \ {t} /\ UNCHANGED prev
    \/ /\ ctr[t] > 1 /\ ctr' = [ctr EXCEPT ![t] = @ - 1]
       /\ next' = links /\ prev' = t /\ UNCHANGED <<linked, queue>>

TickStep == /\ prev # Idle
            /\ LET links == Joined(prev)
               IN  links[prev] # Null /\ Step(links[prev], links)
            /\ act' = ActAfter(prev)
            /\ UNCHANGED <<interval, thread>>
-----------------------------------------------------------------------------
\* Calls from the task's handlers.
CallArm == /\ Between
           /\ \E t \in Plain, n, i \in 0 .. MaxTicks : Arm(t, n, i)
           /\ UNCHANGED <<prev, queue, thread>>
CallDisarm == /\ Between
              /\ \E t \in Plain : Disarm(t)
              /\ UNCHANGED <<prev, queue, thread>>
CallRearm == /\ Between
             /\ \E t \in Plain, n \in 0 .. MaxTicks : Rearm(t, n)
             /\ UNCHANGED <<prev, queue, thread>>

\* A thread is created and runs into OSEL_ETIMER_DELAY, which builds the timer
\* and, perhaps a tick later, arms it and waits.
Create == /\ Between
          /\ \E t \in Delayed :
               /\ thread[t] = "none" \/ (thread[t] = "dead" /\ t \in Restarted)
               /\ Ctor(t) /\ thread' = [thread EXCEPT ![t] = "built"]
          /\ UNCHANGED <<prev, queue>>
Delay == /\ TaskRuns
         /\ \E t \in Delayed, n \in 0 .. MaxTicks :
              /\ thread[t] = "built" /\ Arm(t, n, 0)
              /\ thread' = [thread EXCEPT ![t] = "waiting"]
         /\ UNCHANGED <<prev, queue>>

\* Another thread exits this one: asyn_gateway.c:164 leaves the timer running,
\* nwk_stop (nwk_handles.c:1355) disarms it.
Exit == /\ Between
        /\ \E t \in Delayed :
             /\ thread[t] = "waiting" /\ thread' = [thread EXCEPT ![t] = "dead"]
             /\ Disarm(t) \/ UNCHANGED <<next, act, ctr, interval, linked>>
        /\ UNCHANGED <<prev, queue>>

Waits(t) == t \in Delayed /\ thread[t] = "waiting"

\* The task takes a timer event.  A thread waiting for it goes on to its next
\* delay or ends; for anything else the event changes nothing here.
Take == /\ Between /\ queue # <<>>
        /\ queue' = Tail(queue)
        /\ LET t == Head(queue) IN
             \/ /\ Waits(t)
                /\ \/ Ctor(t) /\ thread' = [thread EXCEPT ![t] = "built"]
                   \/ /\ thread' = [thread EXCEPT ![t] = "dead"]
                      /\ UNCHANGED <<next, act, ctr, interval, linked>>
             \/ /\ ~Waits(t)
                /\ UNCHANGED <<next, act, ctr, interval, linked, thread>>
        /\ UNCHANGED prev

Next == \/ TickStart \/ TickStep \/ TickEnd
        \/ CallArm \/ CallDisarm \/ CallRearm
        \/ Create \/ Delay \/ Exit \/ Take

Spec == Init /\ [][Next]_vars
\* The walk is one interrupt: once it has begun, it runs.
FairSpec == Spec /\ WF_vars(TickStep \/ TickEnd)
-----------------------------------------------------------------------------
TypeOK == /\ next \in [Timer \cup {First} -> Timer \cup {Null}] /\ act \in Timer \cup {Null}
          /\ ctr \in [Timer -> 0 .. CtrMod - 1] /\ interval \in [Timer -> 0 .. CtrMod - 1]
          /\ linked \subseteq Timer /\ prev \in Timer \cup {First, Idle}
          /\ queue \in Seq(Timer) /\ Len(queue) <= EVENT_MAX
          /\ thread \in [Delayed -> {"none", "built", "waiting", "dead"}]

Listed == After(next, First) \cup After(next, act)

\* An armed timer can be reached by the tick: without that it never expires,
\* against wsnos_etimer.h:68, "在多少个tick以后启动".
ArmedIsListed == \A t \in Timer : ctr[t] > 0 => t \in Listed

\* The lists hold each linked timer once and nothing else: their links never
\* meet, and bit 0x80, on which arm and disarm decide, tells the truth.
ListsSound ==
    /\ Listed = linked
    /\ \A p, q \in linked \cup {First} : next[p] = next[q] /\ next[p] # Null => p = q
    /\ act = Null \/ \A p \in linked \cup {First} : next[p] # act

\* The event a waiting thread takes for the end of its delay is never an
\* earlier one: when it is in the queue the timer has run out, and it is the
\* only one.
WakesOnTime ==
    \A t \in Delayed : thread[t] = "waiting" /\ t \in Range(queue) =>
        /\ ctr[t] = 0
        /\ Cardinality({i \in DOMAIN queue : queue[i] = t}) = 1

\* The interrupt always comes to the end of the lists.
TickEnds == prev # Idle ~> prev = Idle

\* The timers still ahead of the walk are the ones this tick has to count.
Ahead == IF prev = Idle THEN {}
         ELSE {t \in (After(next, prev) \cup After(next, act)) \ {prev} : ctr[t] > 0}
Service == INSTANCE TimerService WITH left <- ctr, period <- interval,
                                      due <- Ahead, mail <- queue
\* The lists count every armed timer once a tick, and no other.
ImplementsService == Service!Spec
=============================================================================
