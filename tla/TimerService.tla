----------------------------- MODULE TimerService ------------------------------
(* What the software timers promise: every armed timer counts each tick       *)
(* exactly once, is posted when it reaches zero and starts over only if it is *)
(* periodic; an event already posted cannot be called back.                   *)
EXTENDS Naturals, Sequences

CONSTANTS Timer, CtrMod, EVENT_MAX

VARIABLES left,      \* ticks to go, 0 when not armed
          period,    \* 0 for a one-shot timer
          due,       \* armed timers the tick in progress has not counted yet
          mail       \* expired timers, as the task's queue holds them

vars == <<left, period, due, mail>>

Init == /\ left = [t \in Timer |-> 0] /\ period = [t \in Timer |-> 0]
        /\ due = {} /\ mail = <<>>

\* Arm, rearm, disarm: only between ticks.
Set(t) == /\ due = {}
          /\ \E n \in 0 .. CtrMod - 1 : left' = [left EXCEPT ![t] = n]
          /\ \E i \in 0 .. CtrMod - 1 : period' = [period EXCEPT ![t] = i]
          /\ UNCHANGED <<due, mail>>

Tick == /\ due = {}
        /\ due' = {t \in Timer : left[t] > 0}
        /\ UNCHANGED <<left, period, mail>>

Count(t) == /\ t \in due /\ left[t] > 1
            /\ left' = [left EXCEPT ![t] = @ - 1]
            /\ due' = due \ {t}
            /\ UNCHANGED <<period, mail>>

Expire(t) == /\ t \in due /\ left[t] = 1
             /\ left' = [left EXCEPT ![t] = period[t]]
             /\ due' = due \ {t}
             /\ mail' = IF Len(mail) < EVENT_MAX THEN Append(mail, t) ELSE mail
             /\ UNCHANGED period

\* The task takes an event; its handler may set up the timer again.
Take == /\ due = {} /\ mail # <<>>
        /\ mail' = Tail(mail)
        /\ LET t == Head(mail) IN
             \/ UNCHANGED <<left, period>>
             \/ left' = [left EXCEPT ![t] = 0] /\ period' = [period EXCEPT ![t] = 0]
        /\ UNCHANGED due

Next == \/ Tick \/ Take
        \/ \E t \in Timer : Set(t) \/ Count(t) \/ Expire(t)

Spec == Init /\ [][Next]_vars
=============================================================================
