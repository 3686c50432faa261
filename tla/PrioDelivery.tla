----------------------------- MODULE PrioDelivery -----------------------------
(***************************************************************************)
(* What the WSNOS kernel promises its tasks, without rings, ready bits,    *)
(* stacks or interrupts: each task has a bounded FIFO of events, a post    *)
(* that finds it full is refused, and the only event ever handed out is    *)
(* the oldest one of the highest-priority task that has any.               *)
(***************************************************************************)
EXTENDS Integers, Sequences

CONSTANTS Prio, QLen, Event

VARIABLE mail

Init == mail = [p \in Prio |-> <<>>]

Accept(p, e) ==
    /\ Len(mail[p]) < QLen[p]
    /\ mail' = [mail EXCEPT ![p] = Append(@, e)]

Deliver(p) ==
    /\ mail[p] # <<>>
    /\ \A r \in Prio : r > p => mail[r] = <<>>
    /\ mail' = [mail EXCEPT ![p] = Tail(@)]

Next == \E p \in Prio : Deliver(p) \/ \E e \in Event : Accept(p, e)

\* As long as there is mail, some of it is delivered.
Spec == Init /\ [][Next]_mail /\ WF_mail(\E p \in Prio : Deliver(p))
=============================================================================
