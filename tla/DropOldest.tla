------------------------------ MODULE DropOldest -------------------------------
(* What the list of outgoing frames promises: a first-in first-out queue that *)
(* loses nothing but its oldest frame, and that only to make room for a new   *)
(* one.  confirmed holds the frames the lower layer has reported as sent and  *)
(* whose report is still to be acted on.                                      *)
EXTENDS Naturals, Sequences, Functions

CONSTANTS Frame, Capacity

VARIABLES queue, confirmed

vars == <<queue, confirmed>>

Init == queue = <<>> /\ confirmed = {}

Add == /\ \E f \in Frame \ (Range(queue) \cup confirmed) :
            queue' = Append(IF Len(queue) = Capacity THEN Tail(queue) ELSE queue, f)
       /\ UNCHANGED confirmed

\* The lower layer answers when it likes, for frames long gone too.
Confirm == /\ \E f \in Frame : confirmed' = confirmed \cup {f}
           /\ UNCHANGED queue

Leave == /\ queue # <<>> /\ Head(queue) \in confirmed
         /\ queue' = Tail(queue)
         /\ confirmed' \subseteq confirmed

Forget == /\ confirmed' \subseteq confirmed
          /\ UNCHANGED queue

Next == Add \/ Confirm \/ Leave \/ Forget
Spec == Init /\ [][Next]_vars
=============================================================================
