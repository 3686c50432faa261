------------------------------- MODULE MCWsnos -------------------------------
(* Three tasks with queues of different lengths, one of them a single slot. *)
EXTENDS Wsnos

MCQLen == [p \in Prio |-> IF p = 1 THEN 1 ELSE 2]
=============================================================================
