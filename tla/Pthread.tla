------------------------------- MODULE Pthread --------------------------------
(***************************************************************************)
(* The threads of one task (wsnos_pthread.c): creating, exiting, calling    *)
(* and polling them.  A thread that is called may create others, which are  *)
(* called at once, and exit others, which are told and then taken off the   *)
(* list while walks over it are under way further down: calls is the C      *)
(* stack of these activations.  What a thread does when it is called is     *)
(* external.                                                                *)
(*                                                                         *)
(* In this repository a thread exits itself only by ending, and no other    *)
(* thread exits one that is being called.                                   *)
(***************************************************************************)
EXTENDS Integers, Sequences, FiniteSets

CONSTANTS Thread, List, NoThread    \* List stands for tcb->process_list
ASSUME PthreadAssumption ==
    IsFiniteSet(Thread) /\ List \notin Thread /\ NoThread \notin Thread \cup {List}

VARIABLES
    nxt,       \* the next pointers; nxt[List] is the head of the list
    pstate,    \* PROCESS_STATE_NONE, _RUNNING or _CALLED
    process_current,
    calls      \* the activations, the innermost first

pthreadVars == <<nxt, pstate, process_current, calls>>

\* walk: osel_pthread_poll's or osel_pthread_exit's over the list, last being the
\* thread it has called; owed, for the properties, those it has still to call.
\* body: a thread running, bye if it was called with PROCESS_EVENT_EXIT.
Walks(op, P) ==
    [op : {op}, p : P, last : Thread \cup {List}, self : BOOLEAN, told : BOOLEAN,
     back : Thread \cup {NoThread}, owed : SUBSET Thread]
Bodies == [op : {"body", "bye"}, p : Thread, back : Thread \cup {NoThread}]
Frames == Walks("poll", {NoThread}) \cup Walks("exit", Thread) \cup Bodies

PthreadInit ==
    /\ nxt = [p \in Thread \cup {List} |-> NoThread]
    /\ pstate = [p \in Thread |-> "NONE"]
    /\ process_current = NoThread /\ calls = <<>>

-----------------------------------------------------------------------------
\* The threads from p on, as the code would find them.
After(p) ==
    LET at[n \in 0..Cardinality(Thread)] ==
          IF n = 0 THEN nxt[p] ELSE IF at[n - 1] = NoThread THEN NoThread ELSE nxt[at[n - 1]]
    IN  {q \in Thread : \E n \in DOMAIN at : at[n] = q}
Listed    == After(List)
Before(p) == {q \in Listed : p \in After(q)}

\* osel_pthread_call, on top of the activations rest.
Call(p, state, rest) ==
    IF state[p] = "RUNNING"
    THEN /\ pstate' = [state EXCEPT ![p] = "CALLED"]
         /\ calls' = <<[op |-> "body", p |-> p, back |-> process_current]>> \o rest
         /\ process_current' = p
    ELSE pstate' = state /\ calls' = rest /\ UNCHANGED process_current

Walk(op, p, self, back, owed) ==
    [op |-> op, p |-> p, last |-> List, self |-> self, told |-> FALSE, back |-> back, owed |-> owed]

\* One more turn of a walk's loop.
Visit(q) ==
    LET f == [Head(calls) EXCEPT !.last = q, !.owed = @ \ {q}]
    IN  Call(q, pstate, <<f>> \o Tail(calls)) /\ UNCHANGED nxt

\* Faulty: a thread that ends stays CALLED.
ExitStateful(p, self, back, rest) ==
    /\ pstate' = IF self THEN pstate ELSE [pstate EXCEPT ![p] = "NONE"]
    /\ calls' = <<Walk("exit", p, self, back, Before(p))>> \o rest
    /\ UNCHANGED <<nxt, process_current>>

\* osel_pthread_exit up to its walk; back is what process_current becomes.
Exit(p, self, back, rest) ==
    /\ pstate' = [pstate EXCEPT ![p] = "NONE"]
    /\ calls' = <<Walk("exit", p, self, back, Before(p))>> \o rest
    /\ UNCHANGED <<nxt, process_current>>

-----------------------------------------------------------------------------
(* The scheduler's call, and the main loop's before it.                     *)

Create(p) ==
    /\ p \notin Listed
    /\ nxt' = [nxt EXCEPT ![p] = nxt[List], ![List] = p]
    /\ Call(p, [pstate EXCEPT ![p] = "RUNNING"], calls)

TaskCreate == calls = <<>> /\ \E p \in Thread : Create(p)
Poll ==
    /\ calls = <<>> /\ UNCHANGED nxt
    /\ \/ \E p \in Thread : Call(p, pstate, <<>>)
       \/ /\ calls' = <<Walk("poll", NoThread, TRUE, NoThread, Listed)>>
          /\ UNCHANGED <<pstate, process_current>>

(* A thread that has been called.                                           *)

Running == calls # <<>> /\ Head(calls).op \in {"body", "bye"}

BodyCreate == Running /\ \E p \in Thread : Create(p)
BodyExit ==
    /\ Running
    /\ \E p \in Listed :
         /\ pstate[p] = "RUNNING"
         /\ Exit(p, FALSE, process_current, calls)
\* Faulty: the caller is not put back.
YieldCurrent ==
    LET f == Head(calls) IN
    /\ Running /\ UNCHANGED <<nxt, process_current>>
    /\ calls' = Tail(calls)
    /\ pstate' = IF f.op = "body" THEN [pstate EXCEPT ![f.p] = "RUNNING"] ELSE pstate

Yield ==
    LET f == Head(calls) IN
    /\ Running /\ UNCHANGED nxt
    /\ calls' = Tail(calls)
    /\ \/ /\ f.op = "body" /\ pstate' = [pstate EXCEPT ![f.p] = "RUNNING"]
          /\ process_current' = f.back
       \/ f.op = "bye" /\ UNCHANGED <<pstate, process_current>>
End ==
    LET f == Head(calls) IN
    Running /\ f.op = "body" /\ Exit(f.p, TRUE, f.back, Tail(calls))

(* The walks.                                                               *)

PollStep ==
    LET q == nxt[Head(calls).last] IN
    /\ calls # <<>> /\ Head(calls).op = "poll"
    /\ IF q # NoThread THEN Visit(q)
       ELSE calls' = Tail(calls) /\ UNCHANGED <<nxt, pstate, process_current>>

\* The thread itself, unless it is the one that exits.
Bye(f) ==
    /\ calls' = <<[op |-> "bye", p |-> f.p, back |-> f.back], [f EXCEPT !.told = TRUE]>> \o Tail(calls)
    /\ process_current' = f.p
    /\ UNCHANGED <<nxt, pstate>>

\* Faulty: the next pointer of the thread taken off is cleared.
UnlinkClears(f) ==
    /\ nxt' = [q \in DOMAIN nxt |-> IF q = f.p THEN NoThread ELSE IF nxt[q] = f.p THEN nxt[f.p] ELSE nxt[q]]
    /\ calls' = [i \in 1..Len(calls) - 1 |->
                   IF calls[i + 1].op \in {"body", "bye"} THEN calls[i + 1]
                   ELSE [calls[i + 1] EXCEPT !.owed = @ \ {f.p}]]
    /\ process_current' = f.back
    /\ UNCHANGED pstate

Unlink(f) ==
    /\ nxt' = [q \in DOMAIN nxt |-> IF nxt[q] = f.p /\ q \in Listed \cup {List} THEN nxt[f.p] ELSE nxt[q]]
    /\ calls' = [i \in 1..Len(calls) - 1 |->
                   IF calls[i + 1].op \in {"body", "bye"} THEN calls[i + 1]
                   ELSE [calls[i + 1] EXCEPT !.owed = @ \ {f.p}]]
    /\ process_current' = f.back
    /\ UNCHANGED pstate

ExitStep ==
    LET f == Head(calls)
        q == nxt[f.last]
    IN  /\ calls # <<>> /\ f.op = "exit"
        /\ IF f.told THEN Unlink(f)
           ELSE IF q \notin {f.p, NoThread} THEN Visit(q)
           ELSE IF f.self THEN Unlink(f) ELSE Bye(f)

PthreadNext == \/ TaskCreate \/ Poll
               \/ BodyCreate \/ BodyExit \/ Yield \/ End
               \/ PollStep \/ ExitStep

PthreadSpec == PthreadInit /\ [][PthreadNext]_pthreadVars

-----------------------------------------------------------------------------
PthreadTypeOK ==
    /\ nxt \in [Thread \cup {List} -> Thread \cup {NoThread}]
    /\ pstate \in [Thread -> {"NONE", "RUNNING", "CALLED"}]
    /\ process_current \in Thread \cup {NoThread}
    /\ calls \in Seq(Frames)

Leaving == {calls[i].p : i \in {j \in 1..Len(calls) : calls[j].op = "exit"}}

\* A thread is on the task's list exactly from its creation to the end of its
\* exit: none that has exited can still be called, none that runs is lost.
ListIsAlive ==
    /\ Listed = {p \in Thread : pstate[p] # "NONE"} \cup Leaving
    /\ \A p \in Leaving : pstate[p] = "NONE"

\* Whatever the threads called by a walk create and exit, itself included, the
\* walk will still come to every thread it set out to call and that has not left,
\* that of an exit before it comes to the thread that exits, where it stops.
WalkReachesAll ==
    \A i \in 1..Len(calls) :
        /\ calls[i].op \in {"poll", "exit"} => calls[i].owed \subseteq After(calls[i].last)
        /\ calls[i].op = "exit" => calls[i].owed \subseteq Before(calls[i].p)

\* PROCESS_CURRENT(), which the threads pass to osel_pthread_exit to say who they
\* are, is the one that runs, however deep the calls are nested.
CurrentIsRunning ==
    IF calls = <<>> THEN process_current = NoThread
    ELSE Running => process_current = Head(calls).p
===============================================================================
