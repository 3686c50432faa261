---------------------------- MODULE Pthread_proofs ----------------------------
(***************************************************************************)
(* The threads of a task, for any number of them and however deep they      *)
(* create, exit and call each other.  PROCESS_CURRENT() is the thread that  *)
(* runs; the list holds the threads that have been created and have not     *)
(* left; and a walk over it misses none that it set out to call.            *)
(*                                                                         *)
(* The first part describes the activations by what each will put back into *)
(* process_current.  The second is about the list: After is shown to be the *)
(* least set that the next pointers do not lead out of, and what putting a  *)
(* thread in front and taking one off do to it follows from that.           *)
(***************************************************************************)
EXTENDS Pthread, QueueLemmas, FiniteSetTheorems

Threads == Thread \cup {NoThread}

\* What process_current is while an activation is the innermost; a walk of
\* osel_pthread_exit leaves it as it likes, and restores it in the end.
Cur(f) == IF f.op \in {"body", "bye"} THEN f.p ELSE NoThread

\* The values put back are those of the activation below, and a thread that is
\* told of its own exit is called by that exit.  Only the scheduler polls.
PutsBack(f, rest) ==
    /\ f.op \in {"body", "exit"} =>
         IF rest = <<>> THEN f.back = NoThread
         ELSE rest[1].op # "exit" => f.back = Cur(rest[1])
    /\ f.op = "bye" => rest # <<>> /\ rest[1].op = "exit"
    /\ f.op = "poll" => rest = <<>>

BacksRight(c) ==
    \A i \in 1..Len(c) :
        /\ c[i].op \in {"body", "exit"} =>
             IF i = Len(c) THEN c[i].back = NoThread
             ELSE c[i + 1].op # "exit" => c[i].back = Cur(c[i + 1])
        /\ c[i].op = "bye" => i < Len(c) /\ c[i + 1].op = "exit"
        /\ c[i].op = "poll" => i = Len(c)

CurrentIs(x, c) ==
    IF c = <<>> THEN x = NoThread ELSE c[1].op # "exit" => x = Cur(c[1])

\* Activations that differ only in how far a walk has got.
Alike(c, d) ==
    /\ Len(d) = Len(c)
    /\ \A i \in 1..Len(c) : d[i].op = c[i].op /\ d[i].p = c[i].p /\ d[i].back = c[i].back

Below(c) == BacksRight(c) /\ CurrentIs(process_current, c)

IInv == PthreadTypeOK /\ Below(calls)

LEMMA InitI == PthreadInit => IInv
<1> SUFFICES ASSUME PthreadInit PROVE IInv
  OBVIOUS
<1>1. PthreadTypeOK
  <2>1. <<>> \in Seq(Frames)
    OBVIOUS
  <2> QED BY <2>1 DEF PthreadInit, PthreadTypeOK
<1>2. Len(calls) = 0
  BY DEF PthreadInit
<1> QED BY <1>1, <1>2 DEF PthreadInit, IInv, Below, BacksRight, CurrentIs

-----------------------------------------------------------------------------
LEMMA WalkType ==
    ASSUME NEW f \in Frames, f.op \in {"poll", "exit"}
    PROVE  /\ f.p \in Threads /\ (f.op = "exit" => f.p \in Thread)
           /\ f.last \in Thread \cup {List} /\ f.back \in Threads /\ f.owed \subseteq Thread
           /\ f.self \in BOOLEAN /\ f.told \in BOOLEAN
           /\ \A q \in Thread : [f EXCEPT !.last = q, !.owed = @ \ {q}] \in Frames
           /\ \A q \in Thread : [f EXCEPT !.owed = @ \ {q}] \in Frames
           /\ [f EXCEPT !.told = TRUE] \in Frames
<1>1. CASE f \in Walks("poll", {NoThread})
  BY <1>1 DEF Walks, Threads, Frames
<1>2. CASE f \in Walks("exit", Thread)
  BY <1>2 DEF Walks, Threads, Frames
<1>3. CASE f \in Bodies
  BY <1>3 DEF Bodies
<1> QED BY <1>1, <1>2, <1>3 DEF Frames

LEMMA BodyType ==
    /\ \A f \in Frames : f.op \in {"poll", "exit", "body", "bye"} /\ f.back \in Threads
    /\ \A f \in Frames : f.op \in {"body", "bye"} => f.p \in Thread
    /\ \A o \in {"body", "bye"}, p \in Thread, b \in Threads :
          [op |-> o, p |-> p, back |-> b] \in Frames
BY DEF Frames, Walks, Bodies, Threads

-----------------------------------------------------------------------------
(* The three ways the activations change. *)

LEMMA PushShape ==
    ASSUME NEW f \in Frames, NEW c \in Seq(Frames)
    PROVE  LET d == <<f>> \o c IN
           /\ d \in Seq(Frames) /\ d # <<>> /\ Len(d) = Len(c) + 1 /\ d[1] = f
           /\ Head(d) = f /\ Tail(d) = c
           /\ \A i \in 2..Len(d) : d[i] = c[i - 1]
OBVIOUS

LEMMA Empty == \A c \in Seq(Frames) : c = <<>> <=> Len(c) = 0
OBVIOUS

LEMMA PopShape ==
    ASSUME NEW c \in Seq(Frames), c # <<>>
    PROVE  /\ Head(c) \in Frames /\ Head(c) = c[1] /\ Tail(c) \in Seq(Frames)
           /\ Len(Tail(c)) = Len(c) - 1 /\ Len(c) \in Nat \ {0}
           /\ \A i \in 1..Len(Tail(c)) : Tail(c)[i] = c[i + 1]
           /\ Tail(c) = <<>> <=> Len(c) = 1
<1>1. Head(c) \in Frames /\ Head(c) = c[1] /\ Tail(c) \in Seq(Frames)
  OBVIOUS
<1>2. Len(Tail(c)) = Len(c) - 1 /\ Len(c) \in Nat \ {0}
  OBVIOUS
<1>3. \A i \in 1..Len(Tail(c)) : Tail(c)[i] = c[i + 1]
  OBVIOUS
<1>4. Tail(c) = <<>> <=> Len(Tail(c)) = 0
  BY <1>1, Empty
<1>5. Len(c) - 1 = 0 <=> Len(c) = 1
  BY <1>2
<1> QED BY <1>1, <1>2, <1>3, <1>4, <1>5

LEMMA PushRight ==
    ASSUME NEW f \in Frames, NEW c \in Seq(Frames), BacksRight(c), PutsBack(f, c)
    PROVE  BacksRight(<<f>> \o c)
<1> DEFINE d == <<f>> \o c
<1>1. /\ Len(d) = Len(c) + 1 /\ d[1] = f /\ \A i \in 2..Len(d) : d[i] = c[i - 1]
      /\ Len(c) \in Nat /\ (c = <<>> <=> Len(c) = 0)
  BY PushShape
<1> HIDE DEF d
<1> SUFFICES ASSUME NEW i \in 1..Len(d)
             PROVE  /\ d[i].op \in {"body", "exit"} =>
                          IF i = Len(d) THEN d[i].back = NoThread
                          ELSE d[i + 1].op # "exit" => d[i].back = Cur(d[i + 1])
                    /\ d[i].op = "bye" => i < Len(d) /\ d[i + 1].op = "exit"
                    /\ d[i].op = "poll" => i = Len(d)
  BY DEF BacksRight, d
<1>2. CASE i = 1
  BY <1>1, <1>2 DEF PutsBack
<1>3. CASE i # 1
  <2>1. i - 1 \in 1..Len(c) /\ d[i] = c[i - 1] /\ (i = Len(d) <=> i - 1 = Len(c))
    BY <1>1, <1>3
  <2>2. i # Len(d) => d[i + 1] = c[(i - 1) + 1]
    BY <1>1, <1>3
  <2> QED BY <1>1, <2>1, <2>2 DEF BacksRight
<1> QED BY <1>2, <1>3

LEMMA PopRight ==
    ASSUME NEW c \in Seq(Frames), c # <<>>, BacksRight(c)
    PROVE  BacksRight(Tail(c)) /\ PutsBack(Head(c), Tail(c))
<1> DEFINE d == Tail(c)
           n == Len(c)
<1>1. /\ Head(c) = c[1] /\ Len(d) = n - 1 /\ n \in Nat \ {0}
      /\ \A i \in 1..Len(d) : d[i] = c[i + 1]
      /\ d = <<>> <=> n = 1
  BY PopShape
<1>2. n = Len(c)
  OBVIOUS
<1> HIDE DEF d, n
<1>3. \A i \in 1..n-1 : d[i] = c[i + 1]
  BY <1>1
<1>4. PutsBack(Head(c), d)
  <2>1. 1 \in 1..n /\ (n # 1 => 1 < n /\ d[1] = c[1 + 1])
    BY <1>1, <1>3
  <2> QED BY <1>1, <1>2, <2>1 DEF BacksRight, PutsBack
<1>5. ASSUME NEW i \in 1..n-1
      PROVE  /\ i + 1 \in 1..n /\ d[i] = c[i + 1] /\ (i = n - 1 <=> i + 1 = n)
             /\ i < n - 1 <=> i + 1 < n
             /\ i # n - 1 => d[i + 1] = c[(i + 1) + 1]
  BY <1>1, <1>3
<1>6. BacksRight(d)
  <2> SUFFICES ASSUME NEW i \in 1..n-1
               PROVE  /\ d[i].op \in {"body", "exit"} =>
                            IF i = n - 1 THEN d[i].back = NoThread
                            ELSE d[i + 1].op # "exit" => d[i].back = Cur(d[i + 1])
                      /\ d[i].op = "bye" => i < n - 1 /\ d[i + 1].op = "exit"
                      /\ d[i].op = "poll" => i = n - 1
    BY <1>1 DEF BacksRight
  <2>1. /\ c[i + 1].op \in {"body", "exit"} =>
              IF i + 1 = n THEN c[i + 1].back = NoThread
              ELSE c[(i + 1) + 1].op # "exit" => c[i + 1].back = Cur(c[(i + 1) + 1])
        /\ c[i + 1].op = "bye" => i + 1 < n /\ c[(i + 1) + 1].op = "exit"
        /\ c[i + 1].op = "poll" => i + 1 = n
    BY <1>2, <1>5 DEF BacksRight
  <2>2. CASE i = n - 1
    BY <1>5, <2>1, <2>2
  <2>3. CASE i # n - 1
    BY <1>1, <1>5, <2>1, <2>3
  <2> QED BY <2>2, <2>3
<1> QED BY <1>4, <1>6 DEF d

LEMMA AlikeRight ==
    ASSUME NEW c \in Seq(Frames), NEW d \in Seq(Frames), Alike(c, d), BacksRight(c)
    PROVE  BacksRight(d) /\ (\A x : CurrentIs(x, c) <=> CurrentIs(x, d))
<1>1. Len(c) \in Nat /\ Len(d) = Len(c) /\ (c = <<>> <=> Len(c) = 0) /\ (d = <<>> <=> Len(d) = 0)
  BY DEF Alike
<1>2. \A i \in 1..Len(c) : d[i].op = c[i].op /\ d[i].back = c[i].back /\ Cur(d[i]) = Cur(c[i])
  BY DEF Alike, Cur
<1>3. \A i \in 1..Len(c) : i # Len(c) => i + 1 \in 1..Len(c)
  BY <1>1
<1>4. BacksRight(d)
  <2> SUFFICES ASSUME NEW i \in 1..Len(c)
               PROVE  /\ d[i].op \in {"body", "exit"} =>
                            IF i = Len(c) THEN d[i].back = NoThread
                            ELSE d[i + 1].op # "exit" => d[i].back = Cur(d[i + 1])
                      /\ d[i].op = "bye" => i < Len(c) /\ d[i + 1].op = "exit"
                      /\ d[i].op = "poll" => i = Len(c)
    BY <1>1 DEF BacksRight
  <2>1. CASE i = Len(c)
    BY <1>1, <1>2, <2>1 DEF BacksRight
  <2>2. CASE i # Len(c)
    BY <1>1, <1>2, <1>3, <2>2 DEF BacksRight
  <2> QED BY <2>1, <2>2
<1>5. ASSUME NEW x  PROVE CurrentIs(x, c) <=> CurrentIs(x, d)
  <2>1. c # <<>> => 1 \in 1..Len(c)
    BY <1>1
  <2> QED BY <1>1, <1>2, <2>1 DEF CurrentIs
<1> QED BY <1>4, <1>5

-----------------------------------------------------------------------------
(* The steps. *)

LEMMA AfterType == \A p : After(p) \subseteq Thread
BY DEF After

LEMMA WalkMade ==
    /\ \A self \in BOOLEAN, p \in Thread, b \in Threads, o \in SUBSET Thread : Walk("exit", p, self, b, o) \in Frames
    /\ \A o \in SUBSET Thread : Walk("poll", NoThread, TRUE, NoThread, o) \in Frames
BY DEF Walk, Frames, Walks, Threads

\* osel_pthread_call keeps everything right if the activations below it are.
LEMMA CallStep ==
    ASSUME PthreadTypeOK, NEW p \in Thread, NEW state \in [Thread -> {"NONE", "RUNNING", "CALLED"}],
           NEW rest \in Seq(Frames), Below(rest), Call(p, state, rest)
    PROVE  /\ pstate' \in [Thread -> {"NONE", "RUNNING", "CALLED"}]
           /\ process_current' \in Threads /\ calls' \in Seq(Frames)
           /\ Below(calls)'
<1>1. CASE state[p] # "RUNNING"
  BY <1>1 DEF Call, PthreadTypeOK, Threads, Below, CurrentIs
<1>2. CASE state[p] = "RUNNING"
  <2> DEFINE f == [op |-> "body", p |-> p, back |-> process_current]
  <2>1. f \in Frames /\ f.op = "body" /\ f.back = process_current /\ Cur(f) = p
    BY BodyType DEF PthreadTypeOK, Threads, Cur
  <2>2. PutsBack(f, rest)
    BY <2>1 DEF PutsBack, Below, CurrentIs
  <2>3. calls' = <<f>> \o rest /\ process_current' = p /\ pstate' = [state EXCEPT ![p] = "CALLED"]
    BY <1>2 DEF Call
  <2> HIDE DEF f
  <2>4. calls' \in Seq(Frames) /\ calls' # <<>> /\ calls'[1] = f
    BY <2>1, <2>3, PushShape
  <2>5. BacksRight(calls')
    BY <2>1, <2>2, <2>3, PushRight DEF Below
  <2>6. CurrentIs(p, calls')
    BY <2>1, <2>4 DEF CurrentIs
  <2> QED BY <2>3, <2>4, <2>5, <2>6 DEF Below, Threads
<1> QED BY <1>1, <1>2

\* osel_pthread_exit begins, on activations that are right below it.
LEMMA ExitBegins ==
    ASSUME PthreadTypeOK, NEW p \in Thread, NEW self \in BOOLEAN, NEW back \in Threads,
           NEW rest \in Seq(Frames), BacksRight(rest),
           IF rest = <<>> THEN back = NoThread ELSE rest[1].op # "exit" => back = Cur(rest[1]),
           Exit(p, self, back, rest)
    PROVE  PthreadTypeOK' /\ Below(calls)'
<1> DEFINE f == Walk("exit", p, self, back, Before(p))
<1>1. f \in Frames /\ f.op = "exit" /\ f.back = back
  <2>1. Before(p) \in SUBSET Thread
    BY AfterType DEF Before, Listed
  <2> QED BY <2>1, WalkMade DEF Walk
<1>2. calls' = <<f>> \o rest /\ pstate' = [pstate EXCEPT ![p] = "NONE"]
      /\ nxt' = nxt /\ process_current' = process_current
  BY DEF Exit
<1> HIDE DEF f
<1>3. calls' \in Seq(Frames) /\ calls' # <<>> /\ calls'[1] = f
  BY <1>1, <1>2, PushShape
<1>4. PutsBack(f, rest)
  BY <1>1 DEF PutsBack
<1>5. BacksRight(calls')
  BY <1>1, <1>2, <1>4, PushRight
<1> QED BY <1>1, <1>2, <1>3, <1>5 DEF PthreadTypeOK, Below, CurrentIs

\* The walk on top changes and stays what it is; so does what is below it.
LEMMA WalkMoves ==
    ASSUME NEW c \in Seq(Frames), c # <<>>, NEW f \in Frames,
           f.op = Head(c).op, f.p = Head(c).p, f.back = Head(c).back
    PROVE  LET d == <<f>> \o Tail(c) IN
           /\ d \in Seq(Frames) /\ d # <<>> /\ d[1] = f /\ Alike(c, d)
<1> DEFINE t == Tail(c)
           d == <<f>> \o t
<1>1. /\ t \in Seq(Frames) /\ Len(t) = Len(c) - 1 /\ Len(c) \in Nat \ {0} /\ Head(c) = c[1]
      /\ \A i \in 1..Len(t) : t[i] = c[i + 1]
  BY PopShape
<1> HIDE DEF t
<1>2. /\ d \in Seq(Frames) /\ d # <<>> /\ Len(d) = Len(t) + 1 /\ d[1] = f
      /\ \A i \in 2..Len(d) : d[i] = t[i - 1]
  BY <1>1, PushShape
<1> HIDE DEF d
<1>3. Len(d) = Len(c)
  BY <1>1, <1>2
<1>4. \A i \in 2..Len(c) : d[i] = c[i]
  BY <1>1, <1>2
<1>5. Alike(c, d)
  BY <1>1, <1>2, <1>3, <1>4 DEF Alike
<1> QED BY <1>2, <1>5 DEF d, t

\* One more turn of a walk's loop.
LEMMA VisitStep ==
    ASSUME IInv, calls # <<>>, Head(calls).op \in {"poll", "exit"}, NEW q \in Thread, Visit(q)
    PROVE  IInv'
<1> DEFINE f == [Head(calls) EXCEPT !.last = q, !.owed = @ \ {q}]
           d == <<f>> \o Tail(calls)
<1>1. calls \in Seq(Frames) /\ Head(calls) \in Frames
  BY PopShape DEF IInv, PthreadTypeOK
<1>2. f \in Frames
  BY <1>1, WalkType
<1>3. f.op = Head(calls).op /\ f.p = Head(calls).p /\ f.back = Head(calls).back
  BY <1>1 DEF Frames, Walks, Bodies
<1>4. d \in Seq(Frames) /\ Alike(calls, d)
  BY <1>1, <1>2, <1>3, WalkMoves
<1>5. Call(q, pstate, d) /\ nxt' = nxt
  BY DEF Visit
<1> HIDE DEF d, f
<1>6. Below(d)
  BY <1>1, <1>4, AlikeRight DEF IInv, Below
<1> QED BY <1>4, <1>5, <1>6, CallStep DEF IInv, PthreadTypeOK, Threads

LEMMA CreateStep == ASSUME IInv, NEW p \in Thread, Create(p) PROVE IInv'
<1>1. [pstate EXCEPT ![p] = "RUNNING"] \in [Thread -> {"NONE", "RUNNING", "CALLED"}]
  BY DEF IInv, PthreadTypeOK
<1>2. nxt' \in [Thread \cup {List} -> Thread \cup {NoThread}]
  BY DEF Create, IInv, PthreadTypeOK
<1>3. Call(p, [pstate EXCEPT ![p] = "RUNNING"], calls)
  BY DEF Create
<1>4. calls \in Seq(Frames) /\ Below(calls)
  BY DEF IInv, PthreadTypeOK
<1> QED BY <1>1, <1>2, <1>3, <1>4, CallStep DEF IInv, PthreadTypeOK, Threads

LEMMA PollStarts == IInv /\ Poll => IInv'
<1> SUFFICES ASSUME IInv, Poll PROVE IInv'
  OBVIOUS
<1>1. calls = <<>> /\ nxt' = nxt /\ process_current = NoThread /\ <<>> \in Seq(Frames) /\ Below(<<>>)
  BY DEF Poll, IInv, Below, CurrentIs, PthreadTypeOK
<1>2. CASE \E p \in Thread : Call(p, pstate, <<>>)
  BY <1>1, <1>2, CallStep DEF IInv, PthreadTypeOK, Threads
<1>3. CASE calls' = <<Walk("poll", NoThread, TRUE, NoThread, Listed)>> /\ UNCHANGED <<pstate, process_current>>
  <2> DEFINE f == Walk("poll", NoThread, TRUE, NoThread, Listed)
  <2>1. f \in Frames /\ f.op = "poll"
    <3>1. Listed \in SUBSET Thread
      BY AfterType DEF Listed
    <3> QED BY <3>1, WalkMade DEF Walk
  <2> HIDE DEF f
  <2>2. calls' = <<f>>
    BY <1>3 DEF f
  <2>3. calls' \in Seq(Frames) /\ Len(calls') = 1 /\ calls'[1] = f /\ calls' # <<>>
    BY <2>1, <2>2
  <2>4. BacksRight(calls')
    BY <2>1, <2>3 DEF BacksRight
  <2>5. CurrentIs(process_current', calls')
    BY <1>1, <1>3, <2>1, <2>3 DEF CurrentIs, Cur
  <2> QED BY <1>1, <1>3, <2>3, <2>4, <2>5 DEF IInv, PthreadTypeOK, Below
<1> QED BY <1>2, <1>3 DEF Poll

\* The innermost activation and what is below it.
LEMMA TopShape ==
    ASSUME IInv, calls # <<>>
    PROVE  /\ Head(calls) \in Frames /\ Head(calls) = calls[1]
           /\ calls \in Seq(Frames) /\ Tail(calls) \in Seq(Frames) /\ BacksRight(Tail(calls))
           /\ PutsBack(Head(calls), Tail(calls))
BY PopShape, PopRight DEF IInv, PthreadTypeOK, Below

LEMMA BodyExitStep == IInv /\ BodyExit => IInv'
<1> SUFFICES ASSUME IInv, BodyExit PROVE IInv'
  OBVIOUS
<1>1. calls # <<>> /\ Head(calls).op \in {"body", "bye"}
  BY DEF BodyExit, Running
<1>2. PICK p \in Thread : Exit(p, FALSE, process_current, calls)
  BY AfterType DEF BodyExit, Listed
<1>3. /\ process_current \in Threads /\ calls \in Seq(Frames) /\ BacksRight(calls)
      /\ IF calls = <<>> THEN process_current = NoThread
         ELSE calls[1].op # "exit" => process_current = Cur(calls[1])
  BY DEF IInv, PthreadTypeOK, Below, CurrentIs, Threads
<1> QED BY <1>2, <1>3, ExitBegins DEF IInv

LEMMA YieldStep == IInv /\ Yield => IInv'
<1> SUFFICES ASSUME IInv, Yield PROVE IInv'
  OBVIOUS
<1> DEFINE f == Head(calls)
           t == Tail(calls)
<1>1. calls # <<>> /\ f.op \in {"body", "bye"} /\ nxt' = nxt /\ calls' = t
  BY DEF Yield, Running
<1>2. f \in Frames /\ t \in Seq(Frames) /\ BacksRight(t) /\ PutsBack(f, t)
  BY <1>1, TopShape
<1>3. f.p \in Thread /\ f.back \in Threads
  BY <1>1, <1>2, BodyType
<1>4. CASE f.op = "body" /\ pstate' = [pstate EXCEPT ![f.p] = "RUNNING"] /\ process_current' = f.back
  <2>1. CurrentIs(process_current', t)
    BY <1>2, <1>4 DEF PutsBack, CurrentIs
  <2>2. pstate' \in [Thread -> {"NONE", "RUNNING", "CALLED"}]
    BY <1>4 DEF IInv, PthreadTypeOK
  <2> QED BY <1>1, <1>2, <1>3, <1>4, <2>1, <2>2 DEF IInv, PthreadTypeOK, Below, Threads
<1>5. CASE f.op = "bye" /\ UNCHANGED <<pstate, process_current>>
  <2>1. CurrentIs(process_current', t)
    BY <1>2, <1>5 DEF PutsBack, CurrentIs
  <2> QED BY <1>1, <1>2, <1>5, <2>1 DEF IInv, PthreadTypeOK, Below
<1> QED BY <1>4, <1>5 DEF Yield

LEMMA EndStep == IInv /\ End => IInv'
<1> SUFFICES ASSUME IInv, End PROVE IInv'
  OBVIOUS
<1> DEFINE f == Head(calls)
           t == Tail(calls)
<1>1. calls # <<>> /\ f.op = "body" /\ Exit(f.p, TRUE, f.back, t)
  BY DEF End, Running
<1>2. f \in Frames /\ t \in Seq(Frames) /\ BacksRight(t) /\ PutsBack(f, t)
  BY <1>1, TopShape
<1>3. f.p \in Thread /\ f.back \in Threads
  BY <1>1, <1>2, BodyType
<1>4. IF t = <<>> THEN f.back = NoThread ELSE t[1].op # "exit" => f.back = Cur(t[1])
  BY <1>1, <1>2 DEF PutsBack
<1> QED BY <1>1, <1>2, <1>3, <1>4, ExitBegins DEF IInv

LEMMA PollStepStep == IInv /\ PollStep => IInv'
<1> SUFFICES ASSUME IInv, PollStep PROVE IInv'
  OBVIOUS
<1> DEFINE f == Head(calls)
           q == nxt[f.last]
<1>1. calls # <<>> /\ f.op = "poll"
  BY DEF PollStep
<1>2. /\ f \in Frames /\ Tail(calls) \in Seq(Frames) /\ BacksRight(Tail(calls))
      /\ f = calls[1] /\ PutsBack(f, Tail(calls))
  BY <1>1, TopShape
<1>3. q \in Thread \cup {NoThread}
  BY <1>1, <1>2, WalkType DEF IInv, PthreadTypeOK
<1>4. CASE q # NoThread
  BY <1>1, <1>3, <1>4, VisitStep DEF PollStep
<1>5. CASE q = NoThread
  <2>1. calls' = Tail(calls) /\ UNCHANGED <<nxt, pstate, process_current>>
    BY <1>5 DEF PollStep
  <2>2. process_current = NoThread
    BY <1>1, <1>2 DEF IInv, Below, CurrentIs, Cur
  <2>3. Tail(calls) = <<>>
    BY <1>1, <1>2 DEF PutsBack
  <2> QED BY <1>2, <2>1, <2>2, <2>3 DEF IInv, PthreadTypeOK, Below, CurrentIs
<1> QED BY <1>4, <1>5

LEMMA TwoOnTop ==
    ASSUME NEW b \in Frames, NEW g \in Frames, NEW t \in Seq(Frames)
    PROVE  <<b, g>> \o t = <<b>> \o (<<g>> \o t)
<1>1. /\ <<b, g>> \o t \in Seq(Frames) /\ <<b>> \o (<<g>> \o t) \in Seq(Frames)
      /\ Len(<<b, g>> \o t) = Len(t) + 2 /\ Len(<<b>> \o (<<g>> \o t)) = Len(t) + 2
  OBVIOUS
<1>2. \A i \in 1..Len(t) + 2 : (<<b, g>> \o t)[i] = (<<b>> \o (<<g>> \o t))[i]
  OBVIOUS
<1> QED BY <1>1, <1>2, SeqEqual

LEMMA ByeStep ==
    ASSUME IInv, calls # <<>>, Head(calls).op = "exit", Bye(Head(calls))
    PROVE  IInv'
<1> DEFINE f == Head(calls)
           g == [f EXCEPT !.told = TRUE]
           b == [op |-> "bye", p |-> f.p, back |-> f.back]
           d == <<g>> \o Tail(calls)
<1>1. f \in Frames /\ calls \in Seq(Frames) /\ Tail(calls) \in Seq(Frames) /\ BacksRight(calls)
  BY TopShape DEF IInv, Below
<1>2. g \in Frames /\ f.p \in Thread /\ f.back \in Threads
  BY <1>1, WalkType
<1>3. g.op = "exit" /\ g.op = f.op /\ g.p = f.p /\ g.back = f.back
  BY <1>1 DEF Frames, Walks, Bodies
<1>4. b \in Frames /\ b.op = "bye" /\ Cur(b) = f.p
  BY <1>2, BodyType DEF Cur
<1>5. d \in Seq(Frames) /\ d # <<>> /\ d[1] = g /\ Alike(calls, d)
  BY <1>1, <1>2, <1>3, WalkMoves
<1>6. calls' = <<b>> \o d
  <2>1. calls' = <<b, g>> \o Tail(calls)
    BY DEF Bye
  <2> QED BY <1>1, <1>2, <1>4, <2>1, TwoOnTop
<1>7. process_current' = f.p /\ nxt' = nxt /\ pstate' = pstate
  BY DEF Bye
<1> HIDE DEF b, d, f, g
<1>8. BacksRight(d)
  BY <1>1, <1>5, AlikeRight
<1>9. PutsBack(b, d)
  BY <1>3, <1>4, <1>5 DEF PutsBack
<1>10. calls' \in Seq(Frames) /\ calls' # <<>> /\ calls'[1] = b
  BY <1>4, <1>5, <1>6, PushShape
<1>11. BacksRight(calls')
  BY <1>4, <1>5, <1>6, <1>8, <1>9, PushRight
<1> QED BY <1>2, <1>4, <1>7, <1>10, <1>11 DEF IInv, PthreadTypeOK, Threads, Below, CurrentIs

\* What is below the exit stays, but for what the walks there still owe.
LEMMA UnlinkStep ==
    ASSUME IInv, calls # <<>>, Head(calls).op = "exit", Unlink(Head(calls))
    PROVE  IInv'
<1> DEFINE f == Head(calls)
           t == Tail(calls)
           Less(e) == IF e.op \in {"body", "bye"} THEN e ELSE [e EXCEPT !.owed = @ \ {f.p}]
<1>1. /\ f \in Frames /\ calls \in Seq(Frames) /\ t \in Seq(Frames) /\ BacksRight(t)
      /\ PutsBack(f, t)
  BY TopShape
<1>2. f.p \in Thread /\ f.back \in Threads
  BY <1>1, WalkType
<1>3. \A e \in Frames : Less(e) \in Frames
  BY <1>2, WalkType, BodyType
<1>4. \A e \in Frames : Less(e).op = e.op /\ Less(e).p = e.p /\ Less(e).back = e.back
  BY DEF Frames, Walks, Bodies
<1>5. calls' = [i \in 1..Len(calls) - 1 |-> Less(calls[i + 1])]
  BY DEF Unlink
<1>6. process_current' = f.back /\ pstate' = pstate
  BY DEF Unlink
<1>7. nxt' \in [Thread \cup {List} -> Thread \cup {NoThread}]
  <2>1. nxt' = [q \in DOMAIN nxt |-> IF nxt[q] = f.p /\ q \in Listed \cup {List} THEN nxt[f.p] ELSE nxt[q]]
    BY DEF Unlink
  <2>2. nxt \in [Thread \cup {List} -> Thread \cup {NoThread}]
    BY DEF IInv, PthreadTypeOK
  <2> HIDE DEF f
  <2> QED BY <1>2, <2>1, <2>2
<1>8. /\ Len(t) = Len(calls) - 1 /\ Len(calls) \in Nat \ {0}
      /\ \A i \in 1..Len(t) : t[i] = calls[i + 1]
  BY PopShape, <1>1
<1> HIDE DEF f, t, Less
<1>9. calls' = [i \in 1..Len(t) |-> Less(t[i])]
  BY <1>5, <1>8
<1>10. \A i \in 1..Len(t) : t[i] \in Frames
  BY <1>1
<1>11. calls' \in Seq(Frames) /\ Len(calls') = Len(t)
  <2>1. calls' \in [1..Len(t) -> Frames] /\ Len(t) \in Nat
    BY <1>1, <1>3, <1>9, <1>10
  <2> QED BY <2>1
<1>12. Alike(t, calls')
  BY <1>4, <1>9, <1>10, <1>11 DEF Alike
<1>13. CurrentIs(f.back, t)
  <2>1. f.op = "exit"
    BY DEF f
  <2> QED BY <1>1, <2>1 DEF PutsBack, CurrentIs
<1>14. BacksRight(calls') /\ CurrentIs(f.back, calls')
  BY <1>1, <1>11, <1>12, <1>13, AlikeRight
<1> QED BY <1>2, <1>6, <1>7, <1>11, <1>14 DEF IInv, PthreadTypeOK, Threads, Below

LEMMA ExitStepStep == IInv /\ ExitStep => IInv'
<1> SUFFICES ASSUME IInv, ExitStep PROVE IInv'
  OBVIOUS
<1> DEFINE f == Head(calls)
           q == nxt[f.last]
<1>1. calls # <<>> /\ f.op = "exit"
  BY DEF ExitStep
<1>2. f \in Frames
  BY <1>1, TopShape
<1>3. q \in Thread \cup {NoThread}
  BY <1>1, <1>2, WalkType DEF IInv, PthreadTypeOK
<1>4. \/ Unlink(f)
      \/ q # NoThread /\ Visit(q)
      \/ Bye(f)
  BY DEF ExitStep
<1>5. CASE Unlink(f)
  BY <1>1, <1>5, UnlinkStep
<1>6. CASE q # NoThread /\ Visit(q)
  BY <1>1, <1>3, <1>6, VisitStep
<1>7. CASE Bye(f)
  BY <1>1, <1>7, ByeStep
<1> QED BY <1>4, <1>5, <1>6, <1>7

-----------------------------------------------------------------------------
LEMMA StepI == IInv /\ [PthreadNext]_pthreadVars => IInv'
<1> SUFFICES ASSUME IInv, [PthreadNext]_pthreadVars PROVE IInv'
  OBVIOUS
<1>1. CASE TaskCreate
  BY <1>1, CreateStep DEF TaskCreate
<1>2. CASE Poll
  BY <1>2, PollStarts
<1>3. CASE BodyCreate
  BY <1>3, CreateStep DEF BodyCreate
<1>4. CASE BodyExit
  BY <1>4, BodyExitStep
<1>5. CASE Yield
  BY <1>5, YieldStep
<1>6. CASE End
  BY <1>6, EndStep
<1>7. CASE PollStep
  BY <1>7, PollStepStep
<1>8. CASE ExitStep
  BY <1>8, ExitStepStep
<1>9. CASE UNCHANGED pthreadVars
  BY <1>9 DEF pthreadVars, IInv, PthreadTypeOK, Below, BacksRight, CurrentIs
<1> QED BY <1>1, <1>2, <1>3, <1>4, <1>5, <1>6, <1>7, <1>8, <1>9 DEF PthreadNext

LEMMA RightI == IInv => CurrentIsRunning
<1> SUFFICES ASSUME IInv PROVE CurrentIsRunning
  OBVIOUS
<1>1. CASE calls = <<>>
  BY <1>1 DEF IInv, Below, CurrentIs, CurrentIsRunning
<1>2. CASE calls # <<>>
  <2>1. Head(calls) = calls[1]
    BY <1>2, TopShape
  <2> QED BY <1>2, <2>1 DEF IInv, Below, CurrentIs, Cur, CurrentIsRunning, Running
<1> QED BY <1>1, <1>2

\* PROCESS_CURRENT() is the thread that runs, for any number of threads and any
\* depth of osel_pthread_create, _call and _exit.
THEOREM CurrentIsRight == PthreadSpec => []CurrentIsRunning
BY InitI, StepI, RightI, PTL DEF PthreadSpec

\* The list, the states and the activations are always what the code declares.
THEOREM PthreadTyped == PthreadSpec => []PthreadTypeOK
<1>1. IInv => PthreadTypeOK
  BY DEF IInv
<1> QED BY InitI, StepI, <1>1, PTL DEF PthreadSpec

-----------------------------------------------------------------------------
(* What a list of next pointers reaches.                                    *)

Links == [Thread \cup {List} -> Thread \cup {NoThread}]
Steps == Cardinality(Thread)

\* After, for any next pointers m: at holds the threads that follow p.
Follows(at, m, p) ==
    at = [n \in 0..Steps |->
            IF n = 0 THEN m[p] ELSE IF at[n - 1] = NoThread THEN NoThread ELSE m[at[n - 1]]]
Reach(m, p) ==
    LET at[n \in 0..Cardinality(Thread)] ==
          IF n = 0 THEN m[p] ELSE IF at[n - 1] = NoThread THEN NoThread ELSE m[at[n - 1]]
    IN  {q \in Thread : \E n \in DOMAIN at : at[n] = q}

\* Threads that the pointers lead no further out of.
Closed(m, S) == \A x \in S : m[x] \in S \cup {NoThread}

LEMMA AfterReach == \A p : After(p) = Reach(nxt, p) /\ After(p)' = Reach(nxt', p)
  BY DEF After, Reach

LEMMA StepsFinite == Steps \in Nat /\ IsFiniteSet(Thread) /\ List \notin Thread /\ NoThread \notin Thread \cup {List}
  BY PthreadAssumption, FS_CardinalityType DEF Steps

LEMMA FollowsExists ==
    ASSUME NEW m \in Links, NEW p \in Thread \cup {List}
    PROVE  \E at : Follows(at, m, p)
<1> DEFINE T == Thread \cup {NoThread}
           Next(x) == IF x = NoThread THEN NoThread ELSE m[x]
           Upto(k) == {g \in [0..k -> T] : g[0] = m[p] /\ \A n \in 1..k : g[n] = Next(g[n - 1])}
           S == {k \in Nat : Upto(k) # {}}
<1>1. 0 \in S
  <2>1. [n \in 0..0 |-> m[p]] \in Upto(0)
    BY DEF Links
  <2> QED BY <2>1
<1>2. ASSUME NEW k \in Nat, k \in S PROVE k + 1 \in S
  <2>1. PICK g \in [0..k -> T] : g[0] = m[p] /\ \A n \in 1..k : g[n] = Next(g[n - 1])
    BY <1>2
  <2> DEFINE h == [n \in 0..k + 1 |-> IF n = k + 1 THEN Next(g[k]) ELSE g[n]]
  <2>2. Next(g[k]) \in T
    BY <2>1 DEF Links
  <2>3. h \in [0..k + 1 -> T]
    BY <2>1, <2>2
  <2>4. h[0] = m[p]
    BY <2>1
  <2>5. ASSUME NEW n \in 1..k + 1 PROVE h[n] = Next(h[n - 1])
    <3>1. n - 1 \in 0..k /\ h[n - 1] = g[n - 1]
      OBVIOUS
    <3>2. CASE n = k + 1
      BY <3>1, <3>2
    <3>3. CASE n # k + 1
      BY <2>1, <3>1, <3>3
    <3> QED BY <3>2, <3>3
  <2> HIDE DEF h
  <2> QED BY <2>3, <2>4, <2>5
<1>3. Steps \in S
  <2> HIDE DEF S
  <2> QED BY <1>1, <1>2, StepsFinite, NumberInduction
<1>4. PICK g \in [0..Steps -> T] : g[0] = m[p] /\ \A n \in 1..Steps : g[n] = Next(g[n - 1])
  BY <1>3
<1>5. Follows(g, m, p)
  <2>1. \A n \in 0..Steps : g[n] = IF n = 0 THEN m[p] ELSE Next(g[n - 1])
    BY <1>4, StepsFinite
  <2> QED BY <1>4, <2>1 DEF Follows
<1> QED BY <1>5

\* The threads reached, by where they stand.
LEMMA Standing ==
    ASSUME NEW m \in Links, NEW p \in Thread \cup {List}
    PROVE  \E at \in [0..Steps -> Thread \cup {NoThread}] :
              /\ at[0] = m[p]
              /\ \A n \in 1..Steps : at[n] = IF at[n - 1] = NoThread THEN NoThread ELSE m[at[n - 1]]
              /\ Reach(m, p) = {q \in Thread : \E n \in 0..Steps : at[n] = q}
<1> DEFINE at == CHOOSE g : Follows(g, m, p)
           T == Thread \cup {NoThread}
<1>1. Follows(at, m, p)
  BY FollowsExists
<1>2. Reach(m, p) = {q \in Thread : \E n \in DOMAIN at : at[n] = q}
  BY DEF Reach, Follows, Steps
<1> HIDE DEF at
<1>3. /\ DOMAIN at = 0..Steps /\ at = [n \in 0..Steps |-> at[n]] /\ at[0] = m[p]
      /\ \A n \in 1..Steps : at[n] = IF at[n - 1] = NoThread THEN NoThread ELSE m[at[n - 1]]
  BY <1>1, StepsFinite DEF Follows
<1>4. \A n \in 0..Steps : at[n] \in T
  <2> DEFINE S == {n \in Nat : n <= Steps => at[n] \in T}
  <2>1. 0 \in S
    BY <1>3 DEF Links
  <2>2. ASSUME NEW n \in Nat, n \in S PROVE n + 1 \in S
    <3>1. n + 1 <= Steps => n + 1 \in 1..Steps /\ n <= Steps /\ (n + 1) - 1 = n
      BY StepsFinite
    <3>2. n + 1 <= Steps => at[n + 1] = IF at[n] = NoThread THEN NoThread ELSE m[at[n]]
      BY <1>3, <3>1
    <3> QED BY <2>2, <3>1, <3>2 DEF Links
  <2>3. Nat \subseteq S
    <3> HIDE DEF S
    <3> QED BY <2>1, <2>2, NumberInduction
  <2> QED BY <2>3, StepsFinite
<1>5. at \in [0..Steps -> T]
  BY <1>3, <1>4
<1> QED BY <1>2, <1>3, <1>5

LEMMA ReachLeast ==
    ASSUME NEW m \in Links, NEW p \in Thread \cup {List}, NEW S \in SUBSET Thread,
           m[p] \in S \cup {NoThread}, Closed(m, S)
    PROVE  Reach(m, p) \subseteq S
<1>1. PICK at \in [0..Steps -> Thread \cup {NoThread}] :
              /\ at[0] = m[p]
              /\ \A n \in 1..Steps : at[n] = IF at[n - 1] = NoThread THEN NoThread ELSE m[at[n - 1]]
              /\ Reach(m, p) = {q \in Thread : \E n \in 0..Steps : at[n] = q}
  BY Standing
<1> DEFINE In == {n \in Nat : n <= Steps => at[n] \in S \cup {NoThread}}
<1>2. 0 \in In
  BY <1>1
<1>3. ASSUME NEW n \in Nat, n \in In PROVE n + 1 \in In
  <2>1. n + 1 <= Steps => n + 1 \in 1..Steps /\ n <= Steps /\ (n + 1) - 1 = n
    BY StepsFinite
  <2>2. n + 1 <= Steps => at[n + 1] = IF at[n] = NoThread THEN NoThread ELSE m[at[n]]
    BY <1>1, <2>1
  <2> QED BY <1>3, <2>1, <2>2 DEF Closed
<1>4. Nat \subseteq In
  <2> HIDE DEF In
  <2> QED BY <1>2, <1>3, NumberInduction
<1> QED BY <1>1, <1>4, StepsFinite

\* Of more threads than there are two are the same: the ones passed are all.
LEMMA ReachClosed ==
    ASSUME NEW m \in Links, NEW p \in Thread \cup {List}
    PROVE  m[p] \in Reach(m, p) \cup {NoThread} /\ Closed(m, Reach(m, p)) /\ Reach(m, p) \subseteq Thread
<1>1. PICK at \in [0..Steps -> Thread \cup {NoThread}] :
              /\ at[0] = m[p]
              /\ \A n \in 1..Steps : at[n] = IF at[n - 1] = NoThread THEN NoThread ELSE m[at[n - 1]]
              /\ Reach(m, p) = {q \in Thread : \E n \in 0..Steps : at[n] = q}
  BY Standing
<1> DEFINE R == Reach(m, p)
<1>2. \A n \in 0..Steps : at[n] \in R \cup {NoThread}
  BY <1>1
<1>3. \A n \in 0..Steps - 1 : at[n + 1] = IF at[n] = NoThread THEN NoThread ELSE m[at[n]]
  <2>1. \A n \in 0..Steps - 1 : n + 1 \in 1..Steps /\ (n + 1) - 1 = n
    BY StepsFinite
  <2> QED BY <1>1, <2>1
<1>4. m[p] \in R \cup {NoThread}
  BY <1>1, <1>2, StepsFinite
<1>5. \E k \in 0..Steps : at[k] = NoThread \/ (k > 0 /\ at[k] \in {at[j] : j \in 0..k - 1})
  <2> SUFFICES ASSUME \A k \in 0..Steps : at[k] # NoThread
               PROVE  \E k \in 0..Steps : k > 0 /\ at[k] \in {at[j] : j \in 0..k - 1}
    OBVIOUS
  <2>1. at \in [0..Steps -> Thread]
    BY StepsFinite
  <2>2. IsFiniteSet(0..Steps) /\ Cardinality(0..Steps) = Steps + 1
    BY FS_Interval, StepsFinite
  <2>3. PICK i, j \in 0..Steps : i # j /\ at[i] = at[j]
    BY <2>1, <2>2, FS_PigeonHole, StepsFinite DEF Steps
  <2>4. CASE i < j
    BY <2>3, <2>4, StepsFinite
  <2>5. CASE j < i
    BY <2>3, <2>5, StepsFinite
  <2> QED BY <2>3, <2>4, <2>5, StepsFinite
<1>6. PICK k \in 0..Steps : at[k] = NoThread \/ (k > 0 /\ at[k] \in {at[j] : j \in 0..k - 1})
  BY <1>5
<1> DEFINE V == {at[j] : j \in 0..k - 1} \cap Thread
<1>7. V \subseteq R
  BY <1>1, StepsFinite
<1>8. \A j \in 0..k - 1 : j \in 0..Steps - 1 /\ j + 1 \in 0..Steps /\ (j + 1 \in 0..k - 1 \/ j + 1 = k)
  BY StepsFinite
<1>9. \A j \in 0..k : at[j] \in V \cup {NoThread}
  <2>1. \A j \in 0..k - 1 : at[j] \in V \cup {NoThread}
    BY <1>8, StepsFinite
  <2>2. at[k] \in V \cup {NoThread}
    BY <1>6, <2>1
  <2> QED BY <2>1, <2>2, StepsFinite
<1>10. Closed(m, V)
  <2> SUFFICES ASSUME NEW j \in 0..k - 1, at[j] \in Thread PROVE m[at[j]] \in V \cup {NoThread}
    BY DEF Closed
  <2>1. at[j + 1] = m[at[j]]
    BY <1>3, <1>8, StepsFinite
  <2>2. j + 1 \in 0..k
    BY <1>8
  <2> QED BY <1>9, <2>1, <2>2
<1>11. m[p] \in V \cup {NoThread}
  BY <1>1, <1>9, StepsFinite
<1>12. R \subseteq V
  BY <1>10, <1>11, ReachLeast
<1>13. R = V
  BY <1>7, <1>12
<1> QED BY <1>4, <1>10, <1>13

\* The task's list, for any next pointers: from no thread on it back to itself.
On(m)      == Reach(m, List)
Acyclic(m) == \A q \in On(m) : q \notin Reach(m, q)

LEMMA ReachOn ==
    ASSUME NEW m \in Links
    PROVE  /\ On(m) \subseteq Thread /\ Closed(m, On(m)) /\ m[List] \in On(m) \cup {NoThread}
           /\ \A q \in On(m) : Reach(m, q) \subseteq On(m)
<1>1. On(m) \subseteq Thread /\ Closed(m, On(m)) /\ m[List] \in On(m) \cup {NoThread}
  BY ReachClosed DEF On
<1>2. ASSUME NEW q \in On(m) PROVE Reach(m, q) \subseteq On(m)
  <2>1. q \in Thread \cup {List} /\ m[q] \in On(m) \cup {NoThread}
    BY <1>1 DEF Closed
  <2> QED BY <1>1, <2>1, ReachLeast
<1> QED BY <1>1, <1>2

\* What follows a thread is the next one and what follows that.
LEMMA ReachStep ==
    ASSUME NEW m \in Links, NEW p \in Thread \cup {List}, m[p] # NoThread
    PROVE  m[p] \in Thread /\ Reach(m, p) \subseteq {m[p]} \cup Reach(m, m[p])
<1> DEFINE q == m[p]
<1>1. q \in Thread
  BY DEF Links
<1>2. m[q] \in Reach(m, q) \cup {NoThread} /\ Closed(m, Reach(m, q)) /\ Reach(m, q) \subseteq Thread
  BY <1>1, ReachClosed
<1> DEFINE S == {q} \cup Reach(m, q)
<1>3. S \in SUBSET Thread /\ m[p] \in S \cup {NoThread} /\ Closed(m, S)
  BY <1>1, <1>2 DEF Closed
<1> HIDE DEF S
<1>4. Reach(m, p) \subseteq S
  BY <1>3, ReachLeast
<1> QED BY <1>1, <1>4 DEF S

LEMMA ReachNone ==
    ASSUME NEW m \in Links, NEW p \in Thread \cup {List}, m[p] = NoThread
    PROVE  Reach(m, p) = {}
<1>1. {} \in SUBSET Thread /\ m[p] \in {} \cup {NoThread}
  OBVIOUS
<1>2. Closed(m, {})
  BY DEF Closed
<1> QED BY <1>1, <1>2, ReachLeast

\* A thread put in front: osel_pthread_create.
LEMMA LinkIn ==
    ASSUME NEW m \in Links, NEW p \in Thread, p \notin On(m), Acyclic(m),
           NEW n, n = [m EXCEPT ![p] = m[List], ![List] = p]
    PROVE  /\ n \in Links /\ On(n) = On(m) \cup {p} /\ Acyclic(n)
           /\ \A q \in Thread \cup {List} : Reach(m, q) \cap On(m) \subseteq Reach(n, q)
<1> DEFINE L == On(m)
<1>1. /\ L \subseteq Thread /\ Closed(m, L) /\ m[List] \in L \cup {NoThread}
      /\ \A q \in L : Reach(m, q) \subseteq L
  BY ReachOn
<1>2. /\ n \in Links /\ n[List] = p /\ n[p] = m[List]
      /\ \A q \in Thread : q # p => n[q] = m[q]
  BY StepsFinite DEF Links
<1> HIDE DEF L
<1>p. p \notin L
  BY DEF L
<1>3. Closed(n, L) /\ Closed(n, L \cup {p})
  BY <1>p, <1>1, <1>2 DEF Closed
<1>4. On(n) \subseteq L \cup {p}
  <2>1. n[List] \in (L \cup {p}) \cup {NoThread} /\ L \cup {p} \in SUBSET Thread
    BY <1>1, <1>2
  <2> QED BY <1>2, <1>3, <2>1, ReachLeast DEF On
<1>5. Reach(n, p) \subseteq L
  BY <1>1, <1>2, <1>3, ReachLeast
<1>6. ASSUME NEW S \in SUBSET Thread, p \in S, Closed(n, S) PROVE L \subseteq S
  <2> DEFINE C == S \cap L
  <2>1. C \in SUBSET Thread /\ m[List] \in C \cup {NoThread}
    BY <1>1, <1>2, <1>6 DEF Closed
  <2>2. Closed(m, C)
    BY <1>p, <1>1, <1>2, <1>6 DEF Closed
  <2> HIDE DEF C
  <2>3. L \subseteq C
    BY <2>1, <2>2, ReachLeast DEF L, On
  <2> QED BY <2>3 DEF C
<1>7. ASSUME NEW q \in Thread \cup {List}
      PROVE  /\ n[q] \in Reach(n, q) \cup {NoThread} /\ Closed(n, Reach(n, q))
             /\ Reach(n, q) \in SUBSET Thread
  BY <1>2, ReachClosed
<1>8. L \cup {p} \subseteq On(n)
  <2>1. p \in On(n)
    BY <1>2, <1>7, StepsFinite DEF On
  <2> QED BY <1>6, <1>7, <2>1 DEF On
<1>9. ASSUME NEW q \in Thread \cup {List} PROVE Reach(m, q) \cap L \subseteq Reach(n, q)
  <2>1. CASE p \in Reach(n, q)
    BY <1>6, <1>7, <2>1
  <2>2. CASE p \notin Reach(n, q) /\ q # p
    <3>1. q # List
      BY <1>2, <1>7, <2>2, StepsFinite
    <3>2. m[q] \in Reach(n, q) \cup {NoThread}
      BY <1>2, <1>7, <2>2, <3>1
    <3>3. Closed(m, Reach(n, q))
      BY <1>2, <1>7, <2>2 DEF Closed
    <3>4. Reach(m, q) \subseteq Reach(n, q)
      BY <1>7, <3>2, <3>3, ReachLeast
    <3> QED BY <3>4
  <2>3. CASE q = p
    <3> DEFINE C == Reach(n, p) \cap L
    <3>1. C \in SUBSET Thread /\ m[List] \in C \cup {NoThread}
      BY <1>1, <1>2, <1>7
    <3>2. Closed(m, C)
      <4>1. \A x \in C : x # p /\ n[x] = m[x]
        BY <1>p, <1>1, <1>2
      <4> QED BY <1>1, <1>7, <4>1 DEF Closed
    <3> HIDE DEF C
    <3>3. L \subseteq C
      BY <3>1, <3>2, ReachLeast DEF L, On
    <3> QED BY <2>3, <3>3 DEF C
  <2> QED BY <2>1, <2>2, <2>3
<1>10. ASSUME NEW q \in On(n) PROVE q \notin Reach(n, q)
  <2>1. CASE q = p
    BY <1>p, <1>5, <2>1
  <2>2. CASE q \in L
    <3>1. q \in Thread /\ q # p /\ n[q] = m[q] /\ q \notin Reach(m, q) /\ Reach(m, q) \subseteq L
      BY <1>p, <1>1, <1>2, <2>2 DEF Acyclic, L
    <3>2. m[q] \in Reach(m, q) \cup {NoThread} /\ Closed(m, Reach(m, q)) /\ Reach(m, q) \in SUBSET Thread
      BY <3>1, ReachClosed
    <3>3. Closed(n, Reach(m, q))
      BY <1>p, <1>1, <1>2, <3>1, <3>2 DEF Closed
    <3>4. Reach(n, q) \subseteq Reach(m, q)
      BY <1>2, <3>1, <3>2, <3>3, ReachLeast
    <3> QED BY <3>1, <3>4
  <2> QED BY <1>4, <2>1, <2>2
<1> QED BY <1>2, <1>4, <1>8, <1>9, <1>10 DEF Acyclic, L

\* A thread taken off: the end of osel_pthread_exit. Its own pointer, and those
\* that threads off the list have to it, still lead on.
LEMMA LinkOut ==
    ASSUME NEW m \in Links, NEW p \in On(m), Acyclic(m),
           NEW n, n = [q \in DOMAIN m |-> IF m[q] = p /\ q \in On(m) \cup {List} THEN m[p] ELSE m[q]]
    PROVE  /\ n \in Links /\ On(n) = On(m) \ {p} /\ Acyclic(n)
           /\ \A q \in Thread \cup {List} : Reach(m, q) \ {p} \subseteq Reach(n, q)
<1> DEFINE L == On(m)
<1>1. /\ L \subseteq Thread /\ Closed(m, L) /\ m[List] \in L \cup {NoThread}
      /\ \A q \in L : Reach(m, q) \subseteq L
  BY ReachOn
<1>2. /\ p \in Thread /\ n \in Links
      /\ \A q \in Thread \cup {List} : n[q] = IF m[q] = p /\ q \in L \cup {List} THEN m[p] ELSE m[q]
  BY <1>1 DEF Links, L
<1>p. p \in L
  BY DEF L
<1>3. m[p] # p
  <2>1. m[p] \in Reach(m, p) \cup {NoThread} /\ p \notin Reach(m, p)
    BY <1>2, ReachClosed DEF Acyclic
  <2> QED BY <1>2, <2>1, StepsFinite
<1> HIDE DEF L
<1>4. ASSUME NEW q \in Thread \cup {List}
      PROVE  /\ n[q] \in Reach(n, q) \cup {NoThread} /\ Closed(n, Reach(n, q)) /\ Reach(n, q) \in SUBSET Thread
             /\ m[q] \in Reach(m, q) \cup {NoThread} /\ Closed(m, Reach(m, q)) /\ Reach(m, q) \in SUBSET Thread
  BY <1>2, ReachClosed
<1>5. On(n) \subseteq L \ {p}
  <2> DEFINE S == L \ {p}
  <2>1. S \in SUBSET Thread
    BY <1>1
  <2>2. m[p] \in S \cup {NoThread}
    BY <1>p, <1>1, <1>3 DEF Closed
  <2>3. n[List] \in S \cup {NoThread}
    BY <1>1, <1>2, <2>2
  <2>4. Closed(n, S)
    BY <1>1, <1>2, <2>2 DEF Closed
  <2> HIDE DEF S
  <2>5. On(n) \subseteq S
    BY <1>2, <2>1, <2>3, <2>4, ReachLeast DEF On
  <2> QED BY <2>5 DEF S
<1>6. ASSUME NEW q \in Thread \cup {List} PROVE Reach(m, q) \ {p} \subseteq Reach(n, q)
  <2> DEFINE R == Reach(n, q)
             S == {x \in Reach(m, q) : x \in R \/ (x = p /\ m[p] \in R \cup {NoThread})}
  <2>1. S \in SUBSET Thread
    BY <1>4
  <2>2. m[q] \in S \cup {NoThread}
    BY <1>2, <1>4
  <2>3. ASSUME NEW x \in S PROVE m[x] \in S \cup {NoThread}
    <3>1. x \in Thread /\ m[x] \in Reach(m, q) \cup {NoThread}
      BY <1>4 DEF Closed
    <3>2. CASE x \in R
      <4>1. n[x] \in R \cup {NoThread}
        BY <1>4, <3>2 DEF Closed
      <4> QED BY <1>2, <3>1, <4>1
    <3>3. CASE x = p /\ m[p] \in R \cup {NoThread}
      BY <3>1, <3>3
    <3> QED BY <3>2, <3>3
  <2>4. Reach(m, q) \subseteq S
    <3>1. Closed(m, S)
      BY <2>3 DEF Closed
    <3> HIDE DEF S
    <3> QED BY <2>1, <2>2, <3>1, ReachLeast
  <2> QED BY <2>4
<1>7. L \ {p} \subseteq On(n)
  BY <1>6 DEF On, L
<1>8. ASSUME NEW q \in On(n) PROVE q \notin Reach(n, q)
  <2>1. q \in Thread /\ q \in L /\ q \notin Reach(m, q)
    BY <1>1, <1>5 DEF Acyclic, L
  <2> DEFINE S == Reach(m, q)
  <2>2. S \in SUBSET Thread /\ Closed(m, S) /\ m[q] \in S \cup {NoThread}
    BY <1>4, <2>1
  <2>3. p \in S => m[p] \in S \cup {NoThread}
    BY <2>2 DEF Closed
  <2>4. n[q] \in S \cup {NoThread}
    BY <1>2, <2>1, <2>2, <2>3, StepsFinite
  <2>5. Closed(n, S)
    BY <1>2, <2>2, <2>3, StepsFinite DEF Closed
  <2>6. Reach(n, q) \subseteq S
    BY <1>2, <2>1, <2>2, <2>4, <2>5, ReachLeast
  <2> QED BY <2>1, <2>6
<1> QED BY <1>2, <1>5, <1>6, <1>7, <1>8 DEF Acyclic, L

-----------------------------------------------------------------------------
(* The list, the states and the activations together.                       *)

States == [Thread -> {"NONE", "RUNNING", "CALLED"}]

\* Threads on their way out, and what the activations say of the states.
Out(c) == {c[i].p : i \in {j \in 1..Len(c) : c[j].op = "exit"}}
Stated(st, c) ==
    \A i \in 1..Len(c) :
        /\ c[i].op = "exit" => st[c[i].p] = "NONE"
        /\ c[i].op = "body" => st[c[i].p] = "CALLED"
\* No thread runs twice, or exits twice.
Single(c) ==
    \A i, j \in 1..Len(c) :
        i # j /\ c[i].op = c[j].op /\ c[i].op \in {"body", "exit"} => c[i].p # c[j].p
\* A walk still has before it what it owes.
WalkOn(m, f) ==
    /\ f.op \in {"poll", "exit"} => f.owed \subseteq Reach(m, f.last) \cap On(m)
    /\ f.op = "exit" => \A x \in f.owed : f.p \in Reach(m, x)

Alive(m, st, c) == On(m) = {p \in Thread : st[p] # "NONE"} \cup Out(c)
Sound(m, st, c) ==
    /\ Acyclic(m) /\ Alive(m, st, c)
    /\ Stated(st, c) /\ Single(c)
    /\ \A i \in 1..Len(c) : WalkOn(m, c[i])

LInv == IInv /\ Sound(nxt, pstate, calls)

LEMMA FrameP == \A f \in Frames : f.op \in {"body", "bye", "exit"} => f.p \in Thread
  BY BodyType, WalkType

\* An activation put on top, with the state of its thread.
LEMMA PushSound ==
    ASSUME NEW m \in Links, NEW st \in States, NEW c \in Seq(Frames), Sound(m, st, c),
           NEW f \in Frames, WalkOn(m, f), NEW t,
           f.op = "body" => st[f.p] = "RUNNING" /\ t = [st EXCEPT ![f.p] = "CALLED"],
           f.op = "exit" => /\ st[f.p] # "NONE" /\ t = [st EXCEPT ![f.p] = "NONE"]
                            /\ \A i \in 1..Len(c) : c[i].op = "body" => c[i].p # f.p,
           f.op \in {"poll", "bye"} => t = st
    PROVE  t \in States /\ Sound(m, t, <<f>> \o c)
<1> DEFINE d == <<f>> \o c
<1>1. /\ d \in Seq(Frames) /\ Len(d) = Len(c) + 1 /\ d[1] = f /\ Len(c) \in Nat
      /\ \A i \in 2..Len(d) : d[i] = c[i - 1]
  BY PushShape
<1> HIDE DEF d
<1>2. \A i \in 1..Len(d) : i = 1 \/ (i - 1 \in 1..Len(c) /\ d[i] = c[i - 1])
  BY <1>1
<1>3. \A i \in 1..Len(c) : i + 1 \in 1..Len(d) /\ d[i + 1] = c[i]
  <2> TAKE i \in 1..Len(c)
  <2>1. i + 1 \in 2..Len(d) /\ (i + 1) - 1 = i
    BY <1>1
  <2> QED BY <1>1, <2>1
<1>4. 1 \in 1..Len(d) /\ d[1] = f
  BY <1>1
<1>5. f.op \in {"poll", "exit", "body", "bye"} /\ (f.op \in {"body", "exit"} => f.p \in Thread)
  BY BodyType, FrameP
<1>6. \A i \in 1..Len(c) : c[i] \in Frames /\ (c[i].op \in {"body", "exit"} => c[i].p \in Thread)
  <2>1. \A i \in 1..Len(c) : c[i] \in Frames
    OBVIOUS
  <2> QED BY <2>1, FrameP
<1>7. t \in States
  BY <1>5 DEF States
<1>8. Stated(st, c) /\ Single(c) /\ Alive(m, st, c) /\ Acyclic(m)
  BY DEF Sound
<1>9. \A i \in 1..Len(c) : c[i].op = f.op /\ f.op \in {"body", "exit"} => c[i].p # f.p
  BY <1>8 DEF Stated
<1>10. \A i \in 1..Len(c) : c[i].op \in {"body", "exit"} => t[c[i].p] = st[c[i].p]
  BY <1>5, <1>6, <1>8, <1>9 DEF Stated, States
<1>11. Stated(t, d)
  <2> SUFFICES ASSUME NEW i \in 1..Len(d)
               PROVE  /\ d[i].op = "exit" => t[d[i].p] = "NONE"
                      /\ d[i].op = "body" => t[d[i].p] = "CALLED"
    BY DEF Stated
  <2>1. CASE i = 1
    BY <1>4, <1>5, <2>1 DEF States
  <2>2. CASE i - 1 \in 1..Len(c) /\ d[i] = c[i - 1]
    BY <1>8, <1>10, <2>2 DEF Stated
  <2> QED BY <1>2, <2>1, <2>2
<1>12. Single(d)
  <2> SUFFICES ASSUME NEW i \in 1..Len(d), NEW j \in 1..Len(d), i # j, d[i].op = d[j].op,
                      d[i].op \in {"body", "exit"}
               PROVE  d[i].p # d[j].p
    BY DEF Single
  <2>1. CASE i = 1 /\ j # 1
    BY <1>2, <1>4, <1>9, <2>1
  <2>2. CASE j = 1 /\ i # 1
    BY <1>2, <1>4, <1>9, <2>2
  <2>3. CASE i # 1 /\ j # 1
    <3>1. i - 1 \in 1..Len(c) /\ d[i] = c[i - 1] /\ j - 1 \in 1..Len(c) /\ d[j] = c[j - 1]
      BY <1>2, <2>3
    <3>2. i - 1 # j - 1
      OBVIOUS
    <3>3. \A k, l \in 1..Len(c) :
             k # l /\ c[k].op = c[l].op /\ c[k].op \in {"body", "exit"} => c[k].p # c[l].p
      BY <1>8 DEF Single
    <3> QED BY <3>1, <3>2, <3>3
  <2> QED BY <2>1, <2>2, <2>3
<1>13. Out(d) = Out(c) \cup (IF f.op = "exit" THEN {f.p} ELSE {})
  <2>1. ASSUME NEW i \in 1..Len(d), d[i].op = "exit"
        PROVE  d[i].p \in Out(c) \/ (f.op = "exit" /\ d[i].p = f.p)
    <3>1. CASE i = 1
      BY <1>4, <2>1, <3>1
    <3>2. CASE i - 1 \in 1..Len(c) /\ d[i] = c[i - 1]
      BY <2>1, <3>2 DEF Out
    <3> QED BY <1>2, <3>1, <3>2
  <2>2. \A x \in Out(c) : x \in Out(d)
    BY <1>3 DEF Out
  <2>3. f.op = "exit" => f.p \in Out(d)
    BY <1>4 DEF Out
  <2>4. \A x \in Out(d) : x \in Out(c) \/ (f.op = "exit" /\ x = f.p)
    BY <2>1 DEF Out
  <2> QED BY <2>2, <2>3, <2>4
<1>14. Alive(m, t, d)
  BY <1>5, <1>8, <1>13 DEF Alive, States
<1>15. \A i \in 1..Len(d) : WalkOn(m, d[i])
  BY <1>2, <1>4 DEF Sound
<1> QED BY <1>7, <1>8, <1>11, <1>12, <1>14, <1>15 DEF Sound, d

\* An activation that ends, other than an exit.
LEMMA PopSound ==
    ASSUME NEW m, NEW st, NEW c \in Seq(Frames), Sound(m, st, c), c # <<>>, Head(c).op # "exit"
    PROVE  /\ Sound(m, st, Tail(c)) /\ Tail(c) \in Seq(Frames)
           /\ Head(c).op = "body" => /\ st[Head(c).p] = "CALLED"
                                     /\ \A i \in 1..Len(Tail(c)) : Tail(c)[i].op = "body" => Tail(c)[i].p # Head(c).p
<1> DEFINE d == Tail(c)
<1>1. /\ Head(c) = c[1] /\ d \in Seq(Frames) /\ Len(d) = Len(c) - 1 /\ Len(c) \in Nat \ {0}
      /\ \A i \in 1..Len(d) : d[i] = c[i + 1]
  BY PopShape
<1> HIDE DEF d
<1>2. \A i \in 1..Len(d) : i + 1 \in 1..Len(c) /\ d[i] = c[i + 1] /\ i + 1 # 1
  BY <1>1
<1>3. 1 \in 1..Len(c)
  BY <1>1
<1>4. Stated(st, c) /\ Single(c) /\ Alive(m, st, c) /\ Acyclic(m)
  BY DEF Sound
<1>5. Stated(st, d)
  BY <1>2, <1>4 DEF Stated
<1>6. Single(d)
  <2> SUFFICES ASSUME NEW i \in 1..Len(d), NEW j \in 1..Len(d), i # j, d[i].op = d[j].op,
                      d[i].op \in {"body", "exit"}
               PROVE  d[i].p # d[j].p
    BY DEF Single
  <2>1. i + 1 # j + 1
    OBVIOUS
  <2> QED BY <1>2, <1>4, <2>1 DEF Single
<1>7. Out(d) = Out(c)
  <2>1. \A x \in Out(d) : x \in Out(c)
    BY <1>2 DEF Out
  <2>2. ASSUME NEW i \in 1..Len(c), c[i].op = "exit" PROVE c[i].p \in Out(d)
    <3>1. i - 1 \in 1..Len(d) /\ (i - 1) + 1 = i
      BY <1>1, <2>2
    <3> QED BY <1>1, <2>2, <3>1 DEF Out
  <2>3. \A x \in Out(c) : x \in Out(d)
    BY <2>2 DEF Out
  <2> QED BY <2>1, <2>3
<1>8. \A i \in 1..Len(d) : WalkOn(m, d[i])
  BY <1>2 DEF Sound
<1>9. Head(c).op = "body" => /\ st[Head(c).p] = "CALLED"
                             /\ \A i \in 1..Len(d) : d[i].op = "body" => d[i].p # Head(c).p
  BY <1>1, <1>2, <1>3, <1>4 DEF Stated, Single
<1> QED BY <1>1, <1>4, <1>5, <1>6, <1>7, <1>8, <1>9 DEF Sound, Alive, d

\* Walks that move on.
LEMMA AlterSound ==
    ASSUME NEW m, NEW st, NEW c, NEW d, Sound(m, st, c), Len(d) = Len(c),
           \A i \in 1..Len(c) : d[i].op = c[i].op /\ d[i].p = c[i].p /\ WalkOn(m, d[i])
    PROVE  Sound(m, st, d)
<1>1. Out(d) = Out(c)
  BY DEF Out
<1> QED BY <1>1 DEF Sound, Alive, Stated, Single

LEMMA HeadMoves ==
    ASSUME NEW c \in Seq(Frames), c # <<>>, NEW f \in Frames
    PROVE  LET d == <<f>> \o Tail(c) IN
           /\ d \in Seq(Frames) /\ Len(d) = Len(c) /\ d[1] = f /\ 1 \in 1..Len(c) /\ Head(c) = c[1]
           /\ \A i \in 1..Len(c) : i # 1 => d[i] = c[i]
<1> DEFINE t == Tail(c)
           d == <<f>> \o t
<1>1. /\ t \in Seq(Frames) /\ Len(t) = Len(c) - 1 /\ Len(c) \in Nat \ {0} /\ Head(c) = c[1]
      /\ \A i \in 1..Len(t) : t[i] = c[i + 1]
  BY PopShape
<1> HIDE DEF t
<1>2. d \in Seq(Frames) /\ Len(d) = Len(t) + 1 /\ d[1] = f /\ \A i \in 2..Len(d) : d[i] = t[i - 1]
  BY <1>1, PushShape
<1> HIDE DEF d
<1>3. Len(d) = Len(c) /\ \A i \in 2..Len(c) : d[i] = c[i]
  BY <1>1, <1>2
<1>4. \A i \in 1..Len(c) : i # 1 => i \in 2..Len(c)
  BY <1>1
<1> QED BY <1>1, <1>2, <1>3, <1>4 DEF d, t

LEMMA HeadSound ==
    ASSUME NEW m, NEW st, NEW c \in Seq(Frames), c # <<>>, Sound(m, st, c), NEW f \in Frames,
           f.op = Head(c).op, f.p = Head(c).p, WalkOn(m, f)
    PROVE  Sound(m, st, <<f>> \o Tail(c))
<1> DEFINE d == <<f>> \o Tail(c)
<1>1. /\ Len(d) = Len(c) /\ d[1] = f /\ 1 \in 1..Len(c) /\ Head(c) = c[1]
      /\ \A i \in 1..Len(c) : i # 1 => d[i] = c[i]
  BY HeadMoves
<1> HIDE DEF d
<1>2. \A i \in 1..Len(c) : d[i].op = c[i].op /\ d[i].p = c[i].p /\ WalkOn(m, d[i])
  BY <1>1 DEF Sound
<1> QED BY <1>1, <1>2, AlterSound DEF d

\* A thread put in front of the list, in osel_pthread_create.
LEMMA CreateSound ==
    ASSUME NEW m \in Links, NEW st \in States, NEW c \in Seq(Frames), Sound(m, st, c),
           NEW p \in Thread, p \notin On(m),
           NEW n, n = [m EXCEPT ![p] = m[List], ![List] = p]
    PROVE  n \in Links /\ Sound(n, [st EXCEPT ![p] = "RUNNING"], c)
<1> DEFINE t == [st EXCEPT ![p] = "RUNNING"]
<1>1. Stated(st, c) /\ Single(c) /\ Alive(m, st, c) /\ Acyclic(m)
  BY DEF Sound
<1>2. /\ n \in Links /\ On(n) = On(m) \cup {p} /\ Acyclic(n)
      /\ \A q \in Thread \cup {List} : Reach(m, q) \cap On(m) \subseteq Reach(n, q)
  BY <1>1, LinkIn
<1>3. st[p] = "NONE" /\ p \notin Out(c)
  BY <1>1 DEF Alive, States
<1>4. Stated(t, c)
  <2>1. \A i \in 1..Len(c) : c[i].op \in {"exit", "body"} => c[i].p \in Thread
    BY FrameP
  <2>2. \A i \in 1..Len(c) : c[i].op \in {"exit", "body"} => c[i].p # p
    BY <1>1, <1>3 DEF Out, Stated
  <2> QED BY <1>1, <2>1, <2>2 DEF Stated, States
<1>5. Alive(n, t, c)
  BY <1>1, <1>2 DEF Alive, States
<1>6. ASSUME NEW i \in 1..Len(c) PROVE WalkOn(n, c[i])
  <2>1. WalkOn(m, c[i]) /\ c[i] \in Frames
    BY DEF Sound
  <2>2. CASE c[i].op \in {"poll", "exit"}
    <3>1. c[i].last \in Thread \cup {List} /\ c[i].owed \subseteq Thread
      BY <2>1, <2>2, WalkType
    <3>2. \A x \in c[i].owed : Reach(m, x) \subseteq On(m)
      BY <2>1, <2>2, ReachOn DEF WalkOn
    <3> QED BY <1>2, <2>1, <2>2, <3>1, <3>2 DEF WalkOn
  <2>3. CASE c[i].op \notin {"poll", "exit"}
    BY <2>3 DEF WalkOn
  <2> QED BY <2>2, <2>3
<1> QED BY <1>1, <1>2, <1>4, <1>5, <1>6 DEF Sound

\* The thread of the innermost exit taken off the list.
LEMMA UnlinkSound ==
    ASSUME NEW m \in Links, NEW st, NEW c \in Seq(Frames), c # <<>>, Sound(m, st, c),
           Head(c).op = "exit", NEW p, p = Head(c).p,
           NEW n, n = [q \in DOMAIN m |-> IF m[q] = p /\ q \in On(m) \cup {List} THEN m[p] ELSE m[q]],
           NEW d, Len(d) = Len(c) - 1,
           \A i \in 1..Len(c) - 1 :
              d[i] = IF c[i + 1].op \in {"body", "bye"} THEN c[i + 1]
                     ELSE [c[i + 1] EXCEPT !.owed = @ \ {p}]
    PROVE  Sound(n, st, d)
<1>1. Stated(st, c) /\ Single(c) /\ Alive(m, st, c) /\ Acyclic(m)
  BY DEF Sound
<1>2. Head(c) = c[1] /\ Len(c) \in Nat \ {0} /\ 1 \in 1..Len(c) /\ c[1].op = "exit" /\ c[1].p = p
  BY PopShape
<1>3. p \in Out(c) /\ st[p] = "NONE"
  BY <1>1, <1>2 DEF Out, Stated
<1>4. p \in On(m)
  BY <1>1, <1>3 DEF Alive
<1>5. /\ n \in Links /\ On(n) = On(m) \ {p} /\ Acyclic(n)
      /\ \A q \in Thread \cup {List} : Reach(m, q) \ {p} \subseteq Reach(n, q)
  BY <1>1, <1>4, LinkOut
<1>6. \A i \in 1..Len(d) : i + 1 \in 1..Len(c) /\ i + 1 # 1 /\ c[i + 1] \in Frames
  BY <1>2
<1>7. \A i \in 1..Len(d) : d[i].op = c[i + 1].op /\ d[i].p = c[i + 1].p
  <2> DEFINE Less(e) == IF e.op \in {"body", "bye"} THEN e ELSE [e EXCEPT !.owed = @ \ {p}]
  <2>1. \A e \in Frames : Less(e).op = e.op /\ Less(e).p = e.p
    BY DEF Frames, Walks, Bodies
  <2>2. \A i \in 1..Len(d) : d[i] = Less(c[i + 1])
    OBVIOUS
  <2> HIDE DEF Less
  <2> QED BY <1>6, <2>1, <2>2
<1>8. \A i \in 1..Len(d) : c[i + 1].op = "exit" => c[i + 1].p # p
  BY <1>1, <1>2, <1>6 DEF Single
<1>9. Out(d) = Out(c) \ {p}
  <2>1. \A x \in Out(d) : x \in Out(c) /\ x # p
    BY <1>6, <1>7, <1>8 DEF Out
  <2>2. ASSUME NEW i \in 1..Len(c), c[i].op = "exit", c[i].p # p PROVE c[i].p \in Out(d)
    <3>0. i # 1
      BY <1>2, <2>2
    <3>1. i - 1 \in 1..Len(d) /\ (i - 1) + 1 = i
      BY <1>2, <3>0
    <3>2. d[i - 1].op = "exit" /\ d[i - 1].p = c[i].p
      BY <1>7, <2>2, <3>1
    <3> QED BY <3>1, <3>2 DEF Out
  <2>3. \A x \in Out(c) : x # p => x \in Out(d)
    BY <2>2 DEF Out
  <2> QED BY <2>1, <2>3
<1>10. Alive(n, st, d)
  BY <1>1, <1>3, <1>5, <1>9 DEF Alive
<1>11. Stated(st, d)
  BY <1>1, <1>6, <1>7 DEF Stated
<1>12. Single(d)
  <2> SUFFICES ASSUME NEW i \in 1..Len(d), NEW j \in 1..Len(d), i # j, d[i].op = d[j].op,
                      d[i].op \in {"body", "exit"}
               PROVE  d[i].p # d[j].p
    BY DEF Single
  <2>1. i + 1 # j + 1
    BY <1>2
  <2> QED BY <1>1, <1>6, <1>7, <2>1 DEF Single
<1>13. ASSUME NEW i \in 1..Len(d) PROVE WalkOn(n, d[i])
  <2> DEFINE e == c[i + 1]
  <2>1. e \in Frames /\ WalkOn(m, e) /\ d[i].op = e.op /\ d[i].p = e.p
    BY <1>6, <1>7 DEF Sound
  <2>2. CASE e.op \in {"poll", "exit"}
    <3>1. e.last \in Thread \cup {List} /\ e.owed \subseteq Thread
      BY <2>1, <2>2, WalkType
    <3>2. d[i].last = e.last /\ d[i].owed = e.owed \ {p}
      <4>1. d[i] = [e EXCEPT !.owed = @ \ {p}] /\ i \in 1..Len(c) - 1
        BY <2>2
      <4> HIDE DEF e
      <4> QED BY <2>1, <2>2, <4>1 DEF Frames, Walks, Bodies
    <3>3. e.op = "exit" => e.p # p
      BY <1>8
    <3> HIDE DEF e
    <3>4. e.owed \ {p} \subseteq Reach(n, e.last) \cap On(n)
      BY <1>5, <2>1, <2>2, <3>1 DEF WalkOn
    <3>5. e.op = "exit" => \A x \in e.owed \ {p} : e.p \in Reach(n, x)
      BY <1>5, <2>1, <3>1, <3>3 DEF WalkOn
    <3> QED BY <2>1, <3>2, <3>4, <3>5 DEF WalkOn
  <2>3. CASE e.op \notin {"poll", "exit"}
    BY <2>1, <2>3 DEF WalkOn
  <2> QED BY <2>2, <2>3
<1> QED BY <1>5, <1>10, <1>11, <1>12, <1>13 DEF Sound

-----------------------------------------------------------------------------
(* The steps again.                                                         *)

LEMMA CallKeeps ==
    ASSUME PthreadTypeOK, NEW m \in Links, NEW st \in States, NEW rest \in Seq(Frames),
           Sound(m, st, rest), NEW p \in Thread, Call(p, st, rest)
    PROVE  Sound(m, pstate', calls')
<1>1. CASE st[p] # "RUNNING"
  BY <1>1 DEF Call
<1>2. CASE st[p] = "RUNNING"
  <2> DEFINE f == [op |-> "body", p |-> p, back |-> process_current]
  <2>1. f \in Frames /\ f.op = "body" /\ f.p = p
    BY BodyType DEF PthreadTypeOK, Threads
  <2>2. calls' = <<f>> \o rest /\ pstate' = [st EXCEPT ![p] = "CALLED"]
    BY <1>2 DEF Call
  <2> HIDE DEF f
  <2>3. WalkOn(m, f)
    BY <2>1 DEF WalkOn
  <2> QED BY <1>2, <2>1, <2>2, <2>3, PushSound
<1> QED BY <1>1, <1>2

LEMMA ListedOn == ASSUME PthreadTypeOK PROVE nxt \in Links /\ pstate \in States /\ Listed = On(nxt)
  BY AfterReach DEF PthreadTypeOK, Links, States, Listed, On

LEMMA ExitKeeps ==
    ASSUME PthreadTypeOK, NEW rest \in Seq(Frames), Sound(nxt, pstate, rest),
           NEW p \in Thread, pstate[p] # "NONE", NEW self \in BOOLEAN, NEW back \in Threads,
           \A i \in 1..Len(rest) : rest[i].op = "body" => rest[i].p # p,
           Exit(p, self, back, rest)
    PROVE  Sound(nxt', pstate', calls')
<1> DEFINE f == Walk("exit", p, self, back, Before(p))
<1>1. f \in Frames /\ f.op = "exit" /\ f.p = p /\ f.owed = Before(p) /\ f.last = List
  <2>1. Before(p) \in SUBSET Thread
    BY AfterType DEF Before, Listed
  <2> QED BY <2>1, WalkMade DEF Walk
<1>2. calls' = <<f>> \o rest /\ pstate' = [pstate EXCEPT ![p] = "NONE"] /\ nxt' = nxt
  BY DEF Exit
<1> HIDE DEF f
<1>3. Before(p) = {q \in On(nxt) : p \in Reach(nxt, q)}
  BY ListedOn, AfterReach DEF Before
<1>4. WalkOn(nxt, f)
  BY <1>1, <1>3 DEF WalkOn, On
<1>5. Sound(nxt, pstate', calls')
  BY <1>1, <1>2, <1>4, PushSound, ListedOn
<1> QED BY <1>2, <1>5

LEMMA CreateKeeps == ASSUME LInv, NEW p \in Thread, Create(p) PROVE Sound(nxt', pstate', calls')
<1> DEFINE st == [pstate EXCEPT ![p] = "RUNNING"]
<1>1. PthreadTypeOK /\ Sound(nxt, pstate, calls)
  BY DEF LInv, IInv
<1>2. nxt \in Links /\ pstate \in States /\ calls \in Seq(Frames) /\ p \notin On(nxt)
  BY <1>1, ListedOn DEF Create, PthreadTypeOK
<1>3. nxt' = [nxt EXCEPT ![p] = nxt[List], ![List] = p] /\ Call(p, st, calls)
  BY DEF Create
<1>4. nxt' \in Links /\ Sound(nxt', st, calls)
  BY <1>1, <1>2, <1>3, CreateSound
<1>5. st \in States
  BY <1>2 DEF States
<1> HIDE DEF st
<1> QED BY <1>1, <1>2, <1>3, <1>4, <1>5, CallKeeps

LEMMA VisitKeeps ==
    ASSUME LInv, calls # <<>>, Head(calls).op \in {"poll", "exit"}, NEW q, q # NoThread,
           q = nxt[Head(calls).last], Visit(q)
    PROVE  Sound(nxt', pstate', calls')
<1> DEFINE g == Head(calls)
           f == [g EXCEPT !.last = q, !.owed = @ \ {q}]
           d == <<f>> \o Tail(calls)
<1>1. PthreadTypeOK /\ Sound(nxt, pstate, calls) /\ calls \in Seq(Frames)
  BY DEF LInv, IInv, PthreadTypeOK
<1>2. nxt \in Links /\ pstate \in States
  BY <1>1, ListedOn
<1>3. g \in Frames /\ g = calls[1] /\ 1 \in 1..Len(calls)
  BY <1>1, PopShape
<1>4. g.last \in Thread \cup {List} /\ g.owed \subseteq Thread
  BY <1>3, WalkType
<1>5. q \in Thread /\ Reach(nxt, g.last) \subseteq {q} \cup Reach(nxt, q)
  BY <1>2, <1>4, ReachStep
<1>6. f \in Frames
  BY <1>3, <1>5, WalkType
<1>7. f.op = g.op /\ f.p = g.p /\ f.last = q /\ f.owed = g.owed \ {q}
  <2>1. \A e \in Frames : e.op \in {"poll", "exit"} =>
           LET h == [e EXCEPT !.last = q, !.owed = @ \ {q}]
           IN  h.op = e.op /\ h.p = e.p /\ h.last = q /\ h.owed = e.owed \ {q}
    BY DEF Frames, Walks, Bodies
  <2> QED BY <1>3, <2>1
<1>8. WalkOn(nxt, g)
  BY <1>1, <1>3 DEF Sound
<1>9. Call(q, pstate, d) /\ nxt' = nxt
  BY DEF Visit
<1> HIDE DEF f, g
<1>10. WalkOn(nxt, f)
  BY <1>5, <1>7, <1>8 DEF WalkOn
<1>11. d \in Seq(Frames)
  BY <1>1, <1>6, HeadMoves
<1>12. Sound(nxt, pstate, d)
  BY <1>1, <1>6, <1>7, <1>10, HeadSound DEF g
<1> HIDE DEF d
<1>13. Sound(nxt, pstate', calls')
  BY <1>1, <1>2, <1>5, <1>9, <1>11, <1>12, CallKeeps
<1> QED BY <1>9, <1>13

LEMMA PollKeeps == ASSUME LInv, Poll PROVE Sound(nxt', pstate', calls')
<1>1. PthreadTypeOK /\ Sound(nxt, pstate, <<>>) /\ <<>> \in Seq(Frames) /\ nxt' = nxt
  BY DEF LInv, IInv, Poll
<1>2. nxt \in Links /\ pstate \in States
  BY <1>1, ListedOn
<1>3. CASE \E p \in Thread : Call(p, pstate, <<>>)
  <2>1. Sound(nxt, pstate', calls')
    BY <1>1, <1>2, <1>3, CallKeeps
  <2> QED BY <1>1, <2>1
<1>4. CASE calls' = <<Walk("poll", NoThread, TRUE, NoThread, Listed)>> /\ pstate' = pstate
  <2> DEFINE f == Walk("poll", NoThread, TRUE, NoThread, Listed)
  <2>1. f \in Frames /\ f.op = "poll" /\ f.last = List /\ f.owed = On(nxt)
    <3>1. Listed \in SUBSET Thread
      BY AfterType DEF Listed
    <3> QED BY <1>1, <3>1, WalkMade, ListedOn DEF Walk
  <2> HIDE DEF f
  <2>2. calls' = <<f>> \o <<>>
    BY <1>4 DEF f
  <2>3. WalkOn(nxt, f)
    BY <2>1 DEF WalkOn, On
  <2>4. Sound(nxt, pstate, <<f>> \o <<>>)
    BY <1>1, <1>2, <2>1, <2>3, PushSound
  <2> QED BY <1>1, <1>4, <2>2, <2>4
<1> QED BY <1>3, <1>4 DEF Poll

LEMMA BodyExitKeeps == ASSUME LInv, BodyExit PROVE Sound(nxt', pstate', calls')
<1>1. PthreadTypeOK /\ Sound(nxt, pstate, calls) /\ calls \in Seq(Frames) /\ process_current \in Threads
  BY DEF LInv, IInv, PthreadTypeOK, Threads
<1>2. PICK p \in Thread : pstate[p] = "RUNNING" /\ Exit(p, FALSE, process_current, calls)
  BY AfterType DEF BodyExit, Listed
<1>3. \A i \in 1..Len(calls) : calls[i].op = "body" => calls[i].p # p
  BY <1>1, <1>2 DEF Sound, Stated
<1> QED BY <1>1, <1>2, <1>3, ExitKeeps

LEMMA YieldKeeps == ASSUME LInv, Yield PROVE Sound(nxt', pstate', calls')
<1> DEFINE f == Head(calls)
           t == Tail(calls)
<1>1. PthreadTypeOK /\ Sound(nxt, pstate, calls) /\ calls \in Seq(Frames)
  BY DEF LInv, IInv, PthreadTypeOK
<1>2. calls # <<>> /\ f.op \in {"body", "bye"} /\ nxt' = nxt /\ calls' = t
  BY DEF Yield, Running
<1>3. /\ Sound(nxt, pstate, t) /\ t \in Seq(Frames)
      /\ f.op = "body" => /\ pstate[f.p] = "CALLED"
                          /\ \A i \in 1..Len(t) : t[i].op = "body" => t[i].p # f.p
  BY <1>1, <1>2, PopSound
<1>4. f \in Frames
  BY <1>1, <1>2, PopShape
<1>5. f.p \in Thread
  BY <1>2, <1>4, FrameP
<1>6. pstate \in States
  BY <1>1, ListedOn
<1> HIDE DEF f, t
<1>7. CASE f.op = "body" /\ pstate' = [pstate EXCEPT ![f.p] = "RUNNING"]
  <2>1. \A i \in 1..Len(t) : t[i].op \in {"body", "exit"} => t[i].p # f.p
    BY <1>3, <1>7 DEF Sound, Stated
  <2>2. \A i \in 1..Len(t) : t[i].op \in {"body", "exit"} => t[i].p \in Thread
    BY <1>3, FrameP
  <2>3. Stated(pstate', t)
    BY <1>3, <1>6, <1>7, <2>1, <2>2 DEF Sound, Stated, States
  <2>4. Alive(nxt, pstate', t)
    BY <1>3, <1>5, <1>6, <1>7 DEF Sound, Alive, States
  <2> QED BY <1>2, <1>3, <2>3, <2>4 DEF Sound
<1>8. CASE pstate' = pstate
  BY <1>2, <1>3, <1>8
<1> QED BY <1>7, <1>8 DEF Yield, f

LEMMA EndKeeps == ASSUME LInv, End PROVE Sound(nxt', pstate', calls')
<1> DEFINE f == Head(calls)
           t == Tail(calls)
<1>1. PthreadTypeOK /\ Sound(nxt, pstate, calls) /\ calls \in Seq(Frames)
  BY DEF LInv, IInv, PthreadTypeOK
<1>2. calls # <<>> /\ f.op = "body" /\ Exit(f.p, TRUE, f.back, t)
  BY DEF End, Running
<1>3. /\ Sound(nxt, pstate, t) /\ t \in Seq(Frames) /\ pstate[f.p] = "CALLED"
      /\ \A i \in 1..Len(t) : t[i].op = "body" => t[i].p # f.p
  BY <1>1, <1>2, PopSound
<1>4. f.p \in Thread /\ f.back \in Threads
  BY <1>1, <1>2, PopShape, BodyType
<1> QED BY <1>1, <1>2, <1>3, <1>4, ExitKeeps

LEMMA PollStepKeeps == ASSUME LInv, PollStep PROVE Sound(nxt', pstate', calls')
<1>1. calls # <<>> /\ Head(calls).op = "poll" /\ Sound(nxt, pstate, calls) /\ calls \in Seq(Frames)
  BY DEF PollStep, LInv, IInv, PthreadTypeOK
<1>2. CASE nxt[Head(calls).last] # NoThread
  BY <1>1, <1>2, VisitKeeps DEF PollStep
<1>3. CASE nxt[Head(calls).last] = NoThread
  <2>1. calls' = Tail(calls) /\ nxt' = nxt /\ pstate' = pstate
    BY <1>3 DEF PollStep
  <2> QED BY <1>1, <2>1, PopSound
<1> QED BY <1>2, <1>3

LEMMA ByeKeeps ==
    ASSUME LInv, calls # <<>>, Head(calls).op = "exit", Bye(Head(calls))
    PROVE  Sound(nxt', pstate', calls')
<1> DEFINE f == Head(calls)
           g == [f EXCEPT !.told = TRUE]
           b == [op |-> "bye", p |-> f.p, back |-> f.back]
           d == <<g>> \o Tail(calls)
<1>1. PthreadTypeOK /\ Sound(nxt, pstate, calls) /\ calls \in Seq(Frames)
  BY DEF LInv, IInv, PthreadTypeOK
<1>2. f \in Frames /\ Tail(calls) \in Seq(Frames) /\ f = calls[1] /\ 1 \in 1..Len(calls)
  BY <1>1, PopShape
<1>3. g \in Frames /\ f.p \in Thread /\ f.back \in Threads
  BY <1>2, WalkType
<1>4. g.op = f.op /\ g.p = f.p /\ g.last = f.last /\ g.owed = f.owed
  <2>1. \A e \in Frames : e.op = "exit" =>
           LET h == [e EXCEPT !.told = TRUE]
           IN  h.op = e.op /\ h.p = e.p /\ h.last = e.last /\ h.owed = e.owed
    BY DEF Frames, Walks, Bodies
  <2> QED BY <1>2, <2>1
<1>5. b \in Frames /\ b.op = "bye"
  BY <1>3, BodyType
<1>6. calls' = <<b>> \o d
  <2>1. calls' = <<b, g>> \o Tail(calls)
    BY DEF Bye
  <2> QED BY <1>2, <1>3, <1>5, <2>1, TwoOnTop
<1>7. nxt' = nxt /\ pstate' = pstate
  BY DEF Bye
<1> HIDE DEF f, g, b
<1>8. WalkOn(nxt, g)
  <2>1. WalkOn(nxt, f)
    BY <1>1, <1>2 DEF Sound
  <2> QED BY <1>4, <2>1 DEF WalkOn
<1>9. d \in Seq(Frames) /\ Sound(nxt, pstate, d)
  BY <1>1, <1>3, <1>4, <1>8, HeadMoves, HeadSound DEF f
<1> HIDE DEF d
<1>10. WalkOn(nxt, b)
  BY <1>5 DEF WalkOn
<1>11. nxt \in Links /\ pstate \in States
  BY <1>1, ListedOn
<1>12. Sound(nxt, pstate, <<b>> \o d)
  BY <1>5, <1>9, <1>10, <1>11, PushSound
<1> QED BY <1>6, <1>7, <1>12

LEMMA UnlinkKeeps ==
    ASSUME LInv, calls # <<>>, Head(calls).op = "exit", Unlink(Head(calls))
    PROVE  Sound(nxt', pstate', calls')
<1> DEFINE p == Head(calls).p
<1>1. PthreadTypeOK /\ Sound(nxt, pstate, calls) /\ calls \in Seq(Frames)
  BY DEF LInv, IInv, PthreadTypeOK
<1>2. nxt \in Links /\ Listed = On(nxt)
  BY <1>1, ListedOn
<1>3. nxt' = [q \in DOMAIN nxt |-> IF nxt[q] = p /\ q \in On(nxt) \cup {List} THEN nxt[p] ELSE nxt[q]]
  BY <1>2 DEF Unlink
<1>4. /\ pstate' = pstate
      /\ calls' = [i \in 1..Len(calls) - 1 |->
                     IF calls[i + 1].op \in {"body", "bye"} THEN calls[i + 1]
                     ELSE [calls[i + 1] EXCEPT !.owed = @ \ {p}]]
  BY DEF Unlink
<1>5. Len(calls) \in Nat \ {0}
  BY <1>1, PopShape
<1>6. Len(calls') = Len(calls) - 1
  BY <1>4, <1>5
<1> HIDE DEF p
<1>7. Sound(nxt', pstate, calls')
  BY <1>1, <1>2, <1>3, <1>4, <1>6, UnlinkSound DEF p
<1> QED BY <1>4, <1>7

LEMMA ExitStepKeeps == ASSUME LInv, ExitStep PROVE Sound(nxt', pstate', calls')
<1> DEFINE q == nxt[Head(calls).last]
<1>1. calls # <<>> /\ Head(calls).op = "exit"
  BY DEF ExitStep
<1>2. Unlink(Head(calls)) \/ (q # NoThread /\ Visit(q)) \/ Bye(Head(calls))
  BY DEF ExitStep
<1> QED BY <1>1, <1>2, UnlinkKeeps, VisitKeeps, ByeKeeps

LEMMA InitL == PthreadInit => LInv
<1> SUFFICES ASSUME PthreadInit PROVE LInv
  OBVIOUS
<1>1. IInv /\ nxt \in Links
  BY InitI DEF IInv, PthreadTypeOK, Links
<1>2. On(nxt) = {}
  <2>1. nxt[List] = NoThread
    BY DEF PthreadInit
  <2> QED BY <1>1, <2>1, ReachNone DEF On
<1>3. Len(calls) = 0 /\ \A p \in Thread : pstate[p] = "NONE"
  BY DEF PthreadInit
<1>4. Out(calls) = {}
  BY <1>3 DEF Out
<1> QED BY <1>1, <1>2, <1>3, <1>4 DEF LInv, Sound, Acyclic, Alive, Stated, Single

LEMMA StepL == LInv /\ [PthreadNext]_pthreadVars => LInv'
<1> SUFFICES ASSUME LInv, [PthreadNext]_pthreadVars PROVE LInv'
  OBVIOUS
<1>1. IInv'
  BY StepI DEF LInv
<1>2. Sound(nxt', pstate', calls')
  <2>1. CASE TaskCreate \/ BodyCreate
    BY <2>1, CreateKeeps DEF TaskCreate, BodyCreate
  <2>2. CASE Poll \/ PollStep \/ ExitStep
    BY <2>2, PollKeeps, PollStepKeeps, ExitStepKeeps
  <2>3. CASE BodyExit \/ Yield \/ End
    BY <2>3, BodyExitKeeps, YieldKeeps, EndKeeps
  <2>4. CASE UNCHANGED pthreadVars
    BY <2>4 DEF pthreadVars, LInv
  <2> QED BY <2>1, <2>2, <2>3, <2>4 DEF PthreadNext
<1> QED BY <1>1, <1>2 DEF LInv

\* On the list are the threads that have been created and have not left: one that
\* has exited is not called again, and one that runs is not lost to the walks.
THEOREM ListHoldsTheLiving == PthreadSpec => []ListIsAlive
<1>1. LInv => ListIsAlive
  <2> SUFFICES ASSUME LInv PROVE ListIsAlive
    OBVIOUS
  <2>1. Listed = On(nxt) /\ Leaving = Out(calls)
    BY ListedOn DEF LInv, IInv, Leaving, Out
  <2>2. \A p \in Leaving : pstate[p] = "NONE"
    BY <2>1 DEF LInv, Sound, Stated, Out
  <2> QED BY <2>1, <2>2 DEF LInv, Sound, Alive, ListIsAlive
<1> QED BY <1>1, InitL, StepL, PTL DEF PthreadSpec

\* A walk of osel_pthread_poll or _exit misses no thread it set out to call,
\* whatever the threads it calls create and exit meanwhile.
LEMMA WalksSound == LInv => WalkReachesAll
<1> SUFFICES ASSUME LInv, NEW i \in 1..Len(calls), calls[i].op \in {"poll", "exit"}
             PROVE  /\ calls[i].owed \subseteq After(calls[i].last)
                    /\ calls[i].op = "exit" => calls[i].owed \subseteq Before(calls[i].p)
  BY DEF WalkReachesAll
<1>1. WalkOn(nxt, calls[i]) /\ Listed = On(nxt)
  BY ListedOn DEF LInv, IInv, Sound
<1> QED BY <1>1, AfterReach DEF WalkOn, Before

\* Every thread that was on the list when a walk of osel_pthread_poll or _exit began
\* and has stayed is still ahead of it, until it is called.
THEOREM WalksReachAll == PthreadSpec => []WalkReachesAll
BY WalksSound, InitL, StepL, PTL DEF PthreadSpec

\* So a walk that stops has called all of them: the scheduler's at the end of the
\* list, that of an exit at the thread that exits.
WalkIsDone(f) ==
    \/ f.op = "poll" /\ nxt[f.last] = NoThread
    \/ f.op = "exit" /\ nxt[f.last] \in {f.p, NoThread}
AllCalled == \A i \in 1..Len(calls) : WalkIsDone(calls[i]) => calls[i].owed = {}

LEMMA DoneIsAll ==
    ASSUME LInv, NEW i \in 1..Len(calls), WalkIsDone(calls[i])
    PROVE  calls[i].owed = {}
<1> DEFINE f == calls[i]
<1>1. /\ nxt \in Links /\ f \in Frames /\ WalkOn(nxt, f) /\ Acyclic(nxt) /\ f.op \in {"poll", "exit"}
  BY ListedOn DEF LInv, IInv, PthreadTypeOK, Sound, WalkIsDone
<1>2. f.last \in Thread \cup {List} /\ f.owed \subseteq Thread
  BY <1>1, WalkType
<1>3. CASE nxt[f.last] = NoThread
  <2>1. Reach(nxt, f.last) = {}
    BY <1>1, <1>2, <1>3, ReachNone
  <2> QED BY <1>1, <2>1 DEF WalkOn
<1>4. CASE f.op = "exit" /\ nxt[f.last] = f.p
  <2>1. f.p \in Thread /\ f.p # NoThread
    BY <1>1, <1>4, FrameP, StepsFinite
  <2>2. Reach(nxt, f.last) \subseteq {f.p} \cup Reach(nxt, f.p)
    BY <1>1, <1>2, <1>4, <2>1, ReachStep
  <2>3. ASSUME NEW x \in f.owed PROVE FALSE
    <3>1. x \in On(nxt) /\ f.p \in Reach(nxt, x) /\ x \in {f.p} \cup Reach(nxt, f.p) /\ x \notin Reach(nxt, x)
      BY <1>1, <1>4, <2>2, <2>3 DEF WalkOn, Acyclic
    <3>2. /\ Reach(nxt, x) \in SUBSET Thread /\ Closed(nxt, Reach(nxt, x))
      BY <1>1, <1>2, <2>3, ReachClosed
    <3>3. Reach(nxt, f.p) \subseteq Reach(nxt, x)
      BY <1>1, <2>1, <3>1, <3>2, ReachLeast DEF Closed
    <3> QED BY <3>1, <3>3
  <2> QED BY <2>3
<1> QED BY <1>3, <1>4 DEF WalkIsDone

\* The loops of wsnos_pthread.c end with nothing owed: nobody is skipped because a
\* thread called before it changed the list.
THEOREM WalksCallAll == PthreadSpec => []AllCalled
<1>1. LInv => AllCalled
  BY DoneIsAll DEF AllCalled
<1> QED BY <1>1, InitL, StepL, PTL DEF PthreadSpec
===============================================================================
