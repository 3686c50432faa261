----------------------------- MODULE Wsnos_proofs -----------------------------
(***************************************************************************)
(* The kernel's invariants hold for any number of priorities, any queue    *)
(* lengths and any number of posts and interrupts, and the kernel          *)
(* implements bounded FIFO delivery by priority (PrioDelivery).            *)
(*                                                                         *)
(* The inductive invariant describes the C stack: every activation         *)
(* remembers in pin the priority of the code below it, an activation of a  *)
(* task is above its pin, an interrupt is on top of the stack or just      *)
(* under the signal of its own post, and osel_curr_prio is the priority of *)
(* the frame on top.                                                       *)
(***************************************************************************)
EXTENDS Wsnos, SequenceTheorems, TLAPS

-----------------------------------------------------------------------------
(* What the ring buffer operators of Equeue do to the queue's contents.    *)

(* A new queue is well formed and empty. *)
LEMMA InitQueue ==
  ASSUME NEW len \in Nat \ {0}, NEW store \in [0 .. len - 1 -> Event]
  PROVE  LET q == EqueueInit(len, store) IN
         /\ q \in EqueueType(len)
         /\ RingOK(q)
         /\ ~HasEvent(q)
         /\ Contents(q) = <<>>
  BY DEF EqueueInit, EqueueType, RingOK, Slot, Used, HasEvent, Contents

(* A well-formed queue holds events exactly when its contents are not empty, *)
(* and it has room exactly when they are fewer than its length.              *)
LEMMA QueueLength ==
  ASSUME NEW len \in Nat \ {0}, NEW q \in EqueueType(len)
  PROVE  /\ Contents(q) \in Seq(Event)
         /\ Len(Contents(q)) = Used(q)
         /\ HasEvent(q) <=> Contents(q) # <<>>
         /\ HasRoom(q) <=> Len(Contents(q)) < len
  <1>1. Used(q) \in 0 .. len
    BY DEF EqueueType, Used
  <1>2. \A i \in 1 .. Used(q) : q.ring[Slot(q, i)] \in Event
    BY <1>1 DEF EqueueType, Used, Slot
  <1>3. Contents(q) \in Seq(Event) /\ Len(Contents(q)) = Used(q)
    BY <1>1, <1>2 DEF Contents
  <1>4. QED
    BY <1>1, <1>3 DEF EqueueType, HasEvent, HasRoom, Used

(* osel_equeue_post stores the event behind all the others. *)
LEMMA PostAppends ==
  ASSUME NEW len \in Nat \ {0}, NEW q \in EqueueType(len), NEW e \in Event,
         RingOK(q), HasRoom(q)
  PROVE  /\ EqueuePost(q, e) \in EqueueType(len)
         /\ RingOK(EqueuePost(q, e))
         /\ HasEvent(EqueuePost(q, e))
         /\ Contents(EqueuePost(q, e)) = Append(Contents(q), e)
  <1> DEFINE r == EqueuePost(q, e)
  <1>1. r \in EqueueType(len)
    <2>1. /\ q.ring \in [0 .. len - 1 -> Event] /\ q.end = len
          /\ q.head \in 0 .. len - 1 /\ q.tail \in 0 .. len - 1 /\ q.n_free \in 1 .. len
      BY DEF EqueueType, HasRoom
    <2>2. Advance(q.head, q.end) \in 0 .. len - 1
      BY <2>1 DEF Advance
    <2>3. [q.ring EXCEPT ![q.head] = e] \in [0 .. len - 1 -> Event]
      BY <2>1
    <2>4. QED
      BY <2>1, <2>2, <2>3 DEF EqueueType, EqueuePost
  <1>2. /\ r.tail = q.tail /\ r.end = q.end /\ r.n_free = q.n_free - 1
        /\ r.head = Advance(q.head, q.end)
        /\ r.ring = [q.ring EXCEPT ![q.head] = e]
    BY DEF EqueueType, EqueuePost
  <1>3. Used(r) = Used(q) + 1 /\ Used(q) \in 0 .. len - 1
    BY <1>2 DEF EqueueType, Used, HasRoom
  <1>4. RingOK(r)
    BY <1>2, <1>3 DEF RingOK, Slot, Advance, EqueueType
  <1>5. HasEvent(r)
    BY <1>2 DEF HasEvent, EqueueType, HasRoom
  <1>6. \A i \in 1 .. Used(r) : Slot(r, i) = Slot(q, i)
    BY <1>2 DEF Slot
  <1>7. \A i \in 1 .. Used(q) : Slot(q, i) # q.head /\ Slot(q, i) \in 0 .. len - 1
    BY <1>3 DEF Slot, RingOK, EqueueType
  <1>8. ASSUME NEW i \in 1 .. Used(q)
        PROVE  r.ring[Slot(r, i)] = q.ring[Slot(q, i)]
    BY <1>2, <1>3, <1>6, <1>7 DEF EqueueType
  <1>9. r.ring[Slot(r, Used(r))] = e
    BY <1>2, <1>3, <1>6 DEF EqueueType, RingOK
  <1>10. Contents(q) \in Seq(Event) /\ Len(Contents(q)) = Used(q)
    BY QueueLength
  <1>11. Contents(r) = Append(Contents(q), e)
    <2>1. DOMAIN Append(Contents(q), e) = 1 .. Used(r)
      BY <1>3, <1>10
    <2>2. ASSUME NEW i \in 1 .. Used(r)
          PROVE  Append(Contents(q), e)[i] = r.ring[Slot(r, i)]
      <3>1. CASE i = Used(r)
        BY <3>1, <1>3, <1>9, <1>10
      <3>2. CASE i # Used(r)
        BY <3>2, <1>3, <1>8, <1>10 DEF Contents
      <3>3. QED BY <3>1, <3>2
    <2>3. QED
      BY <1>3, <1>10, <2>1, <2>2 DEF Contents
  <1>12. QED BY <1>1, <1>4, <1>5, <1>11

(* osel_equeue_get returns the oldest event and leaves the rest in order. *)
LEMMA GetRemovesHead ==
  ASSUME NEW len \in Nat \ {0}, NEW q \in EqueueType(len), RingOK(q), HasEvent(q)
  PROVE  /\ EqueueGet(q) \in EqueueType(len)
         /\ RingOK(EqueueGet(q))
         /\ EqueueFront(q) = Head(Contents(q))
         /\ Contents(EqueueGet(q)) = Tail(Contents(q))
  <1> DEFINE r == EqueueGet(q)
  <1>1. r \in EqueueType(len)
    <2>1. /\ q.ring \in [0 .. len - 1 -> Event] /\ q.end = len
          /\ q.head \in 0 .. len - 1 /\ q.tail \in 0 .. len - 1 /\ q.n_free \in 0 .. len - 1
      BY DEF EqueueType, HasEvent
    <2>2. Advance(q.tail, q.end) \in 0 .. len - 1
      BY <2>1 DEF Advance
    <2>3. QED
      BY <2>1, <2>2 DEF EqueueType, EqueueGet
  <1>2. /\ r.tail = Advance(q.tail, q.end) /\ r.end = q.end
        /\ r.n_free = q.n_free + 1 /\ r.head = q.head /\ r.ring = q.ring
    BY DEF EqueueType, EqueueGet
  <1>3. Used(r) = Used(q) - 1 /\ Used(q) \in 1 .. len
    BY <1>2 DEF EqueueType, Used, HasEvent
  <1>4. \A i \in 1 .. Used(q) : Slot(r, i) = Slot(q, i + 1)
    <2>1. /\ q.end = len /\ q.tail \in 0 .. len - 1 /\ r.end = len
          /\ r.tail = IF q.tail + 1 = len THEN 0 ELSE q.tail + 1
      BY <1>2 DEF EqueueType, Advance
    <2>2. QED
      BY <1>3, <2>1 DEF Slot
  <1>5. RingOK(r)
    BY <1>2, <1>3, <1>4 DEF RingOK, EqueueType
  <1>6. Contents(q) \in Seq(Event) /\ Len(Contents(q)) = Used(q)
    BY QueueLength
  <1>7. EqueueFront(q) = Head(Contents(q))
    BY <1>3, <1>6 DEF EqueueFront, Contents, Slot, EqueueType
  <1>8. Contents(r) = Tail(Contents(q))
    <2>1. Contents(r) \in Seq(Event) /\ Len(Contents(r)) = Used(r)
      BY <1>1, QueueLength
    <2>2. Tail(Contents(q)) \in Seq(Event) /\ Len(Tail(Contents(q))) = Used(r)
      BY <1>3, <1>6
    <2>3. ASSUME NEW i \in 1 .. Used(r)
          PROVE  Contents(r)[i] = Tail(Contents(q))[i]
      BY <1>2, <1>3, <1>4, <1>6 DEF Contents
    <2>4. QED
      BY <2>1, <2>2, <2>3
  <1>9. QED BY <1>1, <1>5, <1>7, <1>8

-----------------------------------------------------------------------------
(* The three ways the stack changes. *)

LEMMA IndexBelow ==
  ASSUME NEW n \in Nat
  PROVE  n = 0 \/ n = 1 \/ n - 1 \in 1 .. n
  OBVIOUS

LEMMA PushStack ==
  ASSUME NEW s \in Seq(Frame), NEW f \in Frame
  PROVE  /\ Append(s, f) \in Seq(Frame)
         /\ Len(Append(s, f)) = Len(s) + 1
         /\ \A i \in 1 .. Len(s) : Append(s, f)[i] = s[i]
         /\ Append(s, f)[Len(s) + 1] = f
  OBVIOUS

LEMMA PopStack ==
  ASSUME NEW s \in Seq(Frame), s # <<>>
  PROVE  /\ SubSeq(s, 1, Len(s) - 1) \in Seq(Frame)
         /\ Len(SubSeq(s, 1, Len(s) - 1)) = Len(s) - 1
         /\ \A i \in 1 .. Len(s) - 1 : SubSeq(s, 1, Len(s) - 1)[i] = s[i]
  <1>1. ASSUME NEW j \in Nat
        PROVE  Len(SubSeq(s, 1, j)) = j
    OBVIOUS
  <1>2. Len(SubSeq(s, 1, Len(s) - 1)) = Len(s) - 1
    <2>1. Len(s) - 1 \in Nat
      OBVIOUS
    <2>2. QED
      BY <1>1, <2>1, Zenon
  <1>3. SubSeq(s, 1, Len(s) - 1) \in Seq(Frame)
    OBVIOUS
  <1>4. \A i \in 1 .. Len(s) - 1 : SubSeq(s, 1, Len(s) - 1)[i] = s[i]
    OBVIOUS
  <1>5. QED BY <1>2, <1>3, <1>4

LEMMA ReplaceTop ==
  ASSUME NEW s \in Seq(Frame), s # <<>>, NEW f \in Frame
  PROVE  /\ [s EXCEPT ![Len(s)] = f] \in Seq(Frame)
         /\ Len([s EXCEPT ![Len(s)] = f]) = Len(s)
         /\ \A i \in 1 .. Len(s) - 1 : [s EXCEPT ![Len(s)] = f][i] = s[i]
         /\ [s EXCEPT ![Len(s)] = f][Len(s)] = f
  OBVIOUS

(* The frame on top, and what the invariant says of interrupts there. *)
LEMMA TopFacts ==
  ASSUME frames \in Seq(Frame), Layered, NestCounts
  PROVE  /\ frames = <<>> <=> TopFrame.kind = "main"
         /\ frames # <<>> => Len(frames) \in Nat \ {0} /\ TopFrame = frames[Len(frames)] /\ TopFrame \in Frame
         /\ TopFrame.kind = "isr" => osel_int_nest = 1
         /\ TopFrame.kind \notin {"isr", "signal"} => osel_int_nest = 0
         /\ osel_int_nest \in 0 .. 1
         /\ osel_int_nest = 1 /\ TopFrame.kind = "signal" =>
              Len(frames) > 1 /\ frames[Len(frames) - 1].kind = "isr"
  <1>1. CASE frames = <<>>
    BY <1>1 DEF TopFrame, Main, NestCounts
  <1>2. CASE frames # <<>>
    <2>1. Len(frames) \in Nat \ {0} /\ TopFrame = frames[Len(frames)] /\ TopFrame \in Frame
      BY <1>2 DEF TopFrame
    <2>2. TopFrame.kind # "main"
      BY <2>1 DEF Frame
    <2>3. QED
      BY <1>2, <2>1, <2>2 DEF NestCounts, Layered
  <1>3. QED BY <1>1, <1>2

LEMMA CeilingInt ==
  ASSUME NEW f \in Frame
  PROVE  Ceiling(f) \in Int /\ f.pin \in Int
  BY PrioAssumption DEF Frame, Level, Ceiling

LEMMA LevelInt ==
  ASSUME frames \in Seq(Frame), NEW i \in 0 .. Len(frames)
  PROVE  LevelAt(i) \in Int
  <1>1. CASE i = 0
    BY <1>1 DEF LevelAt
  <1>2. CASE i # 0
    <2>1. frames[i] \in Frame
      BY <1>2
    <2>2. QED BY <1>2, <2>1, CeilingInt DEF LevelAt
  <1>3. QED BY <1>1, <1>2

(* Calling: a new frame on top keeps the shape of the stack. *)
LEMMA PushShape ==
  ASSUME frames \in Seq(Frame), Nested, Rising, Layered, NEW f \in Frame,
         frames' = Append(frames, f),
         f.pin = LevelAt(Len(frames)),
         f.kind \notin {"drain", "task"},
         f.kind = "mutex" => f.prio >= f.pin,
         frames = <<>> \/ TopFrame.kind \in {"task", "mutex", "signal"}
                      \/ (TopFrame.kind = "isr" /\ f.kind = "signal"),
         TopFrame.kind = "signal" => Len(frames) = 1 \/ frames[Len(frames) - 1].kind # "isr"
  PROVE  /\ frames' \in Seq(Frame) /\ Nested' /\ Rising' /\ Layered'
         /\ TopFrame' = f /\ LevelAt(Len(frames))' = Ceiling(f)
         /\ \A p : Serving(p) => Serving(p)'
         /\ NestCounts /\ osel_int_nest' = (IF f.kind = "isr" THEN 1 ELSE osel_int_nest) => NestCounts'
  <1> DEFINE n == Len(frames)
  <1>1. /\ frames' \in Seq(Frame) /\ Len(frames') = n + 1 /\ n \in Nat
        /\ \A i \in 1 .. n : frames'[i] = frames[i]
        /\ frames'[n + 1] = f
    BY PushStack
  <1>2. \A i \in 1 .. n + 1 : LevelAt(i - 1)' = LevelAt(i - 1)
    BY <1>1 DEF LevelAt
  <1>3. Nested'
    BY <1>1, <1>2 DEF Nested
  <1>4. Rising'
    <2>1. \A m \in 0 .. n : LevelAt(m)' = LevelAt(m)
      BY <1>1 DEF LevelAt
    <2>2. \A m \in 0 .. n : LevelAt(m) \in Int /\ LevelAt(m) <= f.pin
      BY <1>1, LevelInt DEF Rising
    <2>3. \A m : m = n + 1 => LevelAt(m)' = Ceiling(f)
      BY <1>1 DEF LevelAt
    <2>4. Ceiling(f) \in Int /\ f.pin \in Int /\ f.pin <= Ceiling(f)
      BY CeilingInt DEF Ceiling
    <2>5. ASSUME NEW a \in 0 .. n + 1, NEW b \in 0 .. n + 1, a <= b
          PROVE  LevelAt(a)' <= LevelAt(b)'
      <3>1. CASE b = n + 1
        BY <1>1, <2>1, <2>2, <2>3, <2>4, <3>1
      <3>2. CASE b # n + 1
        <4>1. a \in 0 .. n /\ b \in 0 .. n
          BY <1>1, <2>5, <3>2
        <4>2. QED BY <2>1, <2>5, <4>1 DEF Rising
      <3>3. QED BY <3>1, <3>2
    <2>6. QED BY <1>1, <2>5 DEF Rising
  <1>5. Layered'
    BY <1>1 DEF Layered, TopFrame
  <1>6. TopFrame' = f /\ LevelAt(Len(frames))' = Ceiling(f)
    BY <1>1 DEF TopFrame, LevelAt
  <1>7. \A p : Serving(p) => Serving(p)'
    BY <1>1 DEF Serving
  <1>8. ASSUME NestCounts, osel_int_nest' = (IF f.kind = "isr" THEN 1 ELSE osel_int_nest)
        PROVE  NestCounts'
    BY <1>1, <1>8 DEF NestCounts
  <1>9. QED BY <1>1, <1>3, <1>4, <1>5, <1>6, <1>7, <1>8

(* Going on in the same activation: only the frame on top changes. *)
LEMMA ReplaceShape ==
  ASSUME frames \in Seq(Frame), frames # <<>>, Nested, Rising, Layered, NEW f \in Frame,
         Become(f),
         f.pin = TopFrame.pin,
         f.kind \in {"drain", "task"} => f.prio \in Prio /\ f.prio > f.pin,
         f.kind # "mutex",
         TopFrame.kind = "signal" => Len(frames) = 1 \/ frames[Len(frames) - 1].kind # "isr"
  PROVE  /\ frames' \in Seq(Frame) /\ Nested' /\ Rising' /\ Layered'
         /\ TopFrame' = f /\ LevelAt(Len(frames))' = Ceiling(f)
         /\ \A p : (TopFrame.kind \in {"drain", "task"} /\ TopFrame.prio = p
                     => f.kind \in {"drain", "task"} /\ f.prio = p)
                  => (Serving(p) => Serving(p)')
         /\ NestCounts /\ f.kind # "isr"
              /\ osel_int_nest' = (IF TopFrame.kind = "isr" THEN 0 ELSE osel_int_nest) => NestCounts'
  <1> DEFINE n == Len(frames)
  <1>1. /\ frames' \in Seq(Frame) /\ Len(frames') = n /\ n \in Nat \ {0}
        /\ \A i \in 1 .. n - 1 : frames'[i] = frames[i]
        /\ frames'[n] = f
        /\ TopFrame = frames[n]
    BY ReplaceTop DEF Become, TopFrame
  <1>2. \A i \in 1 .. n : LevelAt(i - 1)' = LevelAt(i - 1)
    BY <1>1 DEF LevelAt
  <1>3. Nested'
    <2>1. ASSUME NEW i \in 1 .. n - 1
          PROVE  /\ frames'[i].pin = LevelAt(i - 1)'
                 /\ frames'[i].kind \in {"drain", "task"} =>
                      frames'[i].prio \in Prio /\ frames'[i].prio > frames'[i].pin
                 /\ frames'[i].kind = "mutex" => frames'[i].prio >= frames'[i].pin
      BY <1>1, <1>2 DEF Nested
    <2>2. frames'[n].pin = LevelAt(n - 1)'
      BY <1>1, <1>2 DEF Nested
    <2>3. QED BY <1>1, <2>1, <2>2 DEF Nested
  <1>4. Rising'
    <2>1. \A m \in 0 .. n - 1 : LevelAt(m)' = LevelAt(m)
      BY <1>1 DEF LevelAt
    <2>2. TopFrame.pin = LevelAt(n - 1)
      BY <1>1 DEF Nested
    <2>3. \A m \in 0 .. n - 1 : LevelAt(m) \in Int /\ LevelAt(m) <= f.pin
      BY <1>1, <2>2, LevelInt DEF Rising
    <2>4. \A m : m = n => LevelAt(m)' = Ceiling(f)
      BY <1>1 DEF LevelAt
    <2>5. Ceiling(f) \in Int /\ f.pin \in Int /\ f.pin <= Ceiling(f)
      BY CeilingInt DEF Ceiling
    <2>6. ASSUME NEW a \in 0 .. n, NEW b \in 0 .. n, a <= b
          PROVE  LevelAt(a)' <= LevelAt(b)'
      <3>1. CASE b = n
        BY <1>1, <2>1, <2>3, <2>4, <2>5, <3>1
      <3>2. CASE b # n
        <4>1. a \in 0 .. n - 1 /\ b \in 0 .. n - 1
          BY <1>1, <2>6, <3>2
        <4>2. QED BY <1>1, <2>1, <2>6, <4>1 DEF Rising
      <3>3. QED BY <3>1, <3>2
    <2>7. QED BY <1>1, <2>6 DEF Rising
  <1>5. Layered'
    BY <1>1 DEF Layered
  <1>6. TopFrame' = f /\ LevelAt(Len(frames))' = Ceiling(f)
    BY <1>1 DEF TopFrame, LevelAt
  <1>7. ASSUME NEW p, Serving(p),
               TopFrame.kind \in {"drain", "task"} /\ TopFrame.prio = p
                 => f.kind \in {"drain", "task"} /\ f.prio = p
        PROVE  Serving(p)'
    <2>1. PICK i \in 1 .. n : frames[i].kind \in {"drain", "task"} /\ frames[i].prio = p
      BY <1>7 DEF Serving
    <2>2. frames'[i].kind \in {"drain", "task"} /\ frames'[i].prio = p
      BY <1>1, <1>7, <2>1
    <2>3. QED BY <1>1, <2>2 DEF Serving
  <1>8. ASSUME NestCounts, f.kind # "isr",
               osel_int_nest' = (IF TopFrame.kind = "isr" THEN 0 ELSE osel_int_nest)
        PROVE  NestCounts'
    <2>1. CASE TopFrame.kind = "isr"
      <3>1. \A i \in 1 .. n - 1 : frames[i].kind # "isr"
        BY <1>1, <2>1 DEF Layered
      <3>2. ~ \E i \in 1 .. n : frames'[i].kind = "isr"
        BY <1>1, <1>8, <3>1
      <3>3. QED BY <1>1, <1>8, <2>1, <3>2 DEF NestCounts
    <2>2. CASE TopFrame.kind # "isr"
      <3>1. \A i \in 1 .. n : frames'[i].kind = "isr" <=> frames[i].kind = "isr"
        BY <1>1, <1>8, <2>2
      <3>2. QED BY <1>1, <1>8, <2>2, <3>1 DEF NestCounts
    <2>3. QED BY <2>1, <2>2
  <1>9. QED BY <1>1, <1>3, <1>4, <1>5, <1>6, <1>7, <1>8

(* Returning: the caller is on top again, at the priority it had. *)
LEMMA PopShape ==
  ASSUME frames \in Seq(Frame), frames # <<>>, Nested, Rising, Layered, Pop
  PROVE  /\ frames' \in Seq(Frame) /\ Nested' /\ Rising' /\ Layered'
         /\ LevelAt(Len(frames))' = TopFrame.pin
         /\ TopFrame' = IF Len(frames) = 1 THEN Main ELSE frames[Len(frames) - 1]
         /\ frames' # <<>> /\ TopFrame.kind # "signal" => TopFrame'.kind \in {"task", "mutex", "signal"}
         /\ TopFrame.kind \notin {"drain", "task"} => \A p : Serving(p) => Serving(p)'
         /\ NestCounts /\ TopFrame.kind # "isr" /\ osel_int_nest' = osel_int_nest => NestCounts'
  <1> DEFINE n == Len(frames)
  <1>1. /\ frames' \in Seq(Frame) /\ Len(frames') = n - 1 /\ n \in Nat \ {0}
        /\ \A i \in 1 .. n - 1 : frames'[i] = frames[i]
        /\ TopFrame = frames[n]
    BY PopStack DEF Pop, TopFrame
  <1>2. \A i \in 1 .. n : LevelAt(i - 1)' = LevelAt(i - 1)
    BY <1>1 DEF LevelAt
  <1>3. Nested'
    <2>1. ASSUME NEW i \in 1 .. n - 1
          PROVE  /\ frames'[i].pin = LevelAt(i - 1)'
                 /\ frames'[i].kind \in {"drain", "task"} =>
                      frames'[i].prio \in Prio /\ frames'[i].prio > frames'[i].pin
                 /\ frames'[i].kind = "mutex" => frames'[i].prio >= frames'[i].pin
      BY <1>1, <1>2 DEF Nested
    <2>2. QED BY <1>1, <2>1 DEF Nested
  <1>4. Rising'
    <2>1. \A m \in 0 .. n - 1 : LevelAt(m)' = LevelAt(m)
      BY <1>1 DEF LevelAt
    <2>2. QED BY <1>1, <2>1 DEF Rising
  <1>5. Layered'
    BY <1>1 DEF Layered
  <1>6. LevelAt(Len(frames))' = TopFrame.pin
    <2>1. LevelAt(Len(frames))' = LevelAt(n - 1)
      BY <1>1 DEF LevelAt
    <2>2. QED
      BY <1>1, <2>1 DEF Nested
  <1>7. TopFrame' = IF n = 1 THEN Main ELSE frames[n - 1]
    BY <1>1 DEF TopFrame
  <1>8. frames' # <<>> /\ TopFrame.kind # "signal" => TopFrame'.kind \in {"task", "mutex", "signal"}
    BY <1>1, <1>7 DEF Layered
  <1>9. ASSUME TopFrame.kind \notin {"drain", "task"}, NEW p, Serving(p)
        PROVE  Serving(p)'
    <2>1. PICK i \in 1 .. n : frames[i].kind \in {"drain", "task"} /\ frames[i].prio = p
      BY <1>9 DEF Serving
    <2>2. QED BY <1>1, <1>9, <2>1 DEF Serving
  <1>10. ASSUME NestCounts, TopFrame.kind # "isr", osel_int_nest' = osel_int_nest
        PROVE  NestCounts'
    BY <1>1, <1>10 DEF NestCounts
  <1>11. QED BY <1>1, <1>3, <1>4, <1>5, <1>6, <1>7, <1>8, <1>9, <1>10

-----------------------------------------------------------------------------
(* One lemma per action.  What an action leaves alone is carried over by    *)
(* the first step of each.                                                  *)

LEMMA InitInv == ASSUME Init PROVE IInv
  <1>1. PICK e \in Event : equeue = [p \in Prio |-> EqueueInit(QLen[p], [i \in 0 .. QLen[p] - 1 |-> e])]
    BY DEF Init
  <1>2. ASSUME NEW p \in Prio
        PROVE  equeue[p] \in EqueueType(QLen[p]) /\ RingOK(equeue[p]) /\ ~HasEvent(equeue[p])
    <2>1. QLen[p] \in Nat \ {0}
      BY QLenAssumption
    <2>2. [i \in 0 .. QLen[p] - 1 |-> e] \in [0 .. QLen[p] - 1 -> Event]
      OBVIOUS
    <2>3. equeue[p] = EqueueInit(QLen[p], [i \in 0 .. QLen[p] - 1 |-> e])
      BY <1>1
    <2>4. QED BY <2>1, <2>2, <2>3, InitQueue
  <1>3. Len(frames) = 1 /\ frames[1] = Schedule(-1) /\ frames \in Seq(Frame) /\ TopFrame = Schedule(-1)
    BY PrioAssumption DEF Init, Schedule, Frame, Level, TopFrame
  <1>4. TypeOK
    BY <1>1, <1>2, <1>3, PrioAssumption, BoundAssumption DEF Init, TypeOK, Level
  <1>5. RingsOK /\ ReadyExact
    BY <1>2 DEF RingsOK, ReadyExact, Init
  <1>6. Nested /\ Rising /\ Layered /\ NestCounts
    BY <1>3 DEF Nested, Rising, Ceiling, Layered, NestCounts, LevelAt, Schedule, Init
  <1>7. CurrIsTop /\ Awake
    BY <1>3 DEF CurrIsTop, Awake, InCode, Schedule
  <1>8. QED BY <1>4, <1>5, <1>6, <1>7 DEF IInv

LEMMA PostAcceptedInv ==
  ASSUME IInv, NEW p \in Prio, NEW e \in Event, PostAccepted(p, e)
  PROVE  IInv'
  <1> DEFINE f == [kind |-> "signal", pin |-> osel_curr_prio, prio |-> p]
  <1>1. f \in Frame /\ f.kind = "signal" /\ f.pin = osel_curr_prio
    BY PrioAssumption DEF IInv, TypeOK, Frame, Level, Prio
  <1>2. frames' = Append(frames, f) /\ TopFrame.kind \in {"main", "task", "mutex", "isr"}
    BY DEF PostAccepted, Push, InCode
  <1>3. frames \in Seq(Frame) /\ (frames = <<>> <=> TopFrame.kind = "main")
    BY TopFacts DEF IInv, TypeOK
  <1>4. osel_curr_prio = LevelAt(Len(frames))
    BY <1>2 DEF IInv, CurrIsTop
  <1>5. /\ frames' \in Seq(Frame) /\ Nested' /\ Rising' /\ Layered' /\ NestCounts'
        /\ TopFrame' = f /\ LevelAt(Len(frames))' = Ceiling(f)
        /\ \A r : Serving(r) => Serving(r)'
    <2> HIDE DEF f
    <2>1. QED
      BY <1>1, <1>2, <1>3, <1>4, PushShape DEF IInv, PostAccepted
  <1>6. /\ equeue'[p] \in EqueueType(QLen[p]) /\ RingOK(equeue'[p]) /\ HasEvent(equeue'[p])
        /\ DOMAIN equeue' = Prio /\ \A r \in Prio \ {p} : equeue'[r] = equeue[r]
    <2>1. equeue'[p] = EqueuePost(equeue[p], e) /\ DOMAIN equeue' = Prio
          /\ \A r \in Prio \ {p} : equeue'[r] = equeue[r]
      BY DEF PostAccepted, IInv, TypeOK
    <2>2. QED
      BY <2>1, PostAppends, QLenAssumption DEF PostAccepted, IInv, TypeOK, RingsOK
  <1>7. TypeOK'
    <2>1. \A r \in Prio : equeue'[r] \in EqueueType(QLen[r])
      BY <1>6 DEF IInv, TypeOK
    <2>2. posts' \in 0 .. MaxPosts /\ osel_rdy_tbl' \subseteq Prio
      BY BoundAssumption DEF PostAccepted, IInv, TypeOK
    <2>3. QED
      BY <1>5, <1>6, <2>1, <2>2 DEF PostAccepted, IInv, TypeOK
  <1>8. RingsOK' /\ ReadyExact'
    BY <1>5, <1>6 DEF PostAccepted, IInv, RingsOK, ReadyExact
  <1>9. CurrIsTop' /\ Awake'
    BY <1>1, <1>5 DEF PostAccepted, CurrIsTop, Awake, InCode, Ceiling
  <1>10. QED BY <1>5, <1>7, <1>8, <1>9 DEF IInv

LEMMA PostRefusedInv ==
  ASSUME IInv, NEW p \in Prio, NEW e \in Event, PostRefused(p, e)
  PROVE  IInv'
  <1>1. UNCHANGED <<equeue, osel_rdy_tbl, osel_curr_prio, osel_int_nest, frames, isrs>>
        /\ posts' \in 0 .. MaxPosts
    BY BoundAssumption DEF PostRefused, IInv, TypeOK
  <1>2. QED
    BY <1>1 DEF IInv, TypeOK, RingsOK, ReadyExact, Serving, Nested, Rising, Layered, NestCounts, CurrIsTop,
                Awake, LevelAt, TopFrame, InCode

LEMMA PostSignalInv ==
  ASSUME IInv, PostSignal
  PROVE  IInv'
  <1>1. /\ TopFrame.kind = "signal" /\ frames # <<>> /\ TopFrame \in Frame
        /\ TopFrame = frames[Len(frames)] /\ Len(frames) \in Nat /\ Len(frames) # 0
        /\ osel_int_nest \in 0 .. 1
        /\ osel_int_nest = 1 => Len(frames) > 1 /\ frames[Len(frames) - 1].kind = "isr"
    BY TopFacts DEF PostSignal, IInv, TypeOK
  <1>2. osel_curr_prio = TopFrame.pin
    BY <1>1 DEF IInv, CurrIsTop, LevelAt, Ceiling
  <1>3. UNCHANGED <<equeue, osel_rdy_tbl, osel_curr_prio, osel_int_nest, posts, isrs>>
    BY DEF PostSignal
  <1>4. CASE osel_int_nest = 0
    <2> DEFINE f == Schedule(osel_curr_prio)
    <2>1. Become(f)
      BY <1>4 DEF PostSignal
    <2>2. f \in Frame /\ f.kind = "select" /\ f.pin = TopFrame.pin
      BY <1>2 DEF Schedule, Frame, IInv, TypeOK
    <2>3. Len(frames) = 1 \/ frames[Len(frames) - 1].kind # "isr"
      <3>1. \A i \in 1 .. Len(frames) : frames[i].kind # "isr"
        BY <1>4 DEF IInv, NestCounts
      <3>2. Len(frames) = 0 \/ Len(frames) = 1 \/ Len(frames) - 1 \in 1 .. Len(frames)
        BY <1>1, IndexBelow, Zenon
      <3>3. QED BY <1>1, <3>1, <3>2
    <2>4. /\ frames' \in Seq(Frame) /\ Nested' /\ Rising' /\ Layered' /\ NestCounts' /\ TopFrame' = f
          /\ \A r : Serving(r) => Serving(r)'
      <3> HIDE DEF f
      <3>1. QED
        BY <1>1, <1>3, <2>1, <2>2, <2>3, ReplaceShape DEF IInv, TypeOK
    <2>5. QED
      BY <1>3, <2>2, <2>4 DEF IInv, TypeOK, RingsOK, ReadyExact, CurrIsTop, Awake, InCode
  <1>5. CASE osel_int_nest = 1
    <2>1. Pop
      BY <1>5 DEF PostSignal
    <2>2. /\ frames' \in Seq(Frame) /\ Nested' /\ Rising' /\ Layered' /\ NestCounts'
          /\ TopFrame' = frames[Len(frames) - 1]
          /\ LevelAt(Len(frames))' = TopFrame.pin
          /\ \A r : Serving(r) => Serving(r)'
      BY <1>1, <1>3, <1>5, <2>1, PopShape DEF IInv, TypeOK
    <2>3. TopFrame'.kind = "isr"
      BY <1>1, <1>5, <2>2
    <2>4. QED
      BY <1>2, <1>3, <2>2, <2>3 DEF IInv, TypeOK, RingsOK, ReadyExact, CurrIsTop, Awake, InCode
  <1>6. QED BY <1>1, <1>4, <1>5

LEMMA SelectTaskInv ==
  ASSUME IInv, SelectTask
  PROVE  IInv'
  <1>1. PICK prio \in osel_rdy_tbl :
          /\ \A r \in osel_rdy_tbl : r <= prio
          /\ prio > TopFrame.pin
          /\ osel_curr_prio' = prio
          /\ Become([kind |-> "drain", pin |-> TopFrame.pin, prio |-> prio])
    BY DEF SelectTask
  <1> DEFINE f == [kind |-> "drain", pin |-> TopFrame.pin, prio |-> prio]
  <1>2. TopFrame.kind = "select" /\ frames # <<>> /\ TopFrame \in Frame
    BY TopFacts DEF SelectTask, IInv, TypeOK
  <1>3. UNCHANGED <<equeue, osel_rdy_tbl, osel_int_nest, posts, isrs>>
    BY DEF SelectTask
  <1>4. f \in Frame /\ f.kind = "drain" /\ f.pin = TopFrame.pin /\ f.prio = prio /\ prio \in Prio
    BY <1>2, PrioAssumption DEF Frame, Level, Prio, IInv, TypeOK
  <1>5. /\ frames' \in Seq(Frame) /\ Nested' /\ Rising' /\ Layered' /\ NestCounts'
        /\ TopFrame' = f /\ LevelAt(Len(frames))' = prio
        /\ \A r : Serving(r) => Serving(r)'
    <2>1. Ceiling(f) = prio
      BY DEF Ceiling
    <2> HIDE DEF f
    <2>2. Become(f)
      BY <1>1 DEF f
    <2>3. QED
      BY <1>1, <1>2, <1>3, <1>4, <2>1, <2>2, ReplaceShape DEF IInv, TypeOK
  <1>6. TypeOK' /\ RingsOK' /\ ReadyExact'
    BY <1>1, <1>3, <1>4, <1>5, PrioAssumption DEF IInv, TypeOK, RingsOK, ReadyExact, Level, Prio
  <1>7. CurrIsTop' /\ Awake'
    BY <1>1, <1>3, <1>5 DEF IInv, ReadyExact, CurrIsTop, Awake
  <1>8. QED BY <1>5, <1>6, <1>7 DEF IInv

LEMMA ScheduleReturnInv ==
  ASSUME IInv, ScheduleReturn
  PROVE  IInv'
  <1>1. TopFrame.kind = "select" /\ frames # <<>> /\ TopFrame \in Frame
    BY TopFacts DEF ScheduleReturn, IInv, TypeOK
  <1>2. UNCHANGED <<equeue, osel_rdy_tbl, osel_int_nest, posts, isrs>>
        /\ osel_curr_prio' = TopFrame.pin /\ Pop
        /\ \A r \in osel_rdy_tbl : r <= TopFrame.pin
    BY DEF ScheduleReturn
  <1>3. /\ frames' \in Seq(Frame) /\ Nested' /\ Rising' /\ Layered' /\ NestCounts'
        /\ LevelAt(Len(frames))' = TopFrame.pin
        /\ \A r : Serving(r) => Serving(r)'
    BY <1>1, <1>2, PopShape DEF IInv, TypeOK
  <1>4. TypeOK' /\ RingsOK' /\ ReadyExact'
    BY <1>1, <1>2, <1>3 DEF IInv, TypeOK, RingsOK, ReadyExact, Frame
  <1>5. CurrIsTop' /\ Awake'
    BY <1>2, <1>3 DEF IInv, ReadyExact, CurrIsTop, Awake
  <1>6. QED BY <1>3, <1>4, <1>5 DEF IInv

LEMMA TakeEventInv ==
  ASSUME IInv, TakeEvent
  PROVE  IInv'
  <1> DEFINE f == [TopFrame EXCEPT !.kind = "task"]
  <1> DEFINE p == TopFrame.prio
  <1>1. /\ TopFrame.kind = "drain" /\ frames # <<>> /\ TopFrame \in Frame
        /\ TopFrame = frames[Len(frames)] /\ Len(frames) \in Nat \ {0}
    BY TopFacts DEF TakeEvent, IInv, TypeOK
  <1>2. UNCHANGED <<osel_rdy_tbl, osel_curr_prio, osel_int_nest, posts, isrs>> /\ Become(f)
    BY DEF TakeEvent
  <1>3. p \in Prio /\ p > TopFrame.pin /\ osel_curr_prio = p /\ LevelAt(Len(frames)) = p
    BY <1>1 DEF IInv, Nested, CurrIsTop, LevelAt, Ceiling
  <1>4. f \in Frame /\ f.kind = "task" /\ f.pin = TopFrame.pin /\ f.prio = p
    BY <1>1 DEF Frame
  <1>5. /\ frames' \in Seq(Frame) /\ Nested' /\ Rising' /\ Layered' /\ NestCounts'
        /\ TopFrame' = f /\ LevelAt(Len(frames))' = p
        /\ \A r : Serving(r) => Serving(r)'
    <2>1. Ceiling(f) = p
      BY <1>4 DEF Ceiling
    <2> HIDE DEF f
    <2>2. QED
      BY <1>1, <1>2, <1>3, <1>4, <2>1, ReplaceShape DEF IInv, TypeOK
  <1>6. Serving(p)
    BY <1>1 DEF Serving
  <1>7. /\ equeue'[p] \in EqueueType(QLen[p]) /\ RingOK(equeue'[p])
        /\ DOMAIN equeue' = Prio /\ \A r \in Prio \ {p} : equeue'[r] = equeue[r]
    <2>1. equeue'[p] = EqueueGet(equeue[p]) /\ HasEvent(equeue[p]) /\ DOMAIN equeue' = Prio
          /\ \A r \in Prio \ {p} : equeue'[r] = equeue[r]
      BY <1>3 DEF TakeEvent, IInv, TypeOK
    <2>2. QED
      BY <1>3, <2>1, GetRemovesHead, QLenAssumption DEF IInv, TypeOK, RingsOK
  <1>8. TypeOK'
    BY <1>2, <1>5, <1>7 DEF IInv, TypeOK
  <1>9. RingsOK' /\ ReadyExact'
    <2>1. HasEvent(equeue[p])
      BY DEF TakeEvent
    <2>2. QED
      BY <1>2, <1>3, <1>5, <1>6, <1>7, <2>1 DEF IInv, RingsOK, ReadyExact
  <1>10. CurrIsTop' /\ Awake'
    <2>1. \A r \in Prio : HasEvent(equeue[r]) => r <= p
      BY <1>1, <1>3 DEF IInv, Awake
    <2>2. \A r \in Prio : HasEvent(equeue'[r]) => r <= p
      BY <1>3, <1>7, <2>1 DEF Prio
    <2>3. QED
      BY <1>2, <1>3, <1>4, <1>5, <2>2 DEF CurrIsTop, Awake
  <1>11. QED BY <1>5, <1>8, <1>9, <1>10 DEF IInv

LEMMA QueueDrainedInv ==
  ASSUME IInv, QueueDrained
  PROVE  IInv'
  <1> DEFINE f == [TopFrame EXCEPT !.kind = "select"]
  <1> DEFINE p == TopFrame.prio
  <1>1. TopFrame.kind = "drain" /\ frames # <<>> /\ TopFrame \in Frame
    BY TopFacts DEF QueueDrained, IInv, TypeOK
  <1>2. UNCHANGED <<equeue, osel_curr_prio, osel_int_nest, posts, isrs>> /\ Become(f)
        /\ osel_rdy_tbl' = osel_rdy_tbl \ {p} /\ ~HasEvent(equeue[p])
    BY DEF QueueDrained, ClearReady
  <1>3. f \in Frame /\ f.kind = "select" /\ f.pin = TopFrame.pin /\ f.prio = p
    BY <1>1 DEF Frame
  <1>4. /\ frames' \in Seq(Frame) /\ Nested' /\ Rising' /\ Layered' /\ NestCounts' /\ TopFrame' = f
        /\ \A r : r # p => (Serving(r) => Serving(r)')
    <2> HIDE DEF f
    <2>1. QED
      BY <1>1, <1>2, <1>3, ReplaceShape DEF IInv, TypeOK
  <1>5. TypeOK' /\ RingsOK' /\ ReadyExact'
    BY <1>2, <1>4 DEF IInv, TypeOK, RingsOK, ReadyExact
  <1>6. CurrIsTop' /\ Awake'
    BY <1>3, <1>4 DEF CurrIsTop, Awake, InCode
  <1>7. QED BY <1>4, <1>5, <1>6 DEF IInv

LEMMA TaskReturnInv ==
  ASSUME IInv, TaskReturn
  PROVE  IInv'
  <1> DEFINE f == [TopFrame EXCEPT !.kind = "drain"]
  <1> DEFINE p == TopFrame.prio
  <1>1. /\ TopFrame.kind = "task" /\ frames # <<>> /\ TopFrame \in Frame
        /\ TopFrame = frames[Len(frames)] /\ Len(frames) \in Nat \ {0}
    BY TopFacts DEF TaskReturn, IInv, TypeOK
  <1>2. UNCHANGED <<equeue, osel_rdy_tbl, osel_curr_prio, osel_int_nest, posts, isrs>> /\ Become(f)
    BY DEF TaskReturn
  <1>3. p \in Prio /\ p > TopFrame.pin /\ osel_curr_prio = p /\ LevelAt(Len(frames)) = p
    BY <1>1 DEF IInv, Nested, CurrIsTop, LevelAt, Ceiling
  <1>4. f \in Frame /\ f.kind = "drain" /\ f.pin = TopFrame.pin /\ f.prio = p
    BY <1>1 DEF Frame
  <1>5. /\ frames' \in Seq(Frame) /\ Nested' /\ Rising' /\ Layered' /\ NestCounts'
        /\ TopFrame' = f /\ LevelAt(Len(frames))' = p
        /\ \A r : Serving(r) => Serving(r)'
    <2>1. Ceiling(f) = p
      BY <1>4 DEF Ceiling
    <2> HIDE DEF f
    <2>2. QED
      BY <1>1, <1>2, <1>3, <1>4, <2>1, ReplaceShape DEF IInv, TypeOK
  <1>6. TypeOK' /\ RingsOK' /\ ReadyExact'
    BY <1>2, <1>5 DEF IInv, TypeOK, RingsOK, ReadyExact
  <1>7. CurrIsTop' /\ Awake'
    BY <1>1, <1>2, <1>3, <1>5 DEF IInv, CurrIsTop, Awake, InCode
  <1>8. QED BY <1>5, <1>6, <1>7 DEF IInv

LEMMA IsrEntryInv ==
  ASSUME IInv, IsrEntry
  PROVE  IInv'
  <1> DEFINE f == [kind |-> "isr", pin |-> osel_curr_prio, prio |-> osel_curr_prio]
  <1>1. f \in Frame /\ f.kind = "isr" /\ f.pin = osel_curr_prio
    BY DEF IInv, TypeOK, Frame
  <1>2. frames' = Append(frames, f) /\ TopFrame.kind \in {"main", "task", "mutex", "signal"}
        /\ UNCHANGED <<equeue, osel_rdy_tbl, osel_curr_prio, posts>> /\ osel_int_nest' = osel_int_nest + 1
    BY DEF IsrEntry, IntEnabled, Push, InCode
  <1>3. frames \in Seq(Frame) /\ (frames = <<>> <=> TopFrame.kind = "main") /\ osel_int_nest = 0
    BY TopFacts DEF IInv, TypeOK, IsrEntry, IntEnabled, InCode
  <1>4. osel_curr_prio = LevelAt(Len(frames))
    BY <1>2 DEF IInv, CurrIsTop
  <1>5. TopFrame.kind = "signal" => Len(frames) = 1 \/ frames[Len(frames) - 1].kind # "isr"
    <2>1. \A i \in 1 .. Len(frames) : frames[i].kind # "isr"
      BY <1>3 DEF IInv, NestCounts
    <2>2. Len(frames) \in Nat
      BY <1>3
    <2>3. Len(frames) = 0 \/ Len(frames) = 1 \/ Len(frames) - 1 \in 1 .. Len(frames)
      BY <2>2, IndexBelow, Zenon
    <2>4. Len(frames) = 0 => TopFrame.kind = "main"
      BY <1>3
    <2>5. QED BY <2>1, <2>3, <2>4
  <1>6. /\ frames' \in Seq(Frame) /\ Nested' /\ Rising' /\ Layered' /\ NestCounts'
        /\ TopFrame' = f /\ LevelAt(Len(frames))' = Ceiling(f)
        /\ \A r : Serving(r) => Serving(r)'
    <2> HIDE DEF f
    <2>1. QED
      BY <1>1, <1>2, <1>3, <1>4, <1>5, PushShape DEF IInv
  <1>7. TypeOK'
    <2>1. isrs' \in 0 .. MaxIsrs
      BY BoundAssumption DEF IsrEntry, IInv, TypeOK
    <2>2. QED
      BY <1>2, <1>3, <1>6, <2>1 DEF IInv, TypeOK
  <1>8. RingsOK' /\ ReadyExact'
    BY <1>2, <1>6 DEF IInv, RingsOK, ReadyExact
  <1>9. CurrIsTop' /\ Awake'
    BY <1>1, <1>2, <1>6 DEF CurrIsTop, Awake, InCode, Ceiling
  <1>10. QED BY <1>6, <1>7, <1>8, <1>9 DEF IInv

LEMMA IsrExitInv ==
  ASSUME IInv, IsrExit
  PROVE  IInv'
  <1> DEFINE f == Schedule(osel_curr_prio)
  <1>1. TopFrame.kind = "isr" /\ frames # <<>> /\ TopFrame \in Frame /\ osel_int_nest = 1
    BY TopFacts DEF IsrExit, IInv, TypeOK
  <1>2. osel_int_nest' = 0 /\ Become(f) /\ UNCHANGED <<equeue, osel_rdy_tbl, osel_curr_prio, posts, isrs>>
    BY <1>1 DEF IsrExit
  <1>3. osel_curr_prio = TopFrame.pin
    BY <1>1, TopFacts DEF IInv, TypeOK, CurrIsTop, LevelAt, Ceiling
  <1>4. f \in Frame /\ f.kind = "select" /\ f.pin = TopFrame.pin
    BY <1>3 DEF Schedule, Frame, IInv, TypeOK
  <1>5. /\ frames' \in Seq(Frame) /\ Nested' /\ Rising' /\ Layered' /\ NestCounts' /\ TopFrame' = f
        /\ \A r : Serving(r) => Serving(r)'
    <2> HIDE DEF f
    <2>1. QED
      BY <1>1, <1>2, <1>4, ReplaceShape DEF IInv, TypeOK
  <1>6. TypeOK' /\ RingsOK' /\ ReadyExact'
    BY <1>2, <1>5 DEF IInv, TypeOK, RingsOK, ReadyExact
  <1>7. CurrIsTop' /\ Awake'
    BY <1>4, <1>5 DEF CurrIsTop, Awake, InCode
  <1>8. QED BY <1>5, <1>6, <1>7 DEF IInv

LEMMA MutexLockInv ==
  ASSUME IInv, NEW ceiling \in 0 .. OSEL_MAX_PRIO, MutexLock(ceiling)
  PROVE  IInv'
  <1> DEFINE f == [kind |-> "mutex", pin |-> osel_curr_prio, prio |-> osel_curr_prio']
  <1>1. osel_curr_prio' \in Level /\ osel_curr_prio' >= osel_curr_prio
    BY PrioAssumption DEF MutexLock, IInv, TypeOK, Level
  <1>2. f \in Frame /\ f.kind = "mutex" /\ f.pin = osel_curr_prio /\ f.prio = osel_curr_prio' /\ f.prio >= f.pin
    BY <1>1 DEF IInv, TypeOK, Frame
  <1>3. frames' = Append(frames, f) /\ TopFrame.kind \in {"main", "task"}
        /\ UNCHANGED <<equeue, osel_rdy_tbl, osel_int_nest, posts, isrs>>
    BY DEF MutexLock, Push
  <1>4. frames \in Seq(Frame) /\ (frames = <<>> <=> TopFrame.kind = "main")
    BY TopFacts DEF IInv, TypeOK
  <1>5. osel_curr_prio = LevelAt(Len(frames))
    BY <1>3 DEF IInv, CurrIsTop
  <1>6. /\ frames' \in Seq(Frame) /\ Nested' /\ Rising' /\ Layered' /\ NestCounts'
        /\ TopFrame' = f /\ LevelAt(Len(frames))' = osel_curr_prio'
        /\ \A r : Serving(r) => Serving(r)'
    <2>1. Ceiling(f) = osel_curr_prio'
      BY DEF Ceiling
    <2> HIDE DEF f
    <2>2. QED
      BY <1>2, <1>3, <1>4, <1>5, <2>1, PushShape DEF IInv
  <1>7. TypeOK' /\ RingsOK' /\ ReadyExact'
    BY <1>1, <1>3, <1>6 DEF IInv, TypeOK, RingsOK, ReadyExact
  <1>8. CurrIsTop' /\ Awake'
    <2>1. \A p \in Prio : HasEvent(equeue[p]) => p <= osel_curr_prio
      BY <1>3, <1>5 DEF IInv, Awake, InCode
    <2>2. \A p \in Prio : HasEvent(equeue[p]) => p <= osel_curr_prio'
      BY <1>1, <2>1, PrioAssumption DEF Prio, Level, IInv, TypeOK
    <2>3. QED
      BY <1>3, <1>6, <2>2 DEF CurrIsTop, Awake
  <1>9. QED BY <1>6, <1>7, <1>8 DEF IInv

LEMMA MutexUnlockInv ==
  ASSUME IInv, MutexUnlock
  PROVE  IInv'
  <1>1. /\ TopFrame.kind = "mutex" /\ frames # <<>> /\ TopFrame \in Frame /\ osel_int_nest = 0
        /\ TopFrame = frames[Len(frames)] /\ Len(frames) \in Nat \ {0}
    BY TopFacts DEF MutexUnlock, IInv, TypeOK
  <1>2. UNCHANGED <<equeue, osel_rdy_tbl, osel_int_nest, posts, isrs>>
    BY DEF MutexUnlock
  <1>3. osel_curr_prio = TopFrame.prio /\ TopFrame.prio >= TopFrame.pin
    BY <1>1 DEF IInv, Nested, CurrIsTop, LevelAt, Ceiling
  <1>4. CASE osel_curr_prio > TopFrame.pin
    <2> DEFINE f == Schedule(TopFrame.pin)
    <2>1. Become(f) /\ osel_curr_prio' = TopFrame.pin
      BY <1>1, <1>4 DEF MutexUnlock
    <2>2. f \in Frame /\ f.kind = "select" /\ f.pin = TopFrame.pin
      BY <1>1 DEF Schedule, Frame
    <2>3. /\ frames' \in Seq(Frame) /\ Nested' /\ Rising' /\ Layered' /\ NestCounts' /\ TopFrame' = f
          /\ \A r : Serving(r) => Serving(r)'
      <3> HIDE DEF f
      <3>1. QED
        BY <1>1, <1>2, <2>1, <2>2, ReplaceShape DEF IInv, TypeOK
    <2>4. TypeOK' /\ RingsOK' /\ ReadyExact'
      BY <1>1, <1>2, <2>1, <2>3 DEF IInv, TypeOK, RingsOK, ReadyExact, Frame
    <2>5. CurrIsTop' /\ Awake'
      BY <2>2, <2>3 DEF CurrIsTop, Awake, InCode
    <2>6. QED BY <2>3, <2>4, <2>5 DEF IInv
  <1>5. CASE ~(osel_curr_prio > TopFrame.pin)
    <2>1. Pop /\ osel_curr_prio' = osel_curr_prio
      BY <1>5 DEF MutexUnlock
    <2>2. osel_curr_prio = TopFrame.pin
      BY <1>1, <1>3, <1>5 DEF Frame, Level
    <2>3. /\ frames' \in Seq(Frame) /\ Nested' /\ Rising' /\ Layered' /\ NestCounts'
          /\ LevelAt(Len(frames))' = TopFrame.pin
          /\ \A r : Serving(r) => Serving(r)'
      BY <1>1, <1>2, <2>1, PopShape DEF IInv, TypeOK
    <2>4. TypeOK' /\ RingsOK' /\ ReadyExact'
      BY <1>2, <2>1, <2>3 DEF IInv, TypeOK, RingsOK, ReadyExact
    <2>5. \A p \in Prio : HasEvent(equeue[p]) => p <= osel_curr_prio
      BY <1>1 DEF IInv, Awake, InCode, CurrIsTop
    <2>6. CurrIsTop' /\ Awake'
      BY <1>2, <2>1, <2>2, <2>3, <2>5 DEF CurrIsTop, Awake
    <2>7. QED BY <2>3, <2>4, <2>6 DEF IInv
  <1>6. QED BY <1>4, <1>5

-----------------------------------------------------------------------------
(* Every step of the kernel, of a task or of an interrupt keeps IInv. *)
LEMMA StepInv == ASSUME IInv, [Next]_vars PROVE IInv'
  <1>1. CASE UNCHANGED vars
    BY <1>1 DEF vars, IInv, TypeOK, RingsOK, ReadyExact, Serving, Nested, Rising, Layered, NestCounts,
                CurrIsTop, Awake, LevelAt, TopFrame, InCode
  <1>2. CASE Next
    <2>1. ASSUME NEW p \in Prio, NEW e \in Event, PostAccepted(p, e) \/ PostRefused(p, e)
          PROVE  IInv'
      BY <2>1, PostAcceptedInv, PostRefusedInv
    <2>2. CASE Kernel
      BY <2>2, PostSignalInv, SelectTaskInv, ScheduleReturnInv, TakeEventInv, QueueDrainedInv DEF Kernel
    <2>3. CASE TaskReturn \/ IsrEntry \/ IsrExit \/ MutexUnlock
      BY <2>3, TaskReturnInv, IsrEntryInv, IsrExitInv, MutexUnlockInv
    <2>4. ASSUME NEW ceiling \in 0 .. OSEL_MAX_PRIO, MutexLock(ceiling)
          PROVE  IInv'
      BY <2>4, MutexLockInv
    <2>5. QED
      BY <1>2, <2>1, <2>2, <2>3, <2>4 DEF Next
  <1>3. QED BY <1>1, <1>2

(* The inductive invariant holds in every reachable state of the kernel: the *)
(* code of osel_schedule, osel_post and the interrupt macros keeps the rings, *)
(* the ready table, osel_curr_prio and the C stack in agreement.              *)
THEOREM KernelInvariant == Spec => []IInv
  <1>1. Init => IInv
    BY InitInv
  <1>2. IInv /\ [Next]_vars => IInv'
    BY StepInv
  <1>3. QED
    BY <1>1, <1>2, PTL DEF Spec

(* The kernel's variables keep their types; indices stay inside the rings. *)
THEOREM TypeCorrect == Spec => []TypeOK
  <1>1. IInv => TypeOK
    BY DEF IInv
  <1>2. QED BY <1>1, KernelInvariant, PTL

(* The ready table of wsnos_sched.c loses no task, whatever is posted when. *)
THEOREM ReadyTableExact == Spec => []ReadyExact
  <1>1. IInv => ReadyExact
    BY DEF IInv
  <1>2. QED BY <1>1, KernelInvariant, PTL

(* No wake-up is missed: nothing of higher priority waits while code runs. *)
THEOREM NoWakeupMissed == Spec => []NoMissedWakeup
  <1>1. IInv => NoMissedWakeup
    <2> SUFFICES ASSUME IInv, InCode, NEW p \in Prio, HasEvent(equeue[p])
                 PROVE  p <= osel_curr_prio
      BY DEF NoMissedWakeup
    <2>1. p <= LevelAt(Len(frames))
      BY DEF IInv, Awake
    <2>2. osel_curr_prio = LevelAt(Len(frames))
      BY DEF IInv, CurrIsTop, InCode
    <2>3. QED BY <2>1, <2>2
  <1>2. QED BY <1>1, KernelInvariant, PTL

(* Whatever ran on top of it, code resumes at its own priority. *)
THEOREM PriorityRestored == Spec => []PrioRestored
  <1>1. IInv => PrioRestored
    <2> SUFFICES ASSUME IInv, InCode
                 PROVE  osel_curr_prio = TopFrame.prio
      BY DEF PrioRestored
    <2>1. osel_curr_prio = LevelAt(Len(frames))
      BY DEF IInv, CurrIsTop, InCode
    <2>2. CASE frames = <<>>
      BY <2>1, <2>2 DEF LevelAt, TopFrame, Main
    <2>3. CASE frames # <<>>
      <3>1. TopFrame = frames[Len(frames)] /\ Len(frames) \in Nat \ {0} /\ TopFrame.kind # "main"
        BY <2>3, TopFacts DEF IInv, TypeOK
      <3>2. QED
        BY <2>1, <3>1 DEF LevelAt, Ceiling, InCode
    <2>4. QED BY <2>2, <2>3
  <1>2. QED BY <1>1, KernelInvariant, PTL

(* A handler is only ever interrupted by handlers of higher priority, so none *)
(* is re-entered, and nothing at or below its ceiling enters a locked region. *)
THEOREM HandlersNest == Spec => []StrictNesting
  <1>1. IInv => StrictNesting
    <2> SUFFICES ASSUME IInv, NEW i \in 1 .. Len(frames), NEW j \in 1 .. Len(frames), i < j,
                        frames[i].kind \in {"drain", "task", "mutex"},
                        frames[j].kind \in {"drain", "task"}
                 PROVE  frames[i].prio < frames[j].prio
      BY DEF StrictNesting
    <2>1. frames \in Seq(Frame) /\ i \in 0 .. Len(frames) /\ j - 1 \in 0 .. Len(frames) /\ i <= j - 1
      BY DEF IInv, TypeOK
    <2>2. LevelAt(i) = frames[i].prio
      BY DEF LevelAt, Ceiling
    <2>3. LevelAt(i) <= LevelAt(j - 1)
      BY <2>1 DEF IInv, Rising
    <2>4. LevelAt(j - 1) = frames[j].pin /\ frames[j].prio > frames[j].pin
      BY DEF IInv, Nested
    <2>5. frames[i] \in Frame /\ frames[j] \in Frame
      BY <2>1
    <2>6. frames[i].prio \in Int /\ frames[j].prio \in Int /\ frames[j].pin \in Int
      BY <2>5, PrioAssumption DEF Frame, Level
    <2>7. QED BY <2>2, <2>3, <2>4, <2>6
  <1>2. QED BY <1>1, KernelInvariant, PTL

-----------------------------------------------------------------------------
(* Refinement of PrioDelivery, its safety part. *)

mail == [p \in Prio |-> Contents(equeue[p])]

LEMMA MailInit == ASSUME Init PROVE Delivery!Init
  <1>1. PICK e \in Event : equeue = [p \in Prio |-> EqueueInit(QLen[p], [i \in 0 .. QLen[p] - 1 |-> e])]
    BY DEF Init
  <1>2. ASSUME NEW p \in Prio
        PROVE  Contents(equeue[p]) = <<>>
    <2>1. QLen[p] \in Nat \ {0}
      BY QLenAssumption
    <2>2. [i \in 0 .. QLen[p] - 1 |-> e] \in [0 .. QLen[p] - 1 -> Event]
      OBVIOUS
    <2>3. equeue[p] = EqueueInit(QLen[p], [i \in 0 .. QLen[p] - 1 |-> e])
      BY <1>1
    <2>4. QED BY <2>1, <2>2, <2>3, InitQueue
  <1>3. QED BY <1>2 DEF Delivery!Init

LEMMA MailAccept ==
  ASSUME IInv, NEW p \in Prio, NEW e \in Event, PostAccepted(p, e)
  PROVE  Delivery!Accept(p, e)
  <1>1. equeue' = [equeue EXCEPT ![p] = EqueuePost(equeue[p], e)] /\ HasRoom(equeue[p]) /\ DOMAIN equeue = Prio
    BY DEF PostAccepted, IInv, TypeOK
  <1>2. equeue[p] \in EqueueType(QLen[p]) /\ RingOK(equeue[p]) /\ QLen[p] \in Nat \ {0}
    BY QLenAssumption DEF IInv, TypeOK, RingsOK
  <1>3. Contents(EqueuePost(equeue[p], e)) = Append(Contents(equeue[p]), e) /\ Len(Contents(equeue[p])) < QLen[p]
    BY <1>1, <1>2, PostAppends, QueueLength
  <1>4. \A r \in Prio : Contents(equeue'[r]) = IF r = p THEN Append(Contents(equeue[p]), e) ELSE Contents(equeue[r])
    BY <1>1, <1>3
  <1>5. [r \in Prio |-> Contents(equeue'[r])]
          = [[r \in Prio |-> Contents(equeue[r])] EXCEPT ![p] = Append(Contents(equeue[p]), e)]
    BY <1>4
  <1>6. QED BY <1>3, <1>5 DEF Delivery!Accept

LEMMA MailDeliver ==
  ASSUME IInv, TakeEvent
  PROVE  \E p \in Prio : Delivery!Deliver(p)
  <1> DEFINE p == TopFrame.prio
  <1>1. TopFrame.kind = "drain" /\ TopFrame = frames[Len(frames)] /\ Len(frames) \in Nat \ {0}
    BY TopFacts DEF TakeEvent, IInv, TypeOK
  <1>2. p \in Prio /\ LevelAt(Len(frames)) = p
    BY <1>1 DEF IInv, Nested, LevelAt, Ceiling
  <1>3. equeue' = [equeue EXCEPT ![p] = EqueueGet(equeue[p])] /\ HasEvent(equeue[p]) /\ DOMAIN equeue = Prio
    BY DEF TakeEvent, IInv, TypeOK
  <1>4. \A r \in Prio : equeue[r] \in EqueueType(QLen[r]) /\ RingOK(equeue[r]) /\ QLen[r] \in Nat \ {0}
    BY QLenAssumption DEF IInv, TypeOK, RingsOK
  <1>5. Contents(EqueueGet(equeue[p])) = Tail(Contents(equeue[p])) /\ Contents(equeue[p]) # <<>>
    BY <1>2, <1>3, <1>4, GetRemovesHead, QueueLength
  <1>6. \A r \in Prio : r > p => Contents(equeue[r]) = <<>>
    <2>1. \A r \in Prio : HasEvent(equeue[r]) => r <= p
      BY <1>1, <1>2 DEF IInv, Awake
    <2>2. \A r \in Prio : HasEvent(equeue[r]) <=> Contents(equeue[r]) # <<>>
      BY <1>4, QueueLength
    <2>3. QED BY <1>2, <2>1, <2>2 DEF Prio
  <1>7. \A r \in Prio : Contents(equeue'[r]) = IF r = p THEN Tail(Contents(equeue[p])) ELSE Contents(equeue[r])
    BY <1>2, <1>3, <1>5
  <1>8. [r \in Prio |-> Contents(equeue'[r])]
          = [[r \in Prio |-> Contents(equeue[r])] EXCEPT ![p] = Tail(Contents(equeue[p]))]
    BY <1>2, <1>7
  <1>9. Delivery!Deliver(p)
    BY <1>2, <1>5, <1>6, <1>8 DEF Delivery!Deliver
  <1>10. QED BY <1>2, <1>9

LEMMA MailStep == ASSUME IInv, [Next]_vars PROVE [Delivery!Next]_mail
  <1>1. CASE UNCHANGED equeue
    BY <1>1 DEF mail
  <1>2. ASSUME NEW p \in Prio, NEW e \in Event, PostAccepted(p, e)
        PROVE  Delivery!Next
    BY <1>2, MailAccept DEF Delivery!Next
  <1>3. CASE TakeEvent
    BY <1>3, MailDeliver DEF Delivery!Next
  <1>4. Next => \/ UNCHANGED equeue \/ TakeEvent
               \/ \E p \in Prio, e \in Event : PostAccepted(p, e)
    BY DEF Next, Kernel, PostRefused, PostSignal, SelectTask, ScheduleReturn, QueueDrained, TaskReturn,
           IsrEntry, IsrExit, MutexLock, MutexUnlock
  <1>5. QED BY <1>1, <1>2, <1>3, <1>4 DEF vars

(* The kernel implements bounded FIFO mailboxes served highest priority first: *)
(* no accepted event is lost, duplicated, reordered within its queue, or       *)
(* handed out while a higher-priority task has mail.                           *)
THEOREM ImplementsDelivery == Spec => Delivery!Init /\ [][Delivery!Next]_mail
  <1>1. Init => Delivery!Init
    BY MailInit
  <1>2. IInv /\ [Next]_vars => [Delivery!Next]_mail
    BY MailStep
  <1>3. QED
    BY <1>1, <1>2, KernelInvariant, PTL DEF Spec
=============================================================================
