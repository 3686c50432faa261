------------------------------- MODULE Equeue -------------------------------
(***************************************************************************)
(* The ring buffer behind every WSNOS task: osel_equeue_t of               *)
(* gznet/code/src/sys_arch/wsnos/wsnos_equeue.c.  A queue is a record;     *)
(* the operators below are its operations, each run by the code inside one *)
(* critical section.  n_min, a statistic nothing reads, is left out.       *)
(***************************************************************************)
EXTENDS Integers, Sequences

CONSTANT Event            \* the events (osel_event_t) a queue may hold

EqueueType(len) ==
    [ring : [0 .. len - 1 -> Event], end : {len},
     head : 0 .. len - 1, tail : 0 .. len - 1, n_free : 0 .. len]

\* osel_equeue_init: the storage keeps whatever bytes it had.
EqueueInit(len, store) ==
    [ring |-> store, end |-> len, head |-> 0, tail |-> 0, n_free |-> len]

\* Faulty: the index wraps one slot late.
AdvanceLate(i, end) == IF i = end THEN 0 ELSE i + 1

Advance(i, end) == IF i + 1 = end THEN 0 ELSE i + 1

HasRoom(q)  == q.n_free > 0
HasEvent(q) == q.n_free < q.end

\* Faulty: head moves before the event is stored.
EqueuePostAhead(q, e) ==
    [ring |-> [q.ring EXCEPT ![Advance(q.head, q.end)] = e], end |-> q.end,
     head |-> Advance(q.head, q.end), tail |-> q.tail, n_free |-> q.n_free - 1]

\* osel_equeue_post when there is room: the event goes in at head.
EqueuePost(q, e) ==
    [ring |-> [q.ring EXCEPT ![q.head] = e], end |-> q.end,
     head |-> Advance(q.head, q.end), tail |-> q.tail, n_free |-> q.n_free - 1]

\* osel_equeue_get: the oldest event, and the queue without it.
EqueueFront(q) == q.ring[q.tail]
EqueueGet(q) ==
    [ring |-> q.ring, end |-> q.end,
     head |-> q.head, tail |-> Advance(q.tail, q.end), n_free |-> q.n_free + 1]

-----------------------------------------------------------------------------
\* The ring slot of the i-th oldest event.
Slot(q, i) == IF q.tail + i - 1 < q.end THEN q.tail + i - 1
                                        ELSE q.tail + i - 1 - q.end

Used(q)     == q.end - q.n_free
Contents(q) == [i \in 1 .. Used(q) |-> q.ring[Slot(q, i)]]

\* The two indices and the free count agree: head is where the next event
\* after the Used(q) stored ones goes.
RingOK(q) == q.head = Slot(q, Used(q) + 1)
=============================================================================
