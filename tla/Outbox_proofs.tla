---------------------------- MODULE Outbox_proofs ----------------------------
(***************************************************************************)
(* The sending side of the application: box_send waits for nobody unless a  *)
(* result was lost, the list is a first-in first-out queue, and the         *)
(* bluetooth side, in full detail, does no more to it than Outbox allows.   *)
(*                                                                         *)
(* The frame a result removes is the head of the list because whatever is   *)
(* still to be reported, in the mailbox of the GPRS task, in the hand of    *)
(* box_send or in a result, has the number of the head or of no frame of    *)
(* the list (InFront). The numbers of the list are the last ones given out  *)
(* (Numbered), so this survives the serial number going round from 65535    *)
(* to 1, as long as it does not come to one still to be reported            *)
(* (FreshNumber).                                                           *)
(***************************************************************************)
EXTENDS BluOutbox, QueueLemmas

-----------------------------------------------------------------------------
(* The list of frames.                                                      *)

LEMMA FirstFound ==
    ASSUME NEW S, NEW l \in Seq(S), NEW I \in SUBSET (1..Len(l)),
           NEW k, k = IF I # {} THEN Min(I) ELSE 0
    PROVE  /\ k \in 0..Len(l)
           /\ k = 0 <=> I = {}
           /\ k # 0 => k \in I /\ \A i \in I : k <= i
<1>1. Len(l) \in Nat
  OBVIOUS
<1>2. CASE I # {}
  <2>1. Min(I) \in I /\ \A j \in I : Min(I) <= j
    BY <1>1, <1>2, LeastIndex
  <2>2. k = Min(I)
    BY <1>2
  <2>3. Min(I) \in 1..Len(l)
    BY <2>1
  <2>4. k \in 1..Len(l) /\ k # 0
    BY <2>2, <2>3
  <2> QED BY <1>1, <1>2, <2>1, <2>2, <2>4
<1>3. CASE I = {}
  BY <1>1, <1>3
<1> QED BY <1>2, <1>3

LEMMA FoundId ==
    ASSUME NEW S, NEW l \in Seq(S), NEW id
    PROVE  /\ FindId(l, id) \in 0..Len(l)
           /\ FindId(l, id) = 0 => \A i \in 1..Len(l) : l[i].id # id
           /\ FindId(l, id) # 0 => l[FindId(l, id)].id = id
<1> DEFINE I == {i \in 1..Len(l) : l[i].id = id}
<1>1. FindId(l, id) = IF I # {} THEN Min(I) ELSE 0
  BY DEF FindId, SelectInSeq
<1>2. I \in SUBSET (1..Len(l))
  OBVIOUS
<1>3. /\ FindId(l, id) \in 0..Len(l)
      /\ FindId(l, id) = 0 <=> I = {}
      /\ FindId(l, id) # 0 => FindId(l, id) \in I
  <2> HIDE DEF I
  <2> QED BY <1>1, <1>2, FirstFound
<1> QED BY <1>3

LEMMA FoundPriority ==
    ASSUME NEW S, NEW l \in Seq(S), NEW p
    PROVE  /\ FindPriority(l, p) \in 0..Len(l)
           /\ FindPriority(l, p) = 0 => \A i \in 1..Len(l) : l[i].priority # p
           /\ \A i \in 1..Len(l) : l[i].priority = p => FindPriority(l, p) \in 1..i
<1> DEFINE I == {i \in 1..Len(l) : l[i].priority = p}
<1>1. FindPriority(l, p) = IF I # {} THEN Min(I) ELSE 0
  BY DEF FindPriority, SelectInSeq
<1>2. I \in SUBSET (1..Len(l))
  OBVIOUS
<1>3. /\ FindPriority(l, p) \in 0..Len(l)
      /\ FindPriority(l, p) = 0 <=> I = {}
      /\ FindPriority(l, p) # 0 => FindPriority(l, p) \in I /\ \A i \in I : FindPriority(l, p) <= i
  <2> HIDE DEF I
  <2> QED BY <1>1, <1>2, FirstFound
<1> QED BY <1>3

\* Whatever the priorities, a list stays a list and grows by one entry at most.
LEMMA RemoveObjType ==
    ASSUME NEW S, NEW l \in Seq(S), NEW i \in 0..Len(l)
    PROVE  /\ RemoveObj(l, i) \in Seq(S)
           /\ Len(RemoveObj(l, i)) = IF i = 0 THEN Len(l) ELSE Len(l) - 1
<1>1. CASE i = 0
  BY <1>1 DEF RemoveObj
<1>2. CASE i # 0
  BY <1>2, Removed DEF RemoveObj
<1> QED BY <1>1, <1>2

LEMMA InsertedAt ==
    ASSUME NEW S, NEW l \in Seq(S), NEW k \in 1..Len(l), NEW obj \in S
    PROVE  InsertAt(l, k, obj) \in Seq(S) /\ Len(InsertAt(l, k, obj)) = Len(l) + 1
<1> DEFINE a == SubSeq(l, 1, k - 1)
           b == SubSeq(l, k, Len(l))
<1>1. a \in Seq(S) /\ Len(a) = k - 1
  <2>1. \A i \in 1..k - 1 : l[i] \in S
    OBVIOUS
  <2> QED BY <2>1, SubSeqProperties
<1>2. b \in Seq(S) /\ Len(b) = Len(l) - k + 1
  <2>1. \A i \in k..Len(l) : l[i] \in S
    OBVIOUS
  <2> QED BY <2>1, SubSeqProperties
<1>3. InsertAt(l, k, obj) = a \o <<obj>> \o b
  BY DEF InsertAt
<1> HIDE DEF a, b
<1>4. <<obj>> \in Seq(S) /\ Len(<<obj>>) = 1
  OBVIOUS
<1>5. a \o <<obj>> \in Seq(S) /\ Len(a \o <<obj>>) = k
  BY <1>1, <1>4, ConcatProperties
<1>6. a \o <<obj>> \o b \in Seq(S) /\ Len(a \o <<obj>> \o b) = Len(l) + 1
  <2>1. a \o <<obj>> \o b \in Seq(S) /\ Len(a \o <<obj>> \o b) = Len(a \o <<obj>>) + Len(b)
    BY <1>2, <1>5, ConcatProperties
  <2> QED BY <1>2, <1>5, <2>1
<1> QED BY <1>3, <1>6

LEMMA InsertType ==
    ASSUME NEW S, NEW l \in Seq(S), NEW obj \in S
    PROVE  Insert(l, obj) \in Seq(S) /\ Len(Insert(l, obj)) = Len(l) + 1
<1> DEFINE I == {i \in 1..Len(l) : obj.priority > l[i].priority}
           k == IF I # {} THEN Min(I) ELSE 0
<1>1. I \in SUBSET (1..Len(l))
  OBVIOUS
<1>2. k \in 0..Len(l)
  <2> HIDE DEF I
  <2> QED BY <1>1, FirstFound
<1>3. Insert(l, obj) = IF k = 0 THEN Append(l, obj) ELSE InsertAt(l, k, obj)
  BY DEF Insert, SelectInSeq
<1> HIDE DEF k
<1>4. CASE k = 0
  BY <1>3, <1>4
<1>5. CASE k # 0
  BY <1>2, <1>3, <1>5, InsertedAt
<1> QED BY <1>4, <1>5

LEMMA ListAddType ==
    ASSUME NEW S, NEW l \in Seq(S), NEW obj \in S
    PROVE  /\ ListAdd(l, obj) \in Seq(S)
           /\ Len(ListAdd(l, obj)) \in 1..Len(l) + 1
<1>1. MakeRoom(l) \in Seq(S) /\ Len(MakeRoom(l)) \in 0..Len(l)
  <2>1. CASE Len(l) # ListSize
    BY <2>1 DEF MakeRoom
  <2>2. CASE Len(l) = ListSize
    <3> DEFINE k == IF FindPriority(l, LOW) # 0 THEN FindPriority(l, LOW) ELSE FindPriority(l, HIGH)
    <3>1. k \in 0..Len(l)
      BY FoundPriority
    <3>2. MakeRoom(l) = RemoveObj(l, k)
      BY <2>2 DEF MakeRoom
    <3> HIDE DEF k
    <3>3. RemoveObj(l, k) \in Seq(S) /\ Len(RemoveObj(l, k)) = IF k = 0 THEN Len(l) ELSE Len(l) - 1
      BY <3>1, RemoveObjType
    <3> QED BY <3>1, <3>2, <3>3
  <2> QED BY <2>1, <2>2
<1>2. /\ Insert(MakeRoom(l), obj) \in Seq(S)
      /\ Len(Insert(MakeRoom(l), obj)) = Len(MakeRoom(l)) + 1
  BY <1>1, InsertType
<1>3. Len(l) \in Nat
  OBVIOUS
<1> QED BY <1>1, <1>2, <1>3 DEF ListAdd

LEMMA ListSentType ==
    ASSUME NEW S, NEW l \in Seq(S), NEW id, NEW ok \in BOOLEAN
    PROVE  ListSent(l, id, ok) \in Seq(S) /\ Len(ListSent(l, id, ok)) <= Len(l)
<1>1. FindId(l, id) \in 0..Len(l)
  BY FoundId
<1>2. CASE ok
  BY <1>1, <1>2, RemoveObjType DEF ListSent
<1>3. CASE ~ok
  BY <1>3 DEF ListSent
<1> QED BY <1>2, <1>3

-----------------------------------------------------------------------------
(* The list for GPRS has one priority only, and there it is a queue.        *)

Record == [id : Id, priority : {LOW, HIGH}]
AllHigh(l) == \A i \in 1..Len(l) : l[i].priority = HIGH
Room(l) == IF Len(l) = ListSize THEN Tail(l) ELSE l

LEMMA HeadRemoved ==
    ASSUME NEW S, NEW l \in Seq(S), l # <<>>
    PROVE  RemoveAt(l, 1) = Tail(l)
<1>1. SubSeq(l, 1, 0) = <<>>
  BY SubSeqEmpty
<1>2. SubSeq(l, 2, Len(l)) = Tail(l) /\ Tail(l) \in Seq(S)
  BY TailIsSubSeq, HeadTailProperties
<1>3. RemoveAt(l, 1) = <<>> \o Tail(l)
  BY <1>1, <1>2 DEF RemoveAt
<1> QED BY <1>2, <1>3, ConcatEmptySeq

LEMMA RoomType ==
    ASSUME NEW S, NEW l \in Seq(S), Len(l) <= ListSize
    PROVE  Room(l) \in Seq(S) /\ Len(Room(l)) < ListSize
<1>1. ListSize \in Nat \ {0}
  BY ListAssumption
<1>2. CASE Len(l) = ListSize
  <2>1. l # <<>> /\ Tail(l) \in Seq(S) /\ Len(Tail(l)) = Len(l) - 1
    BY <1>1, <1>2
  <2> QED BY <1>1, <1>2, <2>1 DEF Room
<1>3. CASE Len(l) # ListSize
  BY <1>1, <1>3 DEF Room
<1> QED BY <1>2, <1>3

LEMMA HighAdd ==
    ASSUME NEW l \in Seq(Record), AllHigh(l), NEW id \in Id, Len(l) <= ListSize
    PROVE  ListAdd(l, Entry(id, HIGH)) = Append(Room(l), Entry(id, HIGH))
<1>1. ListSize \in Nat \ {0} /\ LOW # HIGH
  BY ListAssumption DEF LOW, HIGH
<1>2. MakeRoom(l) = Room(l)
  <2>1. CASE Len(l) = ListSize
    <3>1. FindPriority(l, LOW) = 0
      <4>1. FindPriority(l, LOW) \in 0..Len(l)
        BY FoundPriority
      <4> DEFINE I == {i \in 1..Len(l) : l[i].priority = LOW}
      <4>2. I = {}
        BY <1>1 DEF AllHigh
      <4>3. FindPriority(l, LOW) = IF I # {} THEN Min(I) ELSE 0
        BY DEF FindPriority, SelectInSeq
      <4> QED BY <4>2, <4>3
    <3>2. FindPriority(l, HIGH) = 1
      <4>1. 1 \in 1..Len(l) /\ l[1].priority = HIGH
        BY <1>1, <2>1 DEF AllHigh
      <4>2. FindPriority(l, HIGH) \in 1..1
        BY <4>1, FoundPriority
      <4> QED BY <4>2
    <3>3. l # <<>>
      BY <1>1, <2>1
    <3>4. MakeRoom(l) = RemoveAt(l, 1)
      BY <2>1, <3>1, <3>2 DEF MakeRoom, RemoveObj
    <3> QED BY <2>1, <3>3, <3>4, HeadRemoved DEF Room
  <2>2. CASE Len(l) # ListSize
    BY <2>2 DEF MakeRoom, Room
  <2> QED BY <2>1, <2>2
<1>3. Room(l) \in Seq(Record) /\ AllHigh(Room(l))
  <2>1. CASE Len(l) = ListSize
    <3>1. l # <<>> /\ \A i \in 1..Len(Tail(l)) : Tail(l)[i] = l[i + 1] /\ i + 1 \in 1..Len(l)
      BY <1>1, <2>1
    <3> QED BY <2>1, <3>1, RoomType DEF Room, AllHigh
  <2>2. CASE Len(l) # ListSize
    BY <2>2 DEF Room
  <2> QED BY <2>1, <2>2
<1>4. Insert(Room(l), Entry(id, HIGH)) = Append(Room(l), Entry(id, HIGH))
  <2> DEFINE r == Room(l)
             I == {i \in 1..Len(r) : Entry(id, HIGH).priority > r[i].priority}
  <2>1. I = {}
    <3>1. \A i \in 1..Len(r) : r[i].priority = HIGH
      BY <1>3 DEF AllHigh
    <3>2. Entry(id, HIGH).priority = HIGH /\ ~(HIGH > HIGH)
      BY DEF Entry, HIGH
    <3> QED BY <3>1, <3>2
  <2>2. Insert(r, Entry(id, HIGH)) = IF (IF I # {} THEN Min(I) ELSE 0) = 0 THEN Append(r, Entry(id, HIGH))
                       ELSE InsertAt(r, IF I # {} THEN Min(I) ELSE 0, Entry(id, HIGH))
    BY DEF Insert, SelectInSeq
  <2> QED BY <2>1, <2>2
<1> QED BY <1>2, <1>4 DEF ListAdd

LEMMA HighAdded ==
    ASSUME NEW l \in Seq(Record), AllHigh(l), NEW id \in Id, Len(l) <= ListSize,
           NEW m, m = ListAdd(l, Entry(id, HIGH))
    PROVE  /\ m \in Seq(Record) /\ m # <<>> /\ Len(m) <= ListSize /\ AllHigh(m)
           /\ Len(m) = Len(Room(l)) + 1 /\ m[Len(m)].id = id
           /\ \A i \in 1..Len(m) - 1 : m[i] = Room(l)[i]
           /\ \A i \in 1..Len(Room(l)) : \E j \in 1..Len(l) :
                 Room(l)[i] = l[j] /\ j = i + (Len(l) - Len(Room(l)))
<1> DEFINE r == Room(l)  o == Entry(id, HIGH)
<1>1. m = Append(r, o) /\ o \in Record /\ o.id = id /\ o.priority = HIGH
  BY HighAdd DEF Entry, Record
<1>2. r \in Seq(Record) /\ Len(r) < ListSize /\ Len(r) \in Nat /\ ListSize \in Nat
  BY RoomType, ListAssumption
<1>3. \A i \in 1..Len(r) : \E j \in 1..Len(l) : r[i] = l[j] /\ j = i + (Len(l) - Len(r))
  <2>1. CASE Len(l) = ListSize
    <3>1. l # <<>>
      BY <2>1, ListAssumption
    <3>2. /\ Len(Tail(l)) = Len(l) - 1 /\ Len(l) \in Nat
          /\ \A i \in 1..Len(Tail(l)) : Tail(l)[i] = l[i + 1] /\ i + 1 \in 1..Len(l)
      BY <3>1
    <3>3. r = Tail(l)
      BY <2>1 DEF Room
    <3> HIDE DEF r
    <3> QED BY <3>2, <3>3
  <2>2. CASE Len(l) # ListSize
    BY <2>2 DEF Room
  <2> QED BY <2>1, <2>2
<1> HIDE DEF r, o
<1>4. /\ m \in Seq(Record) /\ Len(m) = Len(r) + 1 /\ m[Len(m)] = o
      /\ \A i \in 1..Len(r) : m[i] = r[i]
  BY <1>1, <1>2
<1>5. m # <<>>
  BY <1>2, <1>4
<1>6. AllHigh(m)
  <2>1. ASSUME NEW i \in 1..Len(m) PROVE m[i].priority = HIGH
    <3>1. i \in 1..Len(r) \/ i = Len(m)
      BY <1>2, <1>4
    <3> QED BY <1>1, <1>3, <1>4, <3>1 DEF AllHigh
  <2> QED BY <2>1 DEF AllHigh
<1> QED BY <1>1, <1>2, <1>3, <1>4, <1>5, <1>6 DEF r

LEMMA HighSent ==
    ASSUME NEW l \in Seq(Record), AllHigh(l), Len(l) <= ListSize, NEW id, NEW ok \in BOOLEAN
    PROVE  /\ ListSent(l, id, ok) \in Seq(Record) /\ Len(ListSent(l, id, ok)) <= ListSize
           /\ AllHigh(ListSent(l, id, ok))
<1> DEFINE k == FindId(l, id)
<1>1. k \in 0..Len(l) /\ ListSize \in Nat /\ Len(l) \in Nat
  BY FoundId, ListAssumption
<1> HIDE DEF k
<1>2. CASE ok /\ k # 0
  <2>1. /\ RemoveAt(l, k) \in Seq(Record) /\ Len(RemoveAt(l, k)) = Len(l) - 1
        /\ \A i \in 1..Len(l) - 1 : RemoveAt(l, k)[i] = IF i < k THEN l[i] ELSE l[i + 1]
    BY <1>1, <1>2, Removed
  <2>2. AllHigh(RemoveAt(l, k))
    <3>1. ASSUME NEW i \in 1..Len(l) - 1 PROVE RemoveAt(l, k)[i].priority = HIGH
      <4>1. i \in 1..Len(l) /\ i + 1 \in 1..Len(l)
        BY <1>1
      <4> QED BY <2>1, <4>1 DEF AllHigh
    <3> QED BY <2>1, <3>1 DEF AllHigh
  <2>3. ListSent(l, id, ok) = RemoveAt(l, k)
    BY <1>2 DEF ListSent, RemoveObj, k
  <2> QED BY <1>1, <2>1, <2>2, <2>3
<1>3. CASE ~(ok /\ k # 0)
  BY <1>3 DEF ListSent, RemoveObj, k
<1> QED BY <1>2, <1>3

-----------------------------------------------------------------------------
(* The invariant.                                                           *)

Event == [ev : {"SENT"}, sn : Id, ok : BOOLEAN] \cup [ev : {"MAKE"}, kind : Kinds]
ResultQueued == \E e \in ToSet(appq) : e.ev = "SENT"

\* From the moment the frame is handed over a result is to come, is queued or
\* was lost, whether is_sending is set already or not.
Served == is_sending \/ Doing("mark") => busy \/ lost \/ ResultQueued

\* A frame that has been fetched is handed over at once, and is_sending is set
\* right after that.
CallsInOrder == \A i \in 1..Len(work) : /\ work[i] = "put" => i = 1
                                        /\ work[i] = "mark" => i = 1 \/ (i = 2 /\ work[1] = "put")

OInv == TypeOK /\ AllHigh(list) /\ Served /\ CallsInOrder

AppTyped == appq \in Seq(Event) /\ Len(appq) <= APP_EVENT_MAX
ListTyped == list \in Seq(Record) /\ Len(list) <= ListSize /\ AllHigh(list)

RestTyped == /\ sn \in Id /\ held \in Id /\ mailbox \in Id
             /\ is_sending \in BOOLEAN /\ blu_is_sending \in BOOLEAN
             /\ busy \in BOOLEAN /\ lost \in BOOLEAN
WorkTyped == work \in Seq(Calls) /\ CallsInOrder

LEMMA Parts == OInv <=> AppTyped /\ ListTyped /\ RestTyped /\ WorkTyped /\ Served
  BY DEF OInv, TypeOK, AppTyped, ListTyped, RestTyped, WorkTyped, Event, Record

LEMMA Kept ==
    ASSUME AppTyped', ListTyped', RestTyped', WorkTyped', Served'
    PROVE  OInv'
  BY DEF OInv, TypeOK, AppTyped, ListTyped, RestTyped, WorkTyped, Event, Record

LEMMA SendPosted ==
    ASSUME NEW q \in Seq(Event), Len(q) <= APP_EVENT_MAX, NEW e \in Event
    PROVE  /\ Post(q, e) \in Seq(Event) /\ Len(Post(q, e)) <= APP_EVENT_MAX
           /\ ToSet(q) \subseteq ToSet(Post(q, e))
           /\ ToSet(Post(q, e)) \subseteq ToSet(q) \cup {e}
           /\ Len(q) < APP_EVENT_MAX => e \in ToSet(Post(q, e))
<1>1. APP_EVENT_MAX \in Nat \ {0}
  BY OutboxAssumption
<1>2. CASE Len(q) < APP_EVENT_MAX
  <2>1. Post(q, e) = Append(q, e)
    BY <1>2 DEF Post
  <2>2. Append(q, e) \in Seq(Event) /\ Len(Append(q, e)) = Len(q) + 1
    OBVIOUS
  <2>3. ToSet(Append(q, e)) = ToSet(q) \cup {e}
    BY AppendSet
  <2> QED BY <1>1, <1>2, <2>1, <2>2, <2>3
<1>3. CASE ~(Len(q) < APP_EVENT_MAX)
  BY <1>1, <1>3 DEF Post
<1> QED BY <1>2, <1>3

LEMMA NextSnType == \A n \in Id : NextSn(n) \in Id /\ NextSn(n) # 0
  BY ListAssumption DEF Id, NextSn

LEMMA FrameAdded ==
    ASSUME ListTyped, sn \in Id, AddFrame
    PROVE  ListTyped' /\ sn' \in Id /\ (list # <<>> => list' # <<>>)
<1>1. CASE sn < MaxSn
  <2>1. NextSn(sn) \in Id /\ sn' = NextSn(sn) /\ list' = ListAdd(list, Entry(NextSn(sn), HIGH))
    BY <1>1, NextSnType DEF AddFrame
  <2> QED BY <2>1, HighAdded DEF ListTyped
<1>2. CASE ~(sn < MaxSn)
  BY <1>2 DEF AddFrame, ListTyped
<1> QED BY <1>1, <1>2

LEMMA HeadId == ASSUME NEW l \in Seq(Record), l # <<>> PROVE Head(l).id \in Id /\ Head(l) = l[1]
<1>1. Head(l) \in Record /\ Head(l) = l[1]
  BY HeadTailProperties
<1> QED BY <1>1 DEF Record

\* What a complaint of box_send adds is no success.
LEMMA Complained ==
    ASSUME AppTyped, NEW l \in Seq(Record), NEW b \in BOOLEAN, appq' = Complaint(appq, l, b)
    PROVE  /\ AppTyped' /\ ToSet(appq) \subseteq ToSet(appq')
           /\ \A e \in ToSet(appq') : e \in ToSet(appq) \/ (e.ev = "SENT" /\ ~e.ok)
<1> DEFINE e == Sent(Fetched(l), FALSE)
<1>1. e \in Event /\ e.ev = "SENT" /\ ~e.ok
  <2>1. Fetched(l) \in Id
    <3>1. SN_MAX \in Id
      BY ListAssumption DEF Id
    <3>2. l # <<>> => Head(l).id \in Id
      BY HeadId
    <3> QED BY <3>1, <3>2 DEF Fetched
  <2> QED BY <2>1 DEF Sent, Event
<1>2. appq' = IF b THEN Post(appq, e) ELSE appq
  BY DEF Complaint
<1> HIDE DEF e
<1> QED BY <1>1, <1>2, SendPosted DEF AppTyped

\* box_send as another task runs it hands over the head of the list, if anything.
LEMMA Sends ==
    ASSUME AppTyped, NEW l \in Seq(Record), NEW s \in BOOLEAN, NEW b \in BOOLEAN,
           mailbox \in Id, busy \in BOOLEAN, BoxSend(l, s, b)
    PROVE  /\ AppTyped' /\ ToSet(appq) \subseteq ToSet(appq')
           /\ \A e \in ToSet(appq') : e \in ToSet(appq) \/ (e.ev = "SENT" /\ ~e.ok)
           /\ is_sending' \in BOOLEAN /\ busy' \in BOOLEAN /\ mailbox' \in Id
           /\ UNCHANGED <<mailbox, busy>> \/ (l # <<>> /\ mailbox' = Head(l).id)
           /\ busy => busy'
           /\ is_sending' => s \/ busy'
<1>1. CASE s
  BY <1>1 DEF BoxSend, AppTyped
<1>2. CASE ~s
  <2>1. appq' = Complaint(appq, l, b) /\ is_sending' = (l # <<>>)
    BY <1>2 DEF BoxSend
  <2>2. CASE l = <<>>
    <3>1. UNCHANGED <<mailbox, busy>> /\ is_sending' = FALSE
      BY <1>2, <2>1, <2>2 DEF BoxSend
    <3> QED BY <2>1, <2>2, <3>1, Complained
  <2>3. CASE l # <<>>
    <3>1. Head(l).id \in Id /\ mailbox' = Head(l).id /\ busy' = TRUE
      BY <1>2, <2>3, HeadId DEF BoxSend, TranSend
    <3> QED BY <2>1, <2>3, <3>1, Complained
  <2> QED BY <2>2, <2>3
<1> QED BY <1>1, <1>2

-----------------------------------------------------------------------------
(* The calls still to make.                                                 *)

LEMMA Popped ==
    ASSUME WorkTyped, NEW c, Doing(c)
    PROVE  /\ Tail(work) \in Seq(Calls)
           /\ \A i \in 1..Len(Tail(work)) : /\ Tail(work)[i] # "put"
                                            /\ Tail(work)[i] = "mark" => i = 1 /\ c = "put"
<1> USE DEF WorkTyped
<1>1. work # <<>> /\ work[1] = c
  BY DEF Doing, Idle
<1>2. /\ Tail(work) \in Seq(Calls)
      /\ \A i \in 1..Len(Tail(work)) : Tail(work)[i] = work[i + 1] /\ i + 1 \in 1..Len(work)
  BY <1>1
<1> QED BY <1>1, <1>2 DEF CallsInOrder

LEMMA DoneWork ==
    ASSUME WorkTyped, NEW c, Doing(c), Done
    PROVE  WorkTyped' /\ (Doing("mark")' => c = "put") /\ ~Doing("put")'
<1> USE DEF WorkTyped
<1>1. work' = Tail(work)
  BY DEF Done
<1>2. \A d \in Calls : Doing(d)' => 1 \in 1..Len(work') /\ work'[1] = d
  BY <1>1, Popped DEF Doing, Idle
<1>3. {"put", "mark"} \subseteq Calls
  BY DEF Calls
<1> QED BY <1>1, <1>2, <1>3, Popped DEF CallsInOrder

LEMMA PutWork ==
    ASSUME WorkTyped, Doing("send"), work' = <<"put", "mark">> \o Tail(work)
    PROVE  WorkTyped' /\ ~Doing("mark")'
<1> USE DEF WorkTyped
<1> DEFINE t == Tail(work)  a == <<"put", "mark">>  w == a \o t
<1>1. t \in Seq(Calls) /\ Len(t) \in Nat /\ \A i \in 1..Len(t) : t[i] # "mark" /\ t[i] # "put"
  BY Popped
<1>2. a \in Seq(Calls) /\ Len(a) = 2 /\ a[1] = "put" /\ a[2] = "mark"
  BY DEF Calls
<1>3. work' = w
  OBVIOUS
<1> HIDE DEF t, a
<1>4. /\ w \in Seq(Calls) /\ Len(w) = Len(t) + 2
      /\ \A i \in 1..Len(t) + 2 : w[i] = IF i <= 2 THEN a[i] ELSE t[i - 2]
  <2>1. /\ w \in Seq(Calls) /\ Len(w) = Len(a) + Len(t)
        /\ \A i \in 1..Len(a) + Len(t) : w[i] = IF i <= Len(a) THEN a[i] ELSE t[i - Len(a)]
    BY <1>1, <1>2, ConcatProperties
  <2> QED BY <1>1, <1>2, <2>1
<1> HIDE DEF w
<1>5. w # <<>> /\ w[1] = "put" /\ Head(w) = "put"
  <2>1. Len(w) # 0 /\ 1 \in 1..Len(t) + 2
    BY <1>1, <1>4
  <2> QED BY <1>2, <1>4, <2>1
<1>6. ASSUME NEW i \in 1..Len(w) PROVE (w[i] = "put" => i = 1) /\ (w[i] = "mark" => i = 2)
  <2>1. CASE i > 2
    <3>1. i - 2 \in 1..Len(t) /\ w[i] = t[i - 2]
      BY <1>1, <1>4, <2>1
    <3> QED BY <1>1, <3>1
  <2>2. CASE i = 1
    BY <1>5, <2>2
  <2>3. CASE i = 2
    <3>1. w[i] = a[2]
      BY <1>1, <1>4, <2>3
    <3> QED BY <1>2, <2>3, <3>1
  <2> QED BY <1>1, <1>4, <2>1, <2>2, <2>3
<1>7. CallsInOrder'
  BY <1>3, <1>5, <1>6 DEF CallsInOrder
<1>8. ~Doing("mark")'
  BY <1>3, <1>5 DEF Doing, Idle
<1> QED BY <1>3, <1>4, <1>7, <1>8

LEMMA BluPutWork ==
    ASSUME WorkTyped, Doing("blu"), work' = <<"blu_put">> \o Tail(work)
    PROVE  WorkTyped' /\ ~Doing("mark")' /\ ~Doing("put")'
<1> USE DEF WorkTyped
<1> DEFINE t == Tail(work)  a == <<"blu_put">>
<1>1. t \in Seq(Calls) /\ \A i \in 1..Len(t) : t[i] # "mark" /\ t[i] # "put"
  BY Popped
<1>2. a \in Seq(Calls) /\ Len(a) = 1 /\ a[1] = "blu_put"
  BY DEF Calls
<1> HIDE DEF t, a
<1>3. /\ a \o t \in Seq(Calls) /\ Len(a \o t) = Len(t) + 1
      /\ \A i \in 1..Len(t) + 1 : (a \o t)[i] = IF i <= 1 THEN a[i] ELSE t[i - 1]
  <2>1. /\ a \o t \in Seq(Calls) /\ Len(a \o t) = Len(a) + Len(t)
        /\ \A i \in 1..Len(a) + Len(t) : (a \o t)[i] = IF i <= Len(a) THEN a[i] ELSE t[i - Len(a)]
    BY <1>1, <1>2, ConcatProperties
  <2> QED BY <1>1, <1>2, <2>1
<1>4. work' = a \o t
  BY DEF a, t
<1>5. work' # <<>> /\ work'[1] = "blu_put"
  BY <1>1, <1>2, <1>3, <1>4
<1>6. ASSUME NEW i \in 1..Len(work') PROVE work'[i] # "mark" /\ work'[i] # "put"
  <2>1. CASE i = 1
    BY <1>5, <2>1
  <2>2. CASE i # 1
    <3>1. i \in 1..Len(t) + 1 /\ Len(t) \in Nat /\ work'[i] = (a \o t)[i]
      BY <1>1, <1>3, <1>4
    <3>2. i - 1 \in 1..Len(t) /\ ~(i <= 1)
      BY <2>2, <3>1
    <3> QED BY <1>1, <1>3, <3>1, <3>2
  <2> QED BY <2>1, <2>2
<1>7. WorkTyped'
  BY <1>3, <1>4, <1>6 DEF CallsInOrder
<1>8. Head(work') = "blu_put"
  BY <1>3, <1>4, <1>5
<1> QED BY <1>7, <1>8 DEF Doing, Idle

-----------------------------------------------------------------------------
(* Every step keeps the invariant.                                          *)

LEMMA OutboxInit == Init => OInv
<1> SUFFICES ASSUME Init PROVE OInv
  OBVIOUS
<1>1. ListTyped /\ AppTyped
  <2>1. <<>> \in Seq(Record) /\ <<>> \in Seq(Event) /\ Len(<<>>) = 0
    OBVIOUS
  <2> QED BY <2>1, ListAssumption, OutboxAssumption DEF Init, ListTyped, AppTyped, AllHigh
<1>2. WorkTyped /\ ~Doing("mark")
  <2>1. work = <<"add", "add", "send">>
    BY DEF Init
  <2> QED BY <2>1 DEF Calls, WorkTyped, CallsInOrder, Doing, Idle
<1>3. sn \in Id /\ held \in Id /\ mailbox \in Id
  BY ListAssumption DEF Init, Id
<1>4. is_sending = FALSE /\ blu_is_sending = FALSE /\ busy = FALSE /\ lost = FALSE
  BY DEF Init
<1> QED BY <1>1, <1>2, <1>3, <1>4, Parts DEF RestTyped, WorkTyped, Served

LEMMA RequestStep == ASSUME OInv, NEW kind \in Kinds, Request(kind) PROVE OInv'
<1>1. AppTyped' /\ ToSet(appq) \subseteq ToSet(appq')
  <2>1. Make(kind) \in Event /\ appq \in Seq(Event) /\ APP_EVENT_MAX \in Nat
    BY OutboxAssumption, Parts DEF Make, Event, AppTyped
  <2>2. appq' = Append(appq, Make(kind)) /\ Len(appq) < APP_EVENT_MAX
    BY DEF Request
  <2>3. appq' \in Seq(Event) /\ Len(appq') <= APP_EVENT_MAX
    BY <2>1, <2>2
  <2>4. ToSet(appq') = ToSet(appq) \cup {Make(kind)}
    BY <2>1, <2>2, AppendSet
  <2> QED BY <2>3, <2>4 DEF AppTyped
<1>2. UNCHANGED <<list, sn, is_sending, blu_is_sending, work, held, mailbox, busy, lost>>
  BY DEF Request, gprs
<1> QED BY <1>1, <1>2, Parts, Kept DEF RestTyped, Served, WorkTyped, CallsInOrder, Doing, Idle, ResultQueued, ListTyped

\* The application takes an event: it leaves the others, and its result if it
\* is no result itself.
LEMMA EventTaken ==
    ASSUME AppTyped, appq # <<>>, appq' = Tail(appq)
    PROVE  /\ AppTyped' /\ Head(appq) \in Event
           /\ ToSet(appq) = ToSet(appq') \cup {Head(appq)}
           /\ Head(appq).ev # "SENT" => (ResultQueued => ResultQueued')
<1>1. APP_EVENT_MAX \in Nat /\ appq \in Seq(Event) /\ Len(appq) <= APP_EVENT_MAX
  BY OutboxAssumption DEF AppTyped
<1>2. /\ Tail(appq) \in Seq(Event) /\ Len(Tail(appq)) = Len(appq) - 1 /\ Head(appq) \in Event
      /\ ToSet(appq) = ToSet(Tail(appq)) \cup {Head(appq)}
  BY <1>1, TailSet
<1> QED BY <1>1, <1>2 DEF AppTyped, ResultQueued

LEMMA HandleRequestStep == OInv /\ HandleRequest => OInv'
<1> SUFFICES ASSUME OInv, HandleRequest PROVE OInv'
  OBVIOUS
<1>1. /\ appq # <<>> /\ Head(appq).ev = "MAKE" /\ appq' = Tail(appq)
      /\ work' = Steps(Head(appq).kind) /\ (is_sending' => is_sending) /\ is_sending' \in BOOLEAN
      /\ UNCHANGED <<list, sn, blu_is_sending, held, mailbox, busy, lost>>
  BY DEF HandleRequest, gprs
<1>2. AppTyped' /\ Head(appq) \in Event /\ (ResultQueued => ResultQueued')
  BY <1>1, EventTaken, Parts
<1>3. Head(appq).kind \in {"report", "alarm", "unlock"}
  BY <1>1, <1>2, OutboxAssumption DEF Event
<1>4. work' \in {<<"add", "send">>, <<"blu", "add", "send">>, <<"blu", "add", "send", "add", "send">>}
  BY <1>1, <1>3 DEF Steps
<1>5. WorkTyped' /\ ~Doing("mark")'
  <2>1. /\ work' \in Seq(Calls) /\ work' # <<>> /\ Head(work') # "mark"
        /\ \A i \in 1..Len(work') : work'[i] # "mark" /\ work'[i] # "put"
    <3>1. CASE work' = <<"add", "send">>
      BY <3>1 DEF Calls
    <3>2. CASE work' = <<"blu", "add", "send">>
      BY <3>2 DEF Calls
    <3>3. CASE work' = <<"blu", "add", "send", "add", "send">>
      BY <3>3 DEF Calls
    <3> QED BY <1>4, <3>1, <3>2, <3>3
  <2> QED BY <2>1 DEF WorkTyped, CallsInOrder, Doing, Idle
<1> QED BY <1>1, <1>2, <1>5, Parts, Kept DEF RestTyped, Served, ListTyped

LEMMA HandleResultStep == OInv /\ HandleResult => OInv'
<1> SUFFICES ASSUME OInv, HandleResult PROVE OInv'
  OBVIOUS
<1>1. /\ appq # <<>> /\ Head(appq).ev = "SENT" /\ appq' = Tail(appq)
      /\ list' = ListSent(list, Head(appq).sn, Head(appq).ok)
      /\ work' = <<"send">> /\ is_sending' = FALSE
      /\ UNCHANGED <<sn, blu_is_sending, held, mailbox, busy, lost>>
  BY DEF HandleResult, gprs
<1>2. AppTyped' /\ Head(appq) \in Event
  BY <1>1, EventTaken, Parts
<1>3. Head(appq).ok \in BOOLEAN
  BY <1>1, <1>2 DEF Event
<1>4. ListTyped'
  BY <1>1, <1>3, HighSent, Parts DEF ListTyped
<1>5. WorkTyped' /\ ~Doing("mark")'
  BY <1>1 DEF Calls, WorkTyped, CallsInOrder, Doing, Idle
<1> QED BY <1>1, <1>2, <1>4, <1>5, Parts, Kept DEF RestTyped, Served

LEMMA AppSendStep == OInv /\ AppSend => OInv'
<1> SUFFICES ASSUME OInv, AppSend PROVE OInv'
  OBVIOUS
<1>1. /\ Doing("send") /\ UNCHANGED <<list, sn, blu_is_sending, mailbox, busy, lost>>
      /\ WorkTyped /\ list \in Seq(Record)
  BY Parts DEF AppSend, gprs, OInv, ListTyped
<1>2. CASE is_sending
  <2>1. Done /\ UNCHANGED <<is_sending, held, appq>>
    BY <1>2 DEF AppSend
  <2>2. WorkTyped' /\ ~Doing("mark")'
    BY <1>1, <2>1, DoneWork
  <2> QED BY <1>1, <2>1, <2>2, Parts, Kept DEF RestTyped, Served, ResultQueued, ListTyped, AppTyped
<1>3. CASE ~is_sending
  <2>1. AppTyped'
    BY <1>1, <1>3, Complained, Parts DEF AppSend, RestTyped
  <2>2. is_sending' = FALSE
    BY <1>3, Parts DEF AppSend
  <2>3. /\ held' \in Id /\ WorkTyped' /\ ~Doing("mark")'
    <3>1. CASE list = <<>>
      BY <1>1, <1>3, <3>1, DoneWork, Parts DEF AppSend, RestTyped
    <3>2. CASE list # <<>>
      BY <1>1, <1>3, <3>2, PutWork, HeadId DEF AppSend
    <3> QED BY <3>1, <3>2
  <2> QED BY <1>1, <2>1, <2>2, <2>3, Parts, Kept DEF RestTyped, Served, ListTyped
<1> QED BY <1>2, <1>3

\* The other calls of the application.
LEMMA AppCallStep == OInv /\ (AppAdd \/ AppPut \/ AppMark \/ AppBlu \/ AppBluPut) => OInv'
<1> SUFFICES ASSUME OInv, AppAdd \/ AppPut \/ AppMark \/ AppBlu \/ AppBluPut PROVE OInv'
  OBVIOUS
<1>0. WorkTyped /\ UNCHANGED <<appq, lost>>
  BY Parts DEF OInv, AppAdd, AppPut, AppMark, AppBlu, AppBluPut, gprs
<1>1. CASE AppAdd
  <2>1. WorkTyped' /\ ~Doing("mark")'
    BY <1>0, <1>1, DoneWork DEF AppAdd
  <2>2. ListTyped' /\ sn' \in Id
    BY <1>1, FrameAdded, Parts DEF AppAdd, RestTyped
  <2>3. UNCHANGED <<is_sending, blu_is_sending, held, mailbox, busy>>
    BY <1>1 DEF AppAdd, gprs
  <2> QED BY <1>0, <2>1, <2>2, <2>3, Parts, Kept DEF RestTyped, Served, ResultQueued, AppTyped
<1>2. CASE AppPut
  <2>1. WorkTyped'
    BY <1>0, <1>2, DoneWork DEF AppPut
  <2>2. mailbox' = held /\ busy' = TRUE /\ UNCHANGED <<list, sn, is_sending, blu_is_sending, held>>
    BY <1>2 DEF AppPut, TranSend
  <2> QED BY <1>0, <2>1, <2>2, Parts, Kept DEF RestTyped, Served, AppTyped, ListTyped
<1>3. CASE AppMark
  <2>1. WorkTyped' /\ Doing("mark")
    BY <1>0, <1>3, DoneWork DEF AppMark
  <2>2. is_sending' = TRUE /\ UNCHANGED <<list, sn, blu_is_sending, held, mailbox, busy>>
    BY <1>3 DEF AppMark, gprs
  <2> QED BY <1>0, <2>1, <2>2, Parts, Kept DEF RestTyped, Served, ResultQueued, AppTyped, ListTyped
<1>4. CASE AppBlu
  <2>1. WorkTyped' /\ ~Doing("mark")'
    BY <1>0, <1>4, DoneWork, BluPutWork DEF AppBlu
  <2>2. UNCHANGED <<list, sn, is_sending, blu_is_sending, held, mailbox, busy>>
    BY <1>4 DEF AppBlu, gprs
  <2> QED BY <1>0, <2>1, <2>2, Parts, Kept DEF RestTyped, Served, ResultQueued, AppTyped, ListTyped
<1>5. CASE AppBluPut
  <2>1. WorkTyped' /\ ~Doing("mark")'
    BY <1>0, <1>5, DoneWork DEF AppBluPut
  <2>2. blu_is_sending' = TRUE /\ UNCHANGED <<list, sn, is_sending, held, mailbox, busy>>
    BY <1>5 DEF AppBluPut, gprs
  <2> QED BY <1>0, <2>1, <2>2, Parts, Kept DEF RestTyped, Served, ResultQueued, AppTyped, ListTyped
<1> QED BY <1>1, <1>2, <1>3, <1>4, <1>5

LEMMA CompleteStep == ASSUME OInv, NEW ok \in BOOLEAN, Complete(ok) PROVE OInv'
<1> DEFINE e == Sent(mailbox, ok)
<1>1. e \in Event /\ e.ev = "SENT"
  BY Parts DEF Sent, Event, RestTyped
<1>2. /\ appq' = Post(appq, e) /\ lost' = (lost \/ Len(appq) >= APP_EVENT_MAX) /\ busy' \in BOOLEAN
      /\ UNCHANGED <<list, sn, is_sending, blu_is_sending, work, held, mailbox>>
  BY DEF Complete
<1> HIDE DEF e
<1>3. AppTyped' /\ (Len(appq) < APP_EVENT_MAX => e \in ToSet(appq'))
  BY <1>1, <1>2, SendPosted, Parts DEF AppTyped
<1>4. Len(appq) < APP_EVENT_MAX \/ Len(appq) >= APP_EVENT_MAX
  BY OutboxAssumption, Parts DEF AppTyped
<1>5. lost' \/ ResultQueued'
  BY <1>1, <1>2, <1>3, <1>4 DEF ResultQueued
<1> QED BY <1>2, <1>3, <1>5, Parts, Kept DEF RestTyped, Served, WorkTyped, CallsInOrder, Doing, Idle, ListTyped

LEMMA BluStep == OInv /\ BluTask => OInv'
<1> SUFFICES ASSUME OInv, BluTask PROVE OInv'
  OBVIOUS
<1>1. blu_is_sending' \in BOOLEAN /\ UNCHANGED <<work, held, lost>>
  BY DEF BluTask
<1>2. CASE UNCHANGED <<list, sn, is_sending, appq, mailbox, busy>>
  BY <1>1, <1>2, Parts, Kept
     DEF RestTyped, Served, WorkTyped, CallsInOrder, Doing, Idle, ResultQueued, ListTyped, AppTyped
<1>3. ASSUME ListTyped', sn' \in Id, AppTyped', ToSet(appq) \subseteq ToSet(appq'), mailbox' \in Id,
             is_sending' \in BOOLEAN, busy' \in BOOLEAN, busy => busy', is_sending' => is_sending \/ busy'
      PROVE  OInv'
  BY <1>1, <1>3, Parts, Kept DEF RestTyped, Served, WorkTyped, CallsInOrder, Doing, Idle, ResultQueued
<1>4. CASE BluRestart
  <2>1. list \in Seq(Record) /\ BoxSend(list, FALSE, blu_is_sending') /\ UNCHANGED <<list, sn>>
    BY <1>4, Parts DEF BluRestart, ListTyped
  <2> QED BY <1>1, <1>3, <2>1, Sends, Parts DEF ListTyped, RestTyped
<1>5. CASE BluRequest
  <2>1. ListTyped' /\ sn' \in Id
    BY <1>5, FrameAdded, Parts DEF BluRequest, RestTyped
  <2>2. list' \in Seq(Record) /\ BoxSend(list', is_sending, blu_is_sending')
    BY <1>5, <2>1 DEF BluRequest, ListTyped
  <2> QED BY <1>1, <1>3, <2>1, <2>2, Sends, Parts DEF RestTyped
<1> QED BY <1>2, <1>4, <1>5 DEF BluTask

LEMMA OutboxStep == OInv /\ [Next]_vars => OInv'
<1>1. OInv /\ UNCHANGED vars => OInv'
  BY Parts, Kept DEF RestTyped, Served, WorkTyped, CallsInOrder, Doing, Idle, ResultQueued, ListTyped, AppTyped, vars
<1> QED BY <1>1, RequestStep, HandleRequestStep, HandleResultStep, AppSendStep, AppCallStep, CompleteStep,
           BluStep DEF Next, App

\* The lists, the mailbox and the calls still to be made agree after every step of
\* the three tasks (app_send.c, app_task.c); the properties follow from that.
THEOREM OutboxInvariant == Spec => []OInv
<1> QED BY OutboxInit, OutboxStep, PTL DEF Spec

\* The sending side waits for nobody only if a result of the GPRS task found the
\* queue of the application full: is_sending is set after the frame is handed
\* over and cleared by two other tasks (app_send.c, app_task.c).
THEOREM OutboxNeverStalls == Spec => []NoStall
<1>1. OInv => NoStall
  <2> SUFFICES ASSUME OInv, is_sending, ~busy, \A i \in 1..Len(appq) : appq[i].ev # "SENT" PROVE lost
    BY DEF NoStall, Stuck
  <2>1. appq \in Seq(Event) /\ DOMAIN appq = 1..Len(appq)
    BY Parts DEF AppTyped
  <2>2. ~ResultQueued
    BY <2>1 DEF ResultQueued, ToSet
  <2> QED BY <2>2 DEF OInv, Served
<1> QED BY <1>1, OutboxInvariant, PTL

-----------------------------------------------------------------------------
(* The list holds the last numbers given out, and a frame that is reported and *)
(* still in it is its head.                                                  *)

\* The number given out k numbers before n; they go round from SN_MAX to 1.
Back(n, k) == IF k < n THEN n - k ELSE n + SN_MAX - k
Numbered(l, n) == /\ n = 0 => l = <<>>
                  /\ \A i \in 1..Len(l) : l[i].id = Back(n, Len(l) - i)
AtFront(x, l) == \A i \in 1..Len(l) : l[i].id = x => i = 1

LEMMA BackFacts ==
    ASSUME NEW n \in 1..SN_MAX, NEW k \in 0..SN_MAX - 1
    PROVE  /\ Back(n, k) \in 1..SN_MAX /\ Back(n, 0) = n
           /\ \A j \in 0..SN_MAX - 1 : Back(n, j) = Back(n, k) => j = k
           /\ k + 1 < SN_MAX => Back(NextSn(n), k + 1) = Back(n, k)
<1>1. SN_MAX \in Nat \ {0}
  BY ListAssumption
<1>2. Back(n, k) \in 1..SN_MAX /\ Back(n, 0) = n
  BY <1>1 DEF Back
<1>3. ASSUME NEW j \in 0..SN_MAX - 1, Back(n, j) = Back(n, k) PROVE j = k
  BY <1>1, <1>3 DEF Back
<1>4. ASSUME k + 1 < SN_MAX PROVE Back(NextSn(n), k + 1) = Back(n, k)
  BY <1>1, <1>4 DEF Back, NextSn
<1> QED BY <1>2, <1>3, <1>4

LEMMA NumbersApart ==
    ASSUME NEW l \in Seq(Record), NEW n \in Id, Numbered(l, n), Len(l) <= SN_MAX
    PROVE  \A i, j \in 1..Len(l) : l[i].id = l[j].id => i = j
<1>1. ASSUME NEW i \in 1..Len(l), NEW j \in 1..Len(l), l[i].id = l[j].id PROVE i = j
  <2>1. Len(l) \in Nat /\ SN_MAX \in Nat /\ n \in 1..SN_MAX
    BY ListAssumption DEF Numbered, Id
  <2>2. Len(l) - i \in 0..SN_MAX - 1 /\ Len(l) - j \in 0..SN_MAX - 1
    BY <2>1
  <2>3. Back(n, Len(l) - i) = Back(n, Len(l) - j)
    BY <1>1 DEF Numbered
  <2>4. Len(l) - i = Len(l) - j
    BY <2>1, <2>2, <2>3, BackFacts
  <2> QED BY <2>1, <2>4
<1> QED BY <1>1

LEMMA HeadAtFront ==
    ASSUME NEW l \in Seq(Record), NEW n \in Id, Numbered(l, n), Len(l) <= SN_MAX, l # <<>>
    PROVE  Head(l).id \in Id /\ AtFront(Head(l).id, l)
<1>1. Head(l).id \in Id /\ Head(l) = l[1] /\ 1 \in 1..Len(l)
  BY HeadId
<1> QED BY <1>1, NumbersApart DEF AtFront

LEMMA NumberedTail ==
    ASSUME NEW l \in Seq(Record), NEW n \in Id, Numbered(l, n), l # <<>>
    PROVE  Numbered(Tail(l), n) /\ \A x \in Id : AtFront(x, l) => AtFront(x, Tail(l))
<1>1. /\ Len(Tail(l)) = Len(l) - 1 /\ Len(l) \in Nat
      /\ \A i \in 1..Len(l) - 1 : Tail(l)[i] = l[i + 1] /\ i + 1 \in 1..Len(l)
  OBVIOUS
<1>2. n # 0
  BY DEF Numbered
<1>3. ASSUME NEW i \in 1..Len(Tail(l)) PROVE Tail(l)[i].id = Back(n, Len(Tail(l)) - i)
  <2>1. Tail(l)[i].id = Back(n, Len(l) - (i + 1)) /\ Len(l) - (i + 1) = Len(Tail(l)) - i
    BY <1>1 DEF Numbered
  <2> QED BY <2>1
<1>4. ASSUME NEW x \in Id, AtFront(x, l), NEW i \in 1..Len(Tail(l)) PROVE Tail(l)[i].id # x
  <2>1. Tail(l)[i] = l[i + 1] /\ i + 1 \in 1..Len(l) /\ i + 1 # 1
    BY <1>1
  <2> QED BY <1>4, <2>1 DEF AtFront
<1> QED BY <1>2, <1>3, <1>4 DEF Numbered, AtFront

LEMMA NumberedAdd ==
    ASSUME NEW l \in Seq(Record), AllHigh(l), Len(l) <= ListSize, Len(l) < SN_MAX, NEW n \in Id, Numbered(l, n)
    PROVE  LET m == ListAdd(l, Entry(NextSn(n), HIGH))
           IN  /\ Numbered(m, NextSn(n)) /\ Len(m) <= Len(l) + 1
               /\ \A i \in 1..Len(l) : l[i].id # NextSn(n)
               /\ \A i \in 1..Len(m) : (\E j \in 1..Len(l) : m[i] = l[j]) \/ m[i].id = NextSn(n)
               /\ \A x \in Id : x # NextSn(n) /\ AtFront(x, l) => AtFront(x, m)
<1> DEFINE s == NextSn(n)  m == ListAdd(l, Entry(s, HIGH))  r == Room(l)
<1>1. r \in Seq(Record) /\ Len(r) \in Nat /\ Len(l) \in Nat /\ SN_MAX \in Nat /\ s \in 1..SN_MAX /\ s \in Id
  <2>1. r \in Seq(Record)
    BY RoomType
  <2>2. SN_MAX \in Nat /\ s \in 1..SN_MAX /\ s \in Id
    BY NextSnType, ListAssumption DEF Id
  <2> QED BY <2>1, <2>2
<1>2. Numbered(r, n) /\ Len(r) <= Len(l) /\ \A x \in Id : AtFront(x, l) => AtFront(x, r)
  <2>1. CASE Len(l) = ListSize
    <3>1. l # <<>> /\ r = Tail(l)
      BY <2>1, ListAssumption DEF Room
    <3> QED BY <1>1, <3>1, NumberedTail
  <2>2. CASE Len(l) # ListSize
    BY <1>1, <2>2 DEF Room
  <2> QED BY <2>1, <2>2
<1>3. /\ m \in Seq(Record) /\ Len(m) = Len(r) + 1 /\ m[Len(m)].id = s
      /\ \A i \in 1..Len(m) - 1 : m[i] = r[i]
      /\ \A i \in 1..Len(r) : \E j \in 1..Len(l) : r[i] = l[j]
  <2>1. m = ListAdd(l, Entry(s, HIGH)) /\ r = Room(l)
    OBVIOUS
  <2> HIDE DEF s, m, r
  <2>2. m = Append(r, Entry(s, HIGH)) /\ Entry(s, HIGH) \in Record /\ Entry(s, HIGH).id = s
    <3>1. s \in Id
      BY <1>1
    <3> QED BY <2>1, <3>1, HighAdd DEF Entry, Record
  <2>4. m \in Seq(Record) /\ Len(m) = Len(r) + 1 /\ m[Len(m)].id = s
    BY <1>1, <2>2
  <2>5. \A i \in 1..Len(m) - 1 : m[i] = r[i]
    BY <1>1, <2>2
  <2>3. ASSUME NEW i \in 1..Len(Room(l)) PROVE \E j \in 1..Len(l) : Room(l)[i] = l[j]
    BY <1>1, <2>1, <2>3, HighAdded
  <2> QED BY <2>1, <2>3, <2>4, <2>5
<1> HIDE DEF m, r
<1>4. \A i \in 1..Len(m) : (i \in 1..Len(r) /\ m[i] = r[i]) \/ (i = Len(m) /\ m[i].id = s)
  BY <1>1, <1>3
<1>5. ASSUME NEW q \in Seq(Record), Numbered(q, n), Len(q) < SN_MAX, NEW i \in 1..Len(q)
      PROVE  q[i].id = Back(s, Len(q) - i + 1) /\ q[i].id # s
  <2>1. Len(q) \in Nat /\ n \in 1..SN_MAX
    BY <1>5, ListAssumption DEF Numbered, Id
  <2>2. Len(q) - i \in 0..SN_MAX - 1 /\ Len(q) - i + 1 < SN_MAX /\ Len(q) - i + 1 \in 0..SN_MAX - 1
        /\ 0 \in 0..SN_MAX - 1 /\ Len(q) - i + 1 # 0
    BY <1>1, <1>5, <2>1
  <2>3. q[i].id = Back(s, Len(q) - i + 1)
    BY <1>5, <2>1, <2>2, BackFacts DEF Numbered
  <2>4. Back(s, Len(q) - i + 1) # Back(s, 0) /\ Back(s, 0) = s
    BY <1>1, <2>2, BackFacts
  <2> QED BY <2>3, <2>4
<1>6. Numbered(m, s)
  <2>1. ASSUME NEW i \in 1..Len(m) PROVE m[i].id = Back(s, Len(m) - i)
    <3>1. CASE i \in 1..Len(r) /\ m[i] = r[i]
      <4>1. Len(r) - i + 1 = Len(m) - i /\ Len(r) < SN_MAX
        BY <1>1, <1>2, <1>3, <3>1
      <4> QED BY <1>1, <1>2, <1>5, <3>1, <4>1
    <3>2. CASE i = Len(m) /\ m[i].id = s
      <4>1. Len(m) - i = 0 /\ 0 \in 0..SN_MAX - 1
        BY <1>1, <1>3, <3>2
      <4> QED BY <1>1, <3>2, <4>1, BackFacts
    <3> QED BY <1>4, <3>1, <3>2
  <2> QED BY <1>1, <2>1 DEF Numbered
<1>7. \A i \in 1..Len(l) : l[i].id # s
  BY <1>5
<1>8. ASSUME NEW x \in Id, x # s, AtFront(x, l) PROVE AtFront(x, m)
  <2>1. AtFront(x, r)
    BY <1>2, <1>8
  <2> QED BY <1>4, <1>8, <2>1 DEF AtFront
<1>9. \A i \in 1..Len(m) : (\E j \in 1..Len(l) : m[i] = l[j]) \/ m[i].id = s
  BY <1>3, <1>4
<1> QED BY <1>1, <1>2, <1>3, <1>6, <1>7, <1>8, <1>9 DEF m

\* A frame that is reported sent and still in the list is its head.
LEMMA FrontSent ==
    ASSUME NEW l \in Seq(Record), NEW x \in Id, AtFront(x, l)
    PROVE  \/ ListSent(l, x, TRUE) = l
           \/ l # <<>> /\ Head(l).id = x /\ ListSent(l, x, TRUE) = Tail(l)
<1> DEFINE k == FindId(l, x)
<1>1. k \in 0..Len(l) /\ (k # 0 => l[k].id = x) /\ Len(l) \in Nat
  BY FoundId
<1> HIDE DEF k
<1>2. CASE k = 0
  BY <1>2 DEF ListSent, RemoveObj, k
<1>3. CASE k # 0
  <2>1. k \in 1..Len(l) /\ l # <<>> /\ l[k].id = x
    BY <1>1, <1>3
  <2>2. k = 1
    BY <2>1 DEF AtFront
  <2>3. ListSent(l, x, TRUE) = RemoveAt(l, 1)
    BY <2>2 DEF ListSent, RemoveObj, k
  <2>4. RemoveAt(l, 1) = Tail(l) /\ Head(l).id = x
    BY <2>1, <2>2, HeadRemoved, HeadId
  <2> QED BY <2>1, <2>3, <2>4
<1> QED BY <1>2, <1>3

\* The numbers under way: with the GPRS task, in the hand of box_send, or in a
\* result that says TRUE.
InConfirmed(x) == \E e \in ToSet(appq) : e.ev = "SENT" /\ e.ok /\ e.sn = x
UnderWay(x) == (busy /\ x = mailbox) \/ (Doing("put") /\ x = held) \/ InConfirmed(x)
\* The number to be given out next is not still under way.
FreshNumber == sn < MaxSn => ~UnderWay(NextSn(sn))
\* There are more numbers than frames on the list.
Roomy == sn < MaxSn => Len(list) < SN_MAX

InFront == \A x \in Id : UnderWay(x) => AtFront(x, list)
FInv == OInv /\ Numbered(list, sn) /\ Len(list) <= SN_MAX /\ InFront

-----------------------------------------------------------------------------
(* The numbers of a list, which are what the queue of frames is.            *)
Numbers(l) == [i \in 1..Len(l) |-> l[i].id]

LEMMA NumbersType ==
    ASSUME NEW l \in Seq(Record)
    PROVE  /\ Numbers(l) \in Seq(Id) /\ Len(Numbers(l)) = Len(l) /\ Len(l) \in Nat
           /\ \A i \in 1..Len(l) : Numbers(l)[i] = l[i].id
           /\ l # <<>> => Numbers(l) # <<>> /\ Head(Numbers(l)) = Head(l).id
<1>1. \A i \in 1..Len(l) : l[i].id \in Id
  <2>1. \A i \in 1..Len(l) : l[i] \in Record
    OBVIOUS
  <2> QED BY <2>1 DEF Record
<1>2. Len(l) \in Nat
  OBVIOUS
<1>3. Numbers(l) \in Seq(Id)
  BY <1>1, <1>2 DEF Numbers
<1>4. Len(Numbers(l)) = Len(l)
  BY <1>1, <1>2 DEF Numbers
<1>5. \A i \in 1..Len(l) : Numbers(l)[i] = l[i].id
  BY DEF Numbers
<1>6. ASSUME l # <<>> PROVE Numbers(l) # <<>> /\ Head(Numbers(l)) = Head(l).id
  <2>1. Len(l) # 0 /\ 1 \in 1..Len(l) /\ Head(l) = l[1]
    BY <1>6, HeadId
  <2>2. Numbers(l) # <<>>
    BY <1>3, <1>4, <2>1
  <2>3. Head(Numbers(l)) = Numbers(l)[1]
    BY <1>3, <2>2
  <2> QED BY <1>5, <2>1, <2>2, <2>3
<1> QED BY <1>2, <1>3, <1>4, <1>5, <1>6

LEMMA NumbersTail ==
    ASSUME NEW l \in Seq(Record), l # <<>>
    PROVE  Numbers(Tail(l)) = Tail(Numbers(l))
<1>1. /\ Tail(l) \in Seq(Record) /\ Len(Tail(l)) = Len(l) - 1
      /\ \A i \in 1..Len(Tail(l)) : Tail(l)[i] = l[i + 1] /\ i + 1 \in 1..Len(l)
  OBVIOUS
<1>2. Numbers(l) \in Seq(Id) /\ Numbers(l) # <<>> /\ Len(Numbers(l)) = Len(l)
  BY NumbersType
<1>3. /\ Tail(Numbers(l)) \in Seq(Id) /\ Len(Tail(Numbers(l))) = Len(l) - 1
      /\ \A i \in 1..Len(l) - 1 : Tail(Numbers(l))[i] = Numbers(l)[i + 1]
  BY <1>2, HeadTailProperties
<1>4. Numbers(Tail(l)) \in Seq(Id) /\ Len(Numbers(Tail(l))) = Len(l) - 1
  BY <1>1, NumbersType
<1>5. \A i \in 1..Len(l) - 1 : Numbers(Tail(l))[i] = Tail(Numbers(l))[i]
  BY <1>1, <1>3, NumbersType
<1> QED BY <1>3, <1>4, <1>5, SeqEqual

LEMMA NumbersAppend ==
    ASSUME NEW l \in Seq(Record), NEW o \in Record
    PROVE  Numbers(Append(l, o)) = Append(Numbers(l), o.id)
<1>1. /\ Append(l, o) \in Seq(Record) /\ Len(Append(l, o)) = Len(l) + 1 /\ Len(l) \in Nat
      /\ \A i \in 1..Len(l) : Append(l, o)[i] = l[i]
      /\ Append(l, o)[Len(l) + 1] = o
  OBVIOUS
<1>2. Numbers(l) \in Seq(Id) /\ Len(Numbers(l)) = Len(l) /\ o.id \in Id
  BY NumbersType DEF Record
<1>3. /\ Append(Numbers(l), o.id) \in Seq(Id) /\ Len(Append(Numbers(l), o.id)) = Len(l) + 1
      /\ \A i \in 1..Len(l) : Append(Numbers(l), o.id)[i] = Numbers(l)[i]
      /\ Append(Numbers(l), o.id)[Len(l) + 1] = o.id
  BY <1>2, AppendProperties
<1>4. Numbers(Append(l, o)) \in Seq(Id) /\ Len(Numbers(Append(l, o))) = Len(l) + 1
  BY <1>1, NumbersType
<1>5. ASSUME NEW i \in 1..Len(l) + 1 PROVE Numbers(Append(l, o))[i] = Append(Numbers(l), o.id)[i]
  <2>1. Numbers(Append(l, o))[i] = Append(l, o)[i].id
    BY <1>1, NumbersType
  <2>2. i \in 1..Len(l) \/ i = Len(l) + 1
    BY <1>1
  <2>3. \A j \in 1..Len(l) : Numbers(l)[j] = l[j].id
    BY NumbersType
  <2> QED BY <1>1, <1>3, <2>1, <2>2, <2>3
<1> QED BY <1>3, <1>4, <1>5, SeqEqual

-----------------------------------------------------------------------------
(* The list implements the queue, step by step.                             *)

\* What a step may do to the list.
ListMoves ==
    /\ Numbered(list, sn)' /\ (Len(list) <= SN_MAX)'
    /\ \A x \in Id : UnderWay(x) /\ AtFront(x, list) => AtFront(x, list)'
    /\ \/ sn' = sn /\ Len(list') <= Len(list)
       \/ sn < MaxSn /\ sn' = NextSn(sn) /\ Len(list') <= Len(list) + 1
    /\ \A i \in 1..Len(list') : (\E j \in 1..Len(list) : list'[i] = list[j]) \/ list'[i].id = sn'
Fetches == \A x \in Id : UnderWay(x)' => UnderWay(x) \/ (list' # <<>> /\ x = Head(list').id)

LEMMA InFrontKept ==
    ASSUME FInv, OInv', ListMoves, Fetches
    PROVE  FInv'
<1>1. list' \in Seq(Record) /\ sn' \in Id /\ Numbered(list', sn') /\ Len(list') <= SN_MAX
  BY DEF ListMoves, OInv, TypeOK, Record
<1>2. ASSUME NEW x \in Id, UnderWay(x)' PROVE AtFront(x, list')
  <2>1. CASE UnderWay(x)
    BY <2>1 DEF FInv, InFront, ListMoves
  <2>2. CASE list' # <<>> /\ x = Head(list').id
    BY <1>1, <2>2, HeadAtFront
  <2> QED BY <1>2, <2>1, <2>2 DEF Fetches
<1> QED BY <1>1, <1>2 DEF FInv, InFront

LEMMA ListStays ==
    ASSUME FInv, UNCHANGED <<list, sn>>
    PROVE  ListMoves
<1>1. Len(list) \in Nat
  BY Parts DEF FInv, ListTyped
<1> QED BY <1>1 DEF FInv, ListMoves

LEMMA ConfirmedIs == Confirmed = {x \in {e.sn : e \in ToSet(appq)} : InConfirmed(x)}
  BY DEF Confirmed, InConfirmed, Range, ToSet

\* The queue of numbers stays, and a confirmation may come or go.
LEMMA FifoStays ==
    ASSUME UNCHANGED list, Confirmed' \subseteq Confirmed \/ \E f \in Id : Confirmed' = Confirmed \cup {f}
    PROVE  [Fifo!Next]_(Fifo!vars)
  BY DEF Fifo!Next, Fifo!Forget, Fifo!Confirm, Fifo!vars

\* Events that confirm nothing leave what is confirmed.
LEMMA ConfirmedSame ==
    ASSUME ToSet(appq) \subseteq ToSet(appq'),
           \A e \in ToSet(appq') : e \in ToSet(appq) \/ ~(e.ev = "SENT" /\ e.ok)
    PROVE  Confirmed' = Confirmed
  BY DEF Confirmed, Range, ToSet

LEMMA AddStep ==
    ASSUME FInv, FreshNumber, Roomy, AddFrame, Confirmed' = Confirmed
    PROVE  ListMoves /\ [Fifo!Next]_(Fifo!vars)
<1>0. list \in Seq(Record) /\ Len(list) <= ListSize /\ AllHigh(list) /\ sn \in Id
      /\ Numbered(list, sn) /\ Len(list) \in Nat /\ SN_MAX \in Nat
  BY Parts, ListAssumption DEF FInv, ListTyped, RestTyped
<1>1. CASE ~(sn < MaxSn)
  <2>1. UNCHANGED <<list, sn>>
    BY <1>1 DEF AddFrame
  <2> QED BY <2>1, ListStays, FifoStays
<1>2. CASE sn < MaxSn
  <2> DEFINE s == NextSn(sn)  o == Entry(s, HIGH)
  <2>1. s \in Id /\ Len(list) < SN_MAX /\ ~UnderWay(s)
    BY <1>0, <1>2, NextSnType DEF FreshNumber, Roomy
  <2>2. sn' = s /\ list' = ListAdd(list, o)
    BY <1>2 DEF AddFrame
  <2>m. /\ Numbered(list', s) /\ Len(list') <= Len(list) + 1
        /\ \A i \in 1..Len(list) : list[i].id # s
        /\ \A i \in 1..Len(list') : (\E j \in 1..Len(list) : list'[i] = list[j]) \/ list'[i].id = s
        /\ \A x \in Id : x # s /\ AtFront(x, list) => AtFront(x, list')
    BY <1>0, <2>1, <2>2, NumberedAdd
  <2> HIDE DEF s
  <2>3. ListMoves
    <3>1. Len(list') <= SN_MAX
      <4>1. Len(list') \in Nat
        BY <1>0, <2>1, <2>2, HighAdded
      <4> QED BY <1>0, <2>1, <2>m, <4>1
    <3>2. \A x \in Id : UnderWay(x) /\ AtFront(x, list) => AtFront(x, list')
      BY <2>1, <2>m
    <3> QED BY <1>2, <2>2, <2>m, <3>1, <3>2 DEF ListMoves, s
  <2>4. list' = Append(Room(list), o) /\ Room(list) \in Seq(Record) /\ o \in Record /\ o.id = s
    BY <1>0, <2>1, <2>2, HighAdd, RoomType DEF Entry, Record
  <2>5. Numbers(list') = Append(Numbers(Room(list)), s)
    <3> HIDE DEF o
    <3> QED BY <2>4, NumbersAppend
  <2>6. Numbers(Room(list)) = IF Len(Numbers(list)) = ListSize THEN Tail(Numbers(list)) ELSE Numbers(list)
    <3>1. Len(Numbers(list)) = Len(list)
      BY <1>0, NumbersType
    <3>2. Len(list) = ListSize => list # <<>>
      BY <1>0, ListAssumption
    <3> QED BY <1>0, <3>1, <3>2, NumbersTail DEF Room
  <2>7. s \notin Range(Numbers(list))
    BY <2>m DEF Range, Numbers
  <2>8. s \notin Confirmed
    BY <2>1, ConfirmedIs DEF UnderWay
  <2>9. Fifo!Add
    <3> DEFINE q == Numbers(list)  p == Numbers(list')
    <3>1. s \in Id \ (Range(q) \cup Confirmed)
      BY <2>1, <2>7, <2>8
    <3>2. p = Append(IF Len(q) = ListSize THEN Tail(q) ELSE q, s)
      BY <2>5, <2>6
    <3>3. q = [i \in 1..Len(list) |-> list[i].id] /\ p = [i \in 1..Len(list') |-> list'[i].id]
      BY DEF Numbers
    <3> HIDE DEF q, p
    <3>4. \E f \in Id \ (Range(q) \cup Confirmed) : p = Append(IF Len(q) = ListSize THEN Tail(q) ELSE q, f)
      BY <3>1, <3>2
    <3>5. Range(q) = Fifo!Range(q)
      BY DEF Range, Fifo!Range
    <3>6. \E f \in Id \ (Fifo!Range(q) \cup Confirmed) :
             p = Append(IF Len(q) = ListSize THEN Tail(q) ELSE q, f)
      BY <3>4, <3>5
    <3> QED BY <3>3, <3>6 DEF Fifo!Add
  <2> QED BY <2>3, <2>9 DEF Fifo!Next
<1> QED BY <1>1, <1>2

\* A result that was taken confirms no more, and so does a complaint.
LEMMA ConfirmedTaken ==
    ASSUME AppTyped, appq # <<>>, appq' = Tail(appq)
    PROVE  Confirmed' \subseteq Confirmed /\ \A x \in Id : InConfirmed(x)' => InConfirmed(x)
<1>1. ToSet(appq') \subseteq ToSet(appq)
  BY EventTaken
<1> QED BY <1>1 DEF Confirmed, InConfirmed, Range, ToSet

LEMMA SameEvents ==
    ASSUME \A e \in ToSet(appq') : e \in ToSet(appq) \/ ~(e.ev = "SENT" /\ e.ok)
    PROVE  \A x \in Id : InConfirmed(x)' => InConfirmed(x)
  BY DEF InConfirmed

\* Nothing new is under way.
LEMMA NothingFetched ==
    ASSUME UNCHANGED <<mailbox, busy>>, Doing("put")' => Doing("put") /\ held' = held,
           \A x \in Id : InConfirmed(x)' => InConfirmed(x)
    PROVE  Fetches
<1> SUFFICES ASSUME NEW x \in Id, UnderWay(x)' PROVE UnderWay(x)
  BY DEF Fetches
<1>1. CASE (busy /\ x = mailbox)'
  BY <1>1 DEF UnderWay
<1>2. CASE (Doing("put") /\ x = held)'
  BY <1>2 DEF UnderWay
<1>3. CASE InConfirmed(x)'
  BY <1>3 DEF UnderWay
<1> QED BY <1>1, <1>2, <1>3 DEF UnderWay

Follows == ListMoves /\ Fetches /\ [Fifo!Next]_(Fifo!vars)

LEMMA FifoRequest == ASSUME FInv, NEW kind \in Kinds, Request(kind) PROVE Follows
<1>1. appq \in Seq(Event) /\ appq' = Append(appq, Make(kind)) /\ Make(kind) \in Event
  BY Parts DEF FInv, AppTyped, Request, Make, Event
<1>2. ToSet(appq') = ToSet(appq) \cup {Make(kind)} /\ Make(kind).ev = "MAKE"
  BY <1>1, AppendSet DEF Make
<1>3. UNCHANGED <<list, sn, work, held, mailbox, busy>>
  BY DEF Request, gprs
<1>4. Doing("put")' => Doing("put")
  BY <1>3 DEF Doing, Idle
<1>5. Confirmed' = Confirmed
  BY <1>2, ConfirmedSame
<1> QED BY <1>2, <1>3, <1>4, <1>5, ListStays, FifoStays, SameEvents, NothingFetched DEF Follows

LEMMA FifoHandleRequest == FInv /\ HandleRequest => Follows
<1> SUFFICES ASSUME FInv, HandleRequest PROVE Follows
  OBVIOUS
<1>1. /\ AppTyped /\ appq # <<>> /\ appq' = Tail(appq)
      /\ Head(appq).ev = "MAKE" /\ work' = Steps(Head(appq).kind)
  BY Parts DEF FInv, HandleRequest
<1>2. UNCHANGED <<list, sn, held, mailbox, busy>>
  BY DEF HandleRequest, gprs
<1>3. Head(appq).kind \in {"report", "alarm", "unlock"}
  BY <1>1, EventTaken, OutboxAssumption DEF Event
<1>4. Head(work') \in {"add", "blu"}
  BY <1>1, <1>3 DEF Steps
<1>5. ~Doing("put")'
  BY <1>4 DEF Doing
<1> QED BY <1>1, <1>2, <1>5, ConfirmedTaken, ListStays, FifoStays, NothingFetched DEF Follows

\* A frame that was sent leaves the head of the list or is gone already.
LEMMA FifoHandleResult == FInv /\ HandleResult => Follows
<1> SUFFICES ASSUME FInv, HandleResult PROVE Follows
  OBVIOUS
<1> DEFINE e == Head(appq)
<1>1. /\ appq \in Seq(Event) /\ appq # <<>> /\ e.ev = "SENT" /\ appq' = Tail(appq)
      /\ list' = ListSent(list, e.sn, e.ok) /\ work' = <<"send">>
      /\ UNCHANGED <<sn, held, mailbox, busy>>
  BY Parts DEF FInv, HandleResult, gprs, AppTyped
<1>2. /\ AppTyped /\ Confirmed' \subseteq Confirmed
      /\ \A x \in Id : InConfirmed(x)' => InConfirmed(x)
      /\ e \in Event /\ e \in ToSet(appq)
  BY <1>1, Parts, EventTaken, ConfirmedTaken DEF FInv
<1>d. ~Doing("put")'
  BY <1>1 DEF Doing
<1>3. Fetches
  BY <1>1, <1>2, <1>d, NothingFetched
<1> HIDE DEF e
<1>4. e.sn \in Id /\ e.ok \in BOOLEAN
  BY <1>1, <1>2 DEF Event
<1>5. list \in Seq(Record) /\ Len(list) \in Nat /\ SN_MAX \in Nat /\ sn \in Id /\ Numbered(list, sn)
      /\ Len(list) <= SN_MAX /\ sn' = sn
  BY <1>1, Parts, ListAssumption DEF FInv, ListTyped, RestTyped
<1>6. CASE list' = list
  BY <1>1, <1>2, <1>3, <1>6, ListStays, FifoStays DEF Follows
<1>7. CASE list # <<>> /\ Head(list).id = e.sn /\ list' = Tail(list) /\ e.ok
  <2>1. ListMoves
    <3>1. /\ Len(list') = Len(list) - 1
          /\ \A i \in 1..Len(list') : i + 1 \in 1..Len(list) /\ list'[i] = list[i + 1]
      BY <1>5, <1>7
    <3>2. Len(list') <= Len(list) /\ Len(list') <= SN_MAX
      BY <1>5, <3>1
    <3>3. Numbered(list', sn') /\ \A x \in Id : AtFront(x, list) => AtFront(x, list')
      BY <1>5, <1>7, NumberedTail
    <3> QED BY <1>5, <3>1, <3>2, <3>3 DEF ListMoves
  <2>2. Numbers(list) # <<>> /\ Head(Numbers(list)) = e.sn /\ Numbers(list') = Tail(Numbers(list))
    BY <1>5, <1>7, NumbersType, NumbersTail
  <2>3. e.sn \in Confirmed
    BY <1>1, <1>2, <1>4, <1>7, ConfirmedIs DEF InConfirmed
  <2>4. Fifo!Leave
    BY <1>2, <2>2, <2>3 DEF Fifo!Leave, Numbers
  <2> QED BY <1>3, <2>1, <2>4 DEF Follows, Fifo!Next
<1>8. CASE ~e.ok
  BY <1>1, <1>6, <1>8 DEF ListSent
<1>9. CASE e.ok
  <2>1. AtFront(e.sn, list)
    BY <1>1, <1>2, <1>4, <1>9 DEF FInv, InFront, UnderWay, InConfirmed
  <2>2. list' = ListSent(list, e.sn, TRUE)
    BY <1>1, <1>4, <1>9
  <2> QED BY <1>4, <1>5, <1>6, <1>7, <1>9, <2>1, <2>2, FrontSent
<1> QED BY <1>4, <1>8, <1>9

LEMMA FifoAppAdd == ASSUME FInv, FreshNumber, Roomy, AppAdd PROVE Follows
<1>1. AddFrame /\ UNCHANGED <<held, appq, mailbox, busy>> /\ Doing("add") /\ Done
  BY DEF AppAdd, gprs
<1>2. Confirmed' = Confirmed /\ \A x \in Id : InConfirmed(x)' => InConfirmed(x)
  BY <1>1 DEF Confirmed, InConfirmed
<1>3. ~Doing("put")'
  BY <1>1, DoneWork, Parts DEF FInv
<1> QED BY <1>1, <1>2, <1>3, AddStep, NothingFetched DEF Follows

LEMMA FifoAppSend == FInv /\ AppSend => Follows
<1> SUFFICES ASSUME FInv, AppSend PROVE Follows
  OBVIOUS
<1>1. UNCHANGED <<list, sn, mailbox, busy>> /\ WorkTyped /\ Doing("send")
  BY Parts DEF AppSend, gprs, FInv
<1>2. Doing("put")' => list # <<>> /\ held' = Head(list).id
  <2>1. CASE Done
    BY <1>1, <2>1, DoneWork
  <2>2. CASE ~Done
    BY <2>2 DEF AppSend
  <2> QED BY <2>1, <2>2
<1>3. /\ ToSet(appq) \subseteq ToSet(appq')
      /\ \A e \in ToSet(appq') : e \in ToSet(appq) \/ ~(e.ev = "SENT" /\ e.ok)
  <2>1. CASE is_sending
    BY <2>1 DEF AppSend
  <2>2. CASE ~is_sending
    <3>1. appq' = Complaint(appq, list, blu_is_sending)
      BY <2>2 DEF AppSend
    <3>2. AppTyped /\ list \in Seq(Record) /\ blu_is_sending \in BOOLEAN
      BY Parts DEF FInv, ListTyped, RestTyped
    <3> QED BY <3>1, <3>2, Complained
  <2> QED BY <2>1, <2>2
<1>4. Confirmed' = Confirmed /\ \A x \in Id : InConfirmed(x)' => InConfirmed(x)
  BY <1>3, ConfirmedSame, SameEvents
<1>5. Fetches
  <2> SUFFICES ASSUME NEW x \in Id, UnderWay(x)' PROVE UnderWay(x) \/ (list' # <<>> /\ x = Head(list').id)
    BY DEF Fetches
  <2>1. CASE (Doing("put") /\ x = held)'
    BY <1>1, <1>2, <2>1
  <2>2. CASE (busy /\ x = mailbox)'
    BY <1>1, <2>2 DEF UnderWay
  <2>3. CASE InConfirmed(x)'
    BY <1>4, <2>3 DEF UnderWay
  <2> QED BY <2>1, <2>2, <2>3 DEF UnderWay
<1> QED BY <1>1, <1>4, <1>5, ListStays, FifoStays DEF Follows

LEMMA FifoAppCall == FInv /\ (AppPut \/ AppMark \/ AppBlu \/ AppBluPut) => Follows
<1> SUFFICES ASSUME FInv, AppPut \/ AppMark \/ AppBlu \/ AppBluPut PROVE Follows
  OBVIOUS
<1>1. /\ UNCHANGED <<list, sn, held, appq>> /\ WorkTyped
      /\ UNCHANGED <<mailbox, busy>> \/ (Doing("put") /\ mailbox' = held)
  BY Parts DEF FInv, AppPut, AppMark, AppBlu, AppBluPut, gprs, TranSend
<1>2. ~Doing("put")'
  <2>2. CASE AppPut
    BY <1>1, <2>2, DoneWork DEF AppPut
  <2>3. CASE AppMark
    BY <1>1, <2>3, DoneWork DEF AppMark
  <2>4. CASE AppBlu
    BY <1>1, <2>4, DoneWork, BluPutWork DEF AppBlu
  <2>5. CASE AppBluPut
    BY <1>1, <2>5, DoneWork DEF AppBluPut
  <2> QED BY <2>2, <2>3, <2>4, <2>5
<1>3. Confirmed' = Confirmed /\ \A x \in Id : InConfirmed(x)' => InConfirmed(x)
  BY <1>1 DEF Confirmed, InConfirmed
<1>4. Fetches
  <2> SUFFICES ASSUME NEW x \in Id, UnderWay(x)' PROVE UnderWay(x)
    BY DEF Fetches
  <2>1. CASE (busy /\ x = mailbox)'
    BY <1>1, <2>1 DEF UnderWay
  <2>2. CASE InConfirmed(x)'
    BY <1>3, <2>2 DEF UnderWay
  <2> QED BY <1>2, <2>1, <2>2 DEF UnderWay
<1> QED BY <1>1, <1>3, <1>4, ListStays, FifoStays DEF Follows

LEMMA FifoComplete == ASSUME FInv, NEW ok \in BOOLEAN, Complete(ok) PROVE Follows
<1> DEFINE e == Sent(mailbox, ok)
<1>1. /\ appq \in Seq(Event) /\ Len(appq) <= APP_EVENT_MAX /\ mailbox \in Id
      /\ busy /\ appq' = Post(appq, e) /\ UNCHANGED <<list, sn, work, held, mailbox>>
  BY Parts DEF FInv, AppTyped, RestTyped, Complete
<1>2. e \in Event /\ e.ev = "SENT" /\ e.sn = mailbox /\ e.ok = ok
  BY <1>1 DEF Sent, Event
<1> HIDE DEF e
<1>3. appq' = appq \/ ToSet(appq') = ToSet(appq) \cup {e}
  BY <1>1, <1>2, AppendSet DEF Post
<1>4. Fetches
  <2> SUFFICES ASSUME NEW x \in Id, UnderWay(x)' PROVE UnderWay(x)
    BY DEF Fetches
  <2>1. CASE (busy /\ x = mailbox)'
    BY <1>1, <2>1 DEF UnderWay
  <2>2. CASE (Doing("put") /\ x = held)'
    BY <1>1, <2>2 DEF UnderWay, Doing, Idle
  <2>3. CASE InConfirmed(x)'
    <3>1. InConfirmed(x) \/ x = mailbox
      BY <1>2, <1>3, <2>3 DEF InConfirmed
    <3> QED BY <1>1, <3>1 DEF UnderWay
  <2> QED BY <2>1, <2>2, <2>3 DEF UnderWay
<1>5. CASE appq' = appq \/ ~ok
  <2>1. /\ ToSet(appq) \subseteq ToSet(appq')
        /\ \A f \in ToSet(appq') : f \in ToSet(appq) \/ ~(f.ev = "SENT" /\ f.ok)
    BY <1>2, <1>3, <1>5
  <2> QED BY <1>1, <1>4, <2>1, ConfirmedSame, ListStays, FifoStays DEF Follows
<1>6. CASE ToSet(appq') = ToSet(appq) \cup {e} /\ ok
  <2>1. Confirmed' = Confirmed \cup {mailbox}
    <3>1. Confirmed = {r.sn : r \in {f \in ToSet(appq) : f.ev = "SENT" /\ f.ok}}
      BY DEF Confirmed, Range, ToSet
    <3>2. Confirmed' = {r.sn : r \in {f \in ToSet(appq') : f.ev = "SENT" /\ f.ok}}
      BY DEF Confirmed, Range, ToSet
    <3>3. {f \in ToSet(appq') : f.ev = "SENT" /\ f.ok} = {f \in ToSet(appq) : f.ev = "SENT" /\ f.ok} \cup {e}
      BY <1>2, <1>6
    <3> QED BY <1>2, <3>1, <3>2, <3>3
  <2> QED BY <1>1, <1>4, <2>1, ListStays, FifoStays DEF Follows
<1> QED BY <1>3, <1>5, <1>6

\* What box_send, run by another task, leaves under way.
LEMMA FifoSends ==
    ASSUME FInv, UNCHANGED <<work, held>>, NEW l \in Seq(Record), l = list', NEW s \in BOOLEAN, NEW b \in BOOLEAN,
           BoxSend(l, s, b)
    PROVE  Fetches /\ Confirmed' = Confirmed
<1>1. /\ ToSet(appq) \subseteq ToSet(appq')
      /\ \A e \in ToSet(appq') : e \in ToSet(appq) \/ ~(e.ev = "SENT" /\ e.ok)
      /\ UNCHANGED <<mailbox, busy>> \/ (l # <<>> /\ mailbox' = Head(l).id)
  <2>1. AppTyped /\ mailbox \in Id /\ busy \in BOOLEAN
    BY Parts DEF FInv, RestTyped
  <2> QED BY <2>1, Sends
<1>2. \A x \in Id : InConfirmed(x)' => InConfirmed(x)
  BY <1>1, SameEvents
<1>3. Fetches
  <2> SUFFICES ASSUME NEW x \in Id, UnderWay(x)' PROVE UnderWay(x) \/ (list' # <<>> /\ x = Head(list').id)
    BY DEF Fetches
  <2>1. CASE (busy /\ x = mailbox)'
    BY <1>1, <2>1 DEF UnderWay
  <2>2. CASE (Doing("put") /\ x = held)'
    BY <2>2 DEF UnderWay, Doing, Idle
  <2>3. CASE InConfirmed(x)'
    BY <1>2, <2>3 DEF UnderWay
  <2> QED BY <2>1, <2>2, <2>3 DEF UnderWay
<1> QED BY <1>1, <1>3, ConfirmedSame

LEMMA FifoBlu == ASSUME FInv, FreshNumber, Roomy, OInv', BluTask PROVE Follows
<1>1. blu_is_sending' \in BOOLEAN /\ UNCHANGED <<work, held, lost>>
  BY DEF BluTask
<1>2. list \in Seq(Record) /\ list' \in Seq(Record) /\ is_sending \in BOOLEAN
  BY Parts DEF FInv, OInv, TypeOK, ListTyped, RestTyped, Record
<1>3. CASE UNCHANGED <<list, sn, is_sending, appq, mailbox, busy>>
  <2>1. Confirmed' = Confirmed /\ \A x \in Id : InConfirmed(x)' => InConfirmed(x)
    BY <1>3 DEF Confirmed, InConfirmed
  <2>2. Doing("put")' => Doing("put")
    BY <1>1 DEF Doing, Idle
  <2> QED BY <1>1, <1>3, <2>1, <2>2, ListStays, FifoStays, NothingFetched DEF Follows
<1>4. CASE BluRestart
  <2>1. BoxSend(list', FALSE, blu_is_sending') /\ UNCHANGED <<list, sn>>
    BY <1>4 DEF BluRestart
  <2>2. Fetches /\ Confirmed' = Confirmed
    BY <1>1, <1>2, <2>1, FifoSends
  <2> QED BY <2>1, <2>2, ListStays, FifoStays DEF Follows
<1>5. CASE BluRequest
  <2>1. AddFrame /\ BoxSend(list', is_sending, blu_is_sending')
    BY <1>5 DEF BluRequest
  <2>2. Fetches /\ Confirmed' = Confirmed
    BY <1>1, <1>2, <2>1, FifoSends
  <2> QED BY <2>1, <2>2, AddStep DEF Follows
<1> QED BY <1>3, <1>4, <1>5 DEF BluTask

LEMMA FifoStep == ASSUME FInv, FreshNumber, Roomy, [Next]_vars PROVE FInv' /\ Follows
<1>1. OInv'
  BY OutboxStep DEF FInv
<1>2. CASE UNCHANGED vars
  <2>1. UNCHANGED <<list, sn, work, held, mailbox, busy, appq>>
    BY <1>2 DEF vars
  <2>2. Confirmed' = Confirmed /\ \A x \in Id : InConfirmed(x)' => InConfirmed(x)
    BY <2>1 DEF Confirmed, InConfirmed
  <2>3. Doing("put")' => Doing("put")
    BY <2>1 DEF Doing, Idle
  <2>4. Follows
    BY <2>1, <2>2, <2>3, ListStays, FifoStays, NothingFetched DEF Follows
  <2> QED BY <1>1, <2>4, InFrontKept DEF Follows
<1>3. CASE Next
  <2>1. Follows
    BY <1>1, <1>3, FifoRequest, FifoHandleRequest, FifoHandleResult, FifoAppAdd, FifoAppSend, FifoAppCall,
       FifoComplete, FifoBlu DEF Next, App
  <2> QED BY <1>1, <2>1, InFrontKept DEF Follows
<1> QED BY <1>2, <1>3

LEMMA FifoInit == Init => FInv /\ Fifo!Init
<1> SUFFICES ASSUME Init PROVE FInv /\ Fifo!Init
  OBVIOUS
<1>1. list = <<>> /\ sn = 0 /\ busy = FALSE /\ work = <<"add", "add", "send">> /\ appq = <<>>
  BY DEF Init
<1>2. Numbered(list, sn) /\ Len(list) <= SN_MAX
  BY <1>1, ListAssumption DEF Numbered
<1>3. ToSet(appq) = {} /\ Confirmed = {}
  BY <1>1, EmptySet DEF Confirmed, Range
<1>4. InFront
  BY <1>1 DEF InFront, AtFront
<1>5. Numbers(list) = <<>>
  BY <1>1 DEF Numbers
<1>6. Fifo!Init
  BY <1>3, <1>5 DEF Fifo!Init, Numbers
<1> QED BY <1>2, <1>4, <1>6, OutboxInit DEF FInv

\* The list of app_send_list.c, with everything that happens to it from three
\* tasks, is a first-in first-out queue that forgets only its oldest frame, and the
\* frame a result removes is its head, however often sending_frame_sn goes round
\* from 65535 to 1: as long as no number is given out again that the GPRS task has
\* still to answer for, or whose result has still to be handled.
THEOREM OutboxIsQueue == ASSUME ListSize < SN_MAX PROVE Spec /\ []FreshNumber => ImplementsFifo
<1>1. FInv => Roomy
  <2>1. FInv => Len(list) \in Nat /\ Len(list) <= ListSize
    BY Parts DEF FInv, ListTyped
  <2> QED BY <2>1, ListAssumption DEF Roomy
<1>2. FInv /\ FreshNumber /\ [Next]_vars => FInv' /\ [Fifo!Next]_(Fifo!vars)
  BY <1>1, FifoStep DEF Follows
<1> QED BY <1>2, FifoInit, PTL DEF Spec, ImplementsFifo, Fifo!Spec

\* Before the numbers have gone round once, none is given out again.
NotRound == /\ sn <= MaxSn /\ Len(list) <= sn
            /\ \A i \in 1..Len(list) : list[i].id <= sn
            /\ \A x \in Id : UnderWay(x) => x <= sn

LEMMA NotRoundFresh == ASSUME MaxSn <= SN_MAX, FInv, NotRound PROVE FreshNumber /\ Roomy
<1>1. /\ sn \in Id /\ sn \in Nat /\ Len(list) \in Nat /\ MaxSn \in Nat /\ SN_MAX \in Nat \ {0}
  BY Parts, ListAssumption, OutboxAssumption DEF FInv, RestTyped, ListTyped, Id
<1>2. ASSUME sn < MaxSn PROVE NextSn(sn) = sn + 1 /\ NextSn(sn) \in Id
  BY <1>1, <1>2 DEF NextSn, Id
<1> QED BY <1>1, <1>2 DEF NotRound, FreshNumber, Roomy

LEMMA NotRoundKept ==
    ASSUME MaxSn <= SN_MAX, FInv, FInv', NotRound, ListMoves, Fetches
    PROVE  NotRound'
<1>1. /\ sn \in Nat /\ sn' \in Nat /\ Len(list) \in Nat /\ Len(list') \in Nat
      /\ MaxSn \in Nat /\ SN_MAX \in Nat \ {0} /\ list \in Seq(Record) /\ list' \in Seq(Record)
  BY Parts, ListAssumption, OutboxAssumption
     DEF FInv, OInv, TypeOK, RestTyped, ListTyped, Id, Record
<1>2. /\ (sn' = sn /\ Len(list') <= Len(list)) \/ (sn' = sn + 1 /\ Len(list') <= Len(list) + 1)
      /\ sn' <= MaxSn
  <2>1. sn <= MaxSn
    BY DEF NotRound
  <2>2. CASE sn < MaxSn /\ sn' = NextSn(sn) /\ Len(list') <= Len(list) + 1
    <3>1. NextSn(sn) = sn + 1
      BY <1>1, <2>2 DEF NextSn
    <3> QED BY <1>1, <2>2, <3>1
  <2>3. CASE sn' = sn /\ Len(list') <= Len(list)
    BY <2>1, <2>3
  <2> QED BY <2>2, <2>3 DEF ListMoves
<1>3. sn <= sn' /\ Len(list') <= sn'
  BY <1>1, <1>2 DEF NotRound
<1>4. ASSUME NEW i \in 1..Len(list') PROVE list'[i].id <= sn'
  <2>1. list'[i].id \in Nat
    <3>1. list'[i] \in Record
      BY <1>1
    <3>2. list'[i].id \in Id
      BY <3>1 DEF Record
    <3> QED BY <1>1, <3>2 DEF Id
  <2>2. CASE list'[i].id = sn'
    BY <1>1, <2>2
  <2>3. ASSUME NEW j \in 1..Len(list), list'[i] = list[j] PROVE list'[i].id <= sn'
    BY <1>1, <1>3, <2>1, <2>3 DEF NotRound
  <2> QED BY <2>2, <2>3 DEF ListMoves
<1>5. ASSUME NEW x \in Id, UnderWay(x)' PROVE x <= sn'
  <2>1. CASE UnderWay(x)
    BY <1>1, <1>3, <2>1 DEF NotRound, Id
  <2>2. CASE list' # <<>> /\ x = Head(list').id
    <3>1. Head(list') = list'[1] /\ 1 \in 1..Len(list')
      BY <1>1, <2>2, HeadId
    <3> QED BY <1>4, <2>2, <3>1
  <2> QED BY <1>5, <2>1, <2>2 DEF Fetches
<1> QED BY <1>2, <1>3, <1>4, <1>5 DEF NotRound

\* Without any assumption on the callers: the first 65535 frames, MaxSn of them,
\* are a first-in first-out queue.
THEOREM FirstRoundIsQueue == ASSUME MaxSn <= SN_MAX PROVE Spec => ImplementsFifo
<1>1. Init => FInv /\ NotRound /\ Fifo!Init
  <2> SUFFICES ASSUME Init PROVE NotRound
    BY FifoInit
  <2>1. /\ list = <<>> /\ sn = 0 /\ busy = FALSE /\ work = <<"add", "add", "send">> /\ appq = <<>>
        /\ MaxSn \in Nat
    BY OutboxAssumption DEF Init
  <2>2. \A x : ~UnderWay(x)
    BY <2>1, EmptySet DEF UnderWay, InConfirmed, Doing
  <2> QED BY <2>1, <2>2 DEF NotRound
<1>2. FInv /\ NotRound /\ [Next]_vars => (FInv /\ NotRound)' /\ [Fifo!Next]_(Fifo!vars)
  BY NotRoundFresh, NotRoundKept, FifoStep DEF Follows
<1> QED BY <1>1, <1>2, PTL DEF Spec, ImplementsFifo, Fifo!Spec

-----------------------------------------------------------------------------
(* The bluetooth side in full does what Outbox allows.                      *)

\* box_blu_send in one go is a step of the bluetooth task of Outbox.
LEMMA BoxBluSendAllowed ==
    ASSUME NEW l, NEW q, BoxBluSend(l, q, FALSE), UNCHANGED app
    PROVE  BluTask
<1> USE DEF app, box
<1>1. CASE l = <<>>
  <2>1. blu_is_sending' = FALSE /\ BoxSend(list, FALSE, FALSE) /\ UNCHANGED <<list, sn>>
    BY <1>1 DEF BoxBluSend
  <2> QED BY <2>1 DEF BluTask, BluRestart
<1>2. CASE l # <<>>
  <2>1. blu_is_sending' \in BOOLEAN /\ UNCHANGED box
    BY <1>2 DEF BoxBluSend, NotConnected, Transmit
  <2> QED BY <2>1 DEF BluTask
<1> QED BY <1>1, <1>2

LEMMA BluAllowed == blu_is_sending \in BOOLEAN /\ [BluNext]_bluvars => [Next]_vars
<1> SUFFICES ASSUME blu_is_sending \in BOOLEAN, [BluNext]_bluvars PROVE [Next]_vars
  OBVIOUS
<1> USE DEF app, box
<1>1. CASE UNCHANGED bluvars
  BY <1>1 DEF bluvars
<1>2. CASE Below
  BY <1>2 DEF Below, Next, App
<1>3. CASE AppBluRequest
  <2>1. Doing("blu") /\ UNCHANGED <<list, sn, is_sending, appq, mailbox, busy, held, lost>>
    BY <1>3 DEF AppBluRequest
  <2>2. blu_is_sending' = blu_is_sending
    BY <1>3 DEF AppBluRequest, NotConnected
  <2>3. Done \/ (~blu_is_sending /\ work' = <<"blu_put">> \o Tail(work))
    BY <1>3 DEF AppBluRequest
  <2>4. AppBlu
    BY <2>1, <2>2, <2>3 DEF AppBlu, gprs
  <2> QED BY <2>4 DEF Next, App
<1>4. CASE AppBluTransmit
  <2>1. AppBluPut
    BY <1>4 DEF AppBluTransmit, AppBluPut, Transmit, gprs
  <2> QED BY <2>1 DEF Next, App
<1>5. CASE BluSentEvent
  <2>1. BluTask
    BY <1>5, BoxBluSendAllowed DEF BluSentEvent
  <2> QED BY <2>1 DEF Next
<1>6. CASE BluNoLockEvent
  <2>1. CASE blu_is_sending
    BY <1>6, <2>1 DEF BluNoLockEvent, vars
  <2>2. CASE ~blu_is_sending
    <3>1. BluTask
      BY <1>6, <2>2, BoxBluSendAllowed DEF BluNoLockEvent
    <3> QED BY <3>1 DEF Next
  <2> QED BY <2>1, <2>2
<1>7. CASE BluOther
  <2>1. UNCHANGED <<work, held, lost, blu_is_sending>>
    BY <1>7 DEF BluOther
  <2>2. UNCHANGED <<list, sn, is_sending, appq, mailbox, busy>> \/ BluRequest
    BY <1>7 DEF BluOther, BluRequest
  <2>3. BluTask
    BY <2>1, <2>2 DEF BluTask
  <2> QED BY <2>3 DEF Next
<1>8. CASE BluNoAckEvent \/ BluUartIgnored \/ BluAck \/ BluNack
  BY <1>8 DEF BluNoAckEvent, BluUartIgnored, BluAck, BluNack, vars
<1>9. CASE NoAckTimer \/ NoLockTimer \/ \E m \in Message : PhoneSends(m)
  BY <1>9 DEF NoAckTimer, NoLockTimer, PhoneSends
<1>10. CASE \E kind \in Kinds : Request(kind) /\ UNCHANGED blu
  BY <1>10 DEF Next
<1> QED BY <1>1, <1>2, <1>3, <1>4, <1>5, <1>6, <1>7, <1>8, <1>9, <1>10 DEF BluNext, BluTaskStep

\* What box_blu_send and the bluetooth task (app_send.c, blu_tx.c) do to the
\* variables of box_send is what Outbox allows: its theorems hold with them.
THEOREM BluImplementsOutbox == BluSpec => ImplementsOutbox
<1>1. BluInit => Init
  BY DEF BluInit
<1>2. OInv => blu_is_sending \in BOOLEAN
  BY Parts DEF RestTyped
<1>3. OInv /\ [BluNext]_bluvars => [Next]_vars /\ OInv'
  BY <1>2, BluAllowed, OutboxStep
<1> QED BY <1>1, <1>3, OutboxInit, PTL DEF BluSpec, ImplementsOutbox, Spec

-----------------------------------------------------------------------------
(* Its own variables.                                                       *)
BluRecord == [id : Id, priority : Junk]
BListTyped == blist \in Seq(BluRecord) /\ Len(blist) <= MaxList
BluqTyped == bluq \in Seq(BluEvents) /\ Len(bluq) <= BLU_EVENT_MAX
BRestTyped == /\ bsn \in Id /\ blu_sn \in Id
              /\ cmd \in {"NULL", "DATA"} /\ rx \in Message \cup {"none"}
              /\ noack \in BOOLEAN /\ deaf \in BOOLEAN
BInv == BListTyped /\ BluqTyped /\ BRestTyped /\ BluNoStall

\* Something that will end the wait is queued.
Ends(q) == \E e \in ToSet(q) : e.ev \in {"NO_ACK", "SENT"}

LEMMA EndsQueued ==
    ASSUME NEW q \in Seq(BluEvents)
    PROVE  Ends(q) <=> \/ \E i \in 1..Len(q) : q[i].ev = "NO_ACK"
                       \/ \E i \in 1..Len(q) : q[i].ev = "SENT"
<1>1. DOMAIN q = 1..Len(q)
  OBVIOUS
<1>2. ToSet(q) = {q[i] : i \in 1..Len(q)}
  BY <1>1 DEF ToSet
<1> QED BY <1>2 DEF Ends

LEMMA BluPosted ==
    ASSUME NEW q \in Seq(BluEvents), Len(q) <= BLU_EVENT_MAX, NEW e \in BluEvents
    PROVE  /\ BluPost(q, e) \in Seq(BluEvents) /\ Len(BluPost(q, e)) <= BLU_EVENT_MAX
           /\ Ends(q) => Ends(BluPost(q, e))
           /\ Len(q) < BLU_EVENT_MAX /\ e.ev \in {"NO_ACK", "SENT"} => Ends(BluPost(q, e))
<1>1. BLU_EVENT_MAX \in Nat \ {0}
  BY BluAssumption
<1>2. CASE Len(q) < BLU_EVENT_MAX
  <2>1. BluPost(q, e) = Append(q, e)
    BY <1>2 DEF BluPost
  <2>2. Append(q, e) \in Seq(BluEvents) /\ Len(Append(q, e)) = Len(q) + 1
    OBVIOUS
  <2>3. ToSet(Append(q, e)) = ToSet(q) \cup {e}
    BY AppendSet
  <2> QED BY <1>1, <1>2, <2>1, <2>2, <2>3 DEF Ends
<1>3. CASE ~(Len(q) < BLU_EVENT_MAX)
  BY <1>1, <1>3 DEF BluPost
<1> QED BY <1>2, <1>3

\* The event taken leaves room for one more.
LEMMA BluTaken ==
    ASSUME BluqTyped, NEW ev, Taking(ev)
    PROVE  /\ Tail(bluq) \in Seq(BluEvents) /\ Len(Tail(bluq)) < BLU_EVENT_MAX
           /\ Len(Tail(bluq)) <= BLU_EVENT_MAX
           /\ Head(bluq) \in BluEvents /\ Head(bluq).ev = ev
           /\ ev \notin {"NO_ACK", "SENT"} => (Ends(bluq) => Ends(Tail(bluq)))
<1>1. bluq \in Seq(BluEvents) /\ bluq # <<>> /\ Len(bluq) <= BLU_EVENT_MAX /\ Head(bluq).ev = ev
  BY DEF BluqTyped, Taking
<1>2. BLU_EVENT_MAX \in Nat
  BY BluAssumption
<1>3. Tail(bluq) \in Seq(BluEvents) /\ Len(Tail(bluq)) = Len(bluq) - 1 /\ Head(bluq) \in BluEvents
  BY <1>1
<1>4. ToSet(bluq) = ToSet(Tail(bluq)) \cup {Head(bluq)}
  BY <1>1, TailSet
<1> QED BY <1>1, <1>2, <1>3, <1>4 DEF Ends

LEMMA BListAdded ==
    ASSUME BListTyped, Len(blist) < MaxList, bsn \in Id, blist' \in BluListAdd(blist, NextSn(bsn))
    PROVE  BListTyped' /\ blist' # <<>> /\ Head(blist').id \in Id
<1>1. PICK p \in Junk : blist' = ListAdd(blist, Entry(NextSn(bsn), p))
  BY DEF BluListAdd
<1>2. Entry(NextSn(bsn), p) \in BluRecord /\ blist \in Seq(BluRecord)
  BY NextSnType DEF Entry, BluRecord, BListTyped
<1>3. blist' \in Seq(BluRecord) /\ Len(blist') \in 1..Len(blist) + 1
  BY <1>1, <1>2, ListAddType
<1>4. Len(blist) \in Nat /\ MaxList \in Nat /\ Len(blist') <= MaxList
  BY <1>2, <1>3, BluAssumption DEF BListTyped
<1>5. blist' # <<>> /\ Head(blist') \in BluRecord
  BY <1>3
<1> QED BY <1>3, <1>4, <1>5 DEF BListTyped, BluRecord

\* What box_blu_send leaves: a frame with the phone, or nobody waits.
LEMMA BluSends ==
    ASSUME BRestTyped, NEW l \in Seq(BluRecord), NEW q \in Seq(BluEvents), Len(q) <= BLU_EVENT_MAX,
           BoxBluSend(l, q, FALSE), rx' = rx
    PROVE  BRestTyped' /\ BluqTyped' /\ (blu_is_sending' => noack')
<1>1. CASE l = <<>>
  <2>1. /\ blu_is_sending' = FALSE /\ bsn' = 0 /\ noack' = FALSE /\ bluq' = q
        /\ UNCHANGED <<blu_sn, cmd, deaf>>
    BY <1>1 DEF BoxBluSend
  <2>2. 0 \in Id
    BY ListAssumption DEF Id
  <2>3. BRestTyped'
    BY <2>1, <2>2 DEF BRestTyped
  <2> QED BY <2>1, <2>3 DEF BluqTyped
<1>2. CASE l # <<>>
  <2>1. Head(l) \in BluRecord
    BY <1>2
  <2>2. Head(l).id \in Id /\ bsn' = Head(l).id
    BY <1>2, <2>1 DEF BoxBluSend, BluRecord
  <2>3. CASE NotConnected(Head(l).id, q)
    <3>1. BluEvent("NO_ACK") \in BluEvents
      BY DEF BluEvent, BluEvents
    <3>2. bluq' = BluPost(q, BluEvent("NO_ACK")) /\ blu_is_sending' = FALSE
      BY <2>3 DEF NotConnected
    <3>3. BluqTyped'
      BY <3>1, <3>2, BluPosted DEF BluqTyped
    <3>4. BRestTyped'
      BY <2>2, <2>3 DEF NotConnected, BRestTyped
    <3> QED BY <3>2, <3>3, <3>4
  <2>4. CASE Transmit(Head(l).id) /\ bluq' = q
    BY <2>2, <2>4 DEF Transmit, BRestTyped, BluqTyped
  <2> QED BY <1>2, <2>3, <2>4 DEF BoxBluSend
<1> QED BY <1>1, <1>2

LEMMA BluInitInv == BluInit => BInv
<1> SUFFICES ASSUME BluInit PROVE BInv
  OBVIOUS
<1>1. <<>> \in Seq(BluRecord) /\ <<>> \in Seq(BluEvents) /\ Len(<<>>) = 0
  OBVIOUS
<1>2. blu_is_sending = FALSE
  BY DEF BluInit, Init
<1>3. 0 \in Id
  BY ListAssumption DEF Id
<1>4. blist = <<>> /\ bluq = <<>> /\ Len(<<>>) <= MaxList /\ Len(<<>>) <= BLU_EVENT_MAX
  BY <1>1, BluAssumption DEF BluInit
<1>5. BListTyped /\ BluqTyped
  BY <1>1, <1>4 DEF BListTyped, BluqTyped
<1>6. BRestTyped
  BY <1>3 DEF BluInit, BRestTyped
<1> QED BY <1>2, <1>5, <1>6 DEF BInv, BluNoStall

\* The queue only grows, or loses an event nobody waits for.
LEMMA BluKept ==
    ASSUME BInv, BListTyped', BluqTyped', BRestTyped', Ends(bluq) => Ends(bluq'),
           UNCHANGED <<blu_is_sending, noack>>, deaf => deaf'
    PROVE  BInv'
<1>1. /\ blu_is_sending => noack \/ Ends(bluq) \/ deaf
      /\ bluq' \in Seq(BluEvents)
  BY EndsQueued DEF BInv, BluNoStall, BluqTyped, Queued
<1>2. blu_is_sending' => noack' \/ Ends(bluq') \/ deaf'
  BY <1>1
<1>3. Ends(bluq') <=> Queued("NO_ACK")' \/ Queued("SENT")'
  BY <1>1, EndsQueued DEF Queued
<1> QED BY <1>2, <1>3 DEF BInv, BluNoStall

LEMMA BluEnded ==
    ASSUME BListTyped', BluqTyped', BRestTyped', blu_is_sending' => noack' \/ Ends(bluq') \/ deaf'
    PROVE  BInv'
<1>1. Ends(bluq') <=> Queued("NO_ACK")' \/ Queued("SENT")'
  BY EndsQueued DEF BluqTyped, Queued
<1> QED BY <1>1 DEF BInv, BluNoStall

LEMMA BluAppStep == BInv /\ (AppBluRequest \/ AppBluTransmit) => BInv'
<1> SUFFICES ASSUME BInv, AppBluRequest \/ AppBluTransmit PROVE BInv'
  OBVIOUS
<1> USE DEF BInv
<1>1. CASE AppBluRequest
  <2>1. NextSn(bsn) \in Id /\ bsn \in Id
    BY NextSnType DEF BRestTyped
  <2>2. BListTyped' /\ Head(blist').id \in Id
    BY <1>1, <2>1, BListAdded DEF AppBluRequest
  <2>3. rx' = rx
    BY <1>1 DEF AppBluRequest
  <2>4. CASE UNCHANGED <<blu_is_sending, blu_sn, cmd, noack, deaf, bluq>>
    <3>1. bsn' \in Id
      BY <1>1, <2>1, <2>2 DEF AppBluRequest
    <3>2. BRestTyped' /\ BluqTyped'
      BY <2>3, <2>4, <3>1 DEF BRestTyped, BluqTyped
    <3> QED BY <2>2, <2>4, <3>2, BluKept
  <2>5. CASE ~blu_is_sending /\ NotConnected(Head(blist').id, bluq)
    <3>1. BluEvent("NO_ACK") \in BluEvents
      BY DEF BluEvent, BluEvents
    <3>2. BluqTyped' /\ blu_is_sending' = FALSE
      BY <2>5, <3>1, BluPosted DEF NotConnected, BluqTyped
    <3>3. bsn' = Head(blist').id
      BY <1>1, <2>5 DEF AppBluRequest
    <3>4. BRestTyped'
      BY <2>2, <2>3, <2>5, <3>3 DEF BRestTyped, NotConnected
    <3> QED BY <2>2, <3>2, <3>4, BluEnded
  <2> QED BY <1>1, <2>4, <2>5 DEF AppBluRequest
<1>2. CASE AppBluTransmit
  <2>1. Transmit(bsn) /\ UNCHANGED <<blist, bsn, rx, bluq>>
    BY <1>2 DEF AppBluTransmit
  <2>2. BRestTyped' /\ BluqTyped' /\ BListTyped' /\ noack'
    BY <2>1 DEF BRestTyped, BluqTyped, BListTyped, Transmit
  <2> QED BY <2>2, BluEnded
<1> QED BY <1>1, <1>2

\* The handlers that run box_blu_send.
LEMMA BluSendStep == BInv /\ (BluSentEvent \/ BluNoLockEvent) => BInv'
<1> SUFFICES ASSUME BInv, BluSentEvent \/ BluNoLockEvent PROVE BInv'
  OBVIOUS
<1> USE DEF BInv
<1>1. CASE BluSentEvent
  <2>1. Tail(bluq) \in Seq(BluEvents) /\ Len(Tail(bluq)) <= BLU_EVENT_MAX /\ rx' = rx
    BY <1>1, BluTaken DEF BluSentEvent
  <2>2. blist' \in Seq(BluRecord) /\ Len(blist') <= Len(blist)
    BY <1>1, ListSentType DEF BluSentEvent, BListTyped
  <2>3. BListTyped'
    <3>1. Len(blist) \in Nat /\ Len(blist') \in Nat /\ MaxList \in Nat /\ Len(blist) <= MaxList
      BY <2>2, BluAssumption DEF BListTyped
    <3> QED BY <2>2, <3>1 DEF BListTyped
  <2>4. BRestTyped' /\ BluqTyped' /\ (blu_is_sending' => noack')
    BY <1>1, <2>1, <2>2, BluSends DEF BluSentEvent
  <2> QED BY <2>3, <2>4, BluEnded
<1>2. CASE BluNoLockEvent
  <2>1. /\ Tail(bluq) \in Seq(BluEvents) /\ Len(Tail(bluq)) <= BLU_EVENT_MAX /\ rx' = rx
        /\ Ends(bluq) => Ends(Tail(bluq))
    BY <1>2, BluTaken DEF BluNoLockEvent
  <2>2. NextSn(bsn) \in Id
    BY NextSnType DEF BRestTyped
  <2>3. BListTyped'
    BY <1>2, BListAdded DEF BluNoLockEvent, BRestTyped
  <2>4. CASE blu_is_sending
    <3>1. bsn' = NextSn(bsn) /\ bluq' = Tail(bluq) /\ UNCHANGED <<blu_is_sending, blu_sn, cmd, noack, deaf>>
      BY <1>2, <2>4 DEF BluNoLockEvent
    <3>2. BRestTyped' /\ BluqTyped'
      BY <2>1, <2>2, <3>1 DEF BRestTyped, BluqTyped
    <3> QED BY <2>1, <2>3, <3>1, <3>2, BluKept
  <2>5. CASE ~blu_is_sending
    <3>1. BoxBluSend(blist', Tail(bluq), FALSE)
      BY <1>2, <2>5 DEF BluNoLockEvent
    <3>2. blist' \in Seq(BluRecord)
      BY <2>3 DEF BListTyped
    <3>3. BRestTyped' /\ BluqTyped' /\ (blu_is_sending' => noack')
      BY <2>1, <3>1, <3>2, BluSends
    <3> QED BY <2>3, <3>3, BluEnded
  <2> QED BY <2>4, <2>5
<1> QED BY <1>1, <1>2

\* The handlers that end the sending or lose its end.
LEMMA BluHearStep == BInv /\ (BluNoAckEvent \/ BluUartIgnored \/ BluAck \/ BluNack \/ BluOther) => BInv'
<1> SUFFICES ASSUME BInv, BluNoAckEvent \/ BluUartIgnored \/ BluAck \/ BluNack \/ BluOther PROVE BInv'
  OBVIOUS
<1> USE DEF BInv
<1>0. UNCHANGED <<blist, bsn, blu_is_sending>> /\ 0 \in Id
  BY ListAssumption DEF BluNoAckEvent, BluUartIgnored, BluAck, BluNack, BluOther, Id
<1>1. BListTyped'
  BY <1>0 DEF BListTyped
<1>2. CASE BluNoAckEvent \/ BluAck
  <2>1. /\ bluq' = BluPost(Tail(bluq), BluSent(blu_sn)) /\ noack' = FALSE
        /\ blu_sn' = 0 /\ cmd' = "NULL" /\ rx' = "none" /\ deaf' = deaf
    BY <1>2 DEF BluNoAckEvent, BluAck, Heard
  <2>2. Tail(bluq) \in Seq(BluEvents) /\ Len(Tail(bluq)) < BLU_EVENT_MAX /\ Len(Tail(bluq)) <= BLU_EVENT_MAX
    BY <1>2, BluTaken DEF BluNoAckEvent, BluAck, Heard
  <2>3. BluSent(blu_sn) \in BluEvents /\ BluSent(blu_sn).ev = "SENT"
    BY DEF BluSent, BluEvents, BRestTyped
  <2>4. BluqTyped' /\ Ends(bluq')
    BY <2>1, <2>2, <2>3, BluPosted DEF BluqTyped
  <2>5. BRestTyped'
    BY <1>0, <2>1 DEF BRestTyped
  <2> QED BY <1>1, <2>4, <2>5, BluEnded
<1>3. CASE BluUartIgnored
  <2>1. bluq' = Tail(bluq) /\ rx' = "none" /\ blu_sn' \in {0, blu_sn} /\ UNCHANGED <<cmd, noack, deaf>>
    BY <1>3 DEF BluUartIgnored
  <2>2. BluqTyped' /\ (Ends(bluq) => Ends(bluq'))
    BY <1>3, <2>1, BluTaken DEF BluUartIgnored, BluqTyped
  <2>3. BRestTyped'
    BY <1>0, <2>1 DEF BRestTyped
  <2> QED BY <1>0, <1>1, <2>1, <2>2, <2>3, BluKept
<1>4. CASE BluNack \/ BluOther
  <2>1. bluq' = Tail(bluq) /\ rx' \in {"none", rx} /\ noack' = FALSE /\ deaf' = TRUE /\ UNCHANGED <<blu_sn, cmd>>
    BY <1>4 DEF BluNack, BluOther, Heard
  <2>2. BluqTyped'
    BY <1>4, <2>1, BluTaken DEF BluNack, BluOther, Heard, BluqTyped
  <2>3. BRestTyped'
    BY <1>0, <2>1 DEF BRestTyped
  <2> QED BY <1>1, <2>1, <2>2, <2>3, BluEnded
<1> QED BY <1>2, <1>3, <1>4

\* The timers, the phone, and the steps of the others.
LEMMA BluWorldStep ==
    ASSUME BInv, \/ Below \/ NoAckTimer \/ NoLockTimer \/ \E m \in Message : PhoneSends(m)
                 \/ \E kind \in Kinds : Request(kind) /\ UNCHANGED blu
                 \/ UNCHANGED bluvars
    PROVE  BInv'
<1> USE DEF BInv, vars
<1>0. bluq \in Seq(BluEvents) /\ Len(bluq) <= BLU_EVENT_MAX /\ Len(bluq) \in Nat /\ BLU_EVENT_MAX \in Nat
  BY BluAssumption DEF BluqTyped
<1>1. CASE Below \/ (\E kind \in Kinds : Request(kind) /\ UNCHANGED blu) \/ UNCHANGED bluvars
  <2>1. UNCHANGED blu /\ blu_is_sending' = blu_is_sending
    BY <1>1 DEF Below, HandleRequest, HandleResult, AppAdd, AppSend, AppPut, AppMark, Complete, Request, bluvars
  <2>2. UNCHANGED <<blist, bsn, blu_sn, cmd, rx, bluq, noack, deaf>>
    BY <2>1 DEF blu
  <2>3. BListTyped' /\ BluqTyped' /\ BRestTyped'
    BY <2>2 DEF BListTyped, BluqTyped, BRestTyped
  <2> QED BY <2>1, <2>2, <2>3, BluKept
<1>2. CASE NoAckTimer
  <2>1. /\ bluq' = BluPost(bluq, BluEvent("NO_ACK")) /\ noack' = FALSE
        /\ deaf' = (deaf \/ Len(bluq) >= BLU_EVENT_MAX)
        /\ UNCHANGED <<blist, bsn, blu_sn, cmd, rx>>
    BY <1>2 DEF NoAckTimer
  <2>2. BluEvent("NO_ACK") \in BluEvents /\ BluEvent("NO_ACK").ev = "NO_ACK"
    BY DEF BluEvent, BluEvents
  <2>3. BluqTyped'
    BY <1>0, <2>1, <2>2, BluPosted DEF BluqTyped
  <2>4. deaf' \/ Ends(bluq')
    <3>1. Len(bluq) < BLU_EVENT_MAX \/ Len(bluq) >= BLU_EVENT_MAX
      BY <1>0
    <3>2. CASE Len(bluq) < BLU_EVENT_MAX
      BY <1>0, <2>1, <2>2, <3>2, BluPosted
    <3> QED BY <2>1, <3>1, <3>2
  <2>5. BListTyped' /\ BRestTyped'
    BY <2>1 DEF BListTyped, BRestTyped
  <2> QED BY <2>3, <2>4, <2>5, BluEnded
<1>3. CASE NoLockTimer \/ \E m \in Message : PhoneSends(m)
  <2>1. PICK e \in BluEvents : bluq' = BluPost(bluq, e)
    <3>1. BluEvent("NO_LOCK") \in BluEvents /\ BluEvent("UART") \in BluEvents
      BY DEF BluEvent, BluEvents
    <3> QED BY <1>3, <3>1 DEF NoLockTimer, PhoneSends
  <2>2. BluqTyped' /\ (Ends(bluq) => Ends(bluq'))
    BY <1>0, <2>1, BluPosted DEF BluqTyped
  <2>3. UNCHANGED <<blist, bsn, blu_sn, noack, deaf, blu_is_sending>>
    BY <1>3 DEF NoLockTimer, PhoneSends
  <2>4. cmd' \in {"NULL", "DATA"} /\ rx' \in Message \cup {"none"}
    BY <1>3 DEF NoLockTimer, PhoneSends, BRestTyped
  <2>5. BListTyped' /\ BRestTyped'
    BY <2>3, <2>4 DEF BListTyped, BRestTyped
  <2> QED BY <2>2, <2>3, <2>5, BluKept
<1> QED BY <1>1, <1>2, <1>3

LEMMA BluInvariant == BluSpec => []BInv
<1>1. BInv /\ [BluNext]_bluvars => BInv'
  BY BluAppStep, BluSendStep, BluHearStep, BluWorldStep DEF BluNext, BluTaskStep
<1> QED BY <1>1, BluInitInv, PTL DEF BluSpec

\* The variables of both sides have their types whatever bluetooth does.
THEOREM BluTyped == BluSpec => []BluTypeOK
<1>1. OInv /\ BInv => BluTypeOK
  <2> SUFFICES ASSUME OInv, BInv PROVE BluTypeOK
    OBVIOUS
  <2>1. TypeOK
    BY DEF OInv
  <2>2. blist \in Seq([id : Id, priority : Junk]) /\ Len(blist) <= MaxList
    BY DEF BInv, BListTyped, BluRecord
  <2>3. bluq \in Seq(BluEvents) /\ Len(bluq) <= BLU_EVENT_MAX
    BY DEF BInv, BluqTyped
  <2>4. /\ bsn \in Id /\ blu_sn \in Id /\ cmd \in {"NULL", "DATA"} /\ rx \in Message \cup {"none"}
        /\ {noack, deaf} \subseteq BOOLEAN
    BY DEF BInv, BRestTyped
  <2> QED BY <2>1, <2>2, <2>3, <2>4 DEF BluTypeOK
<1> QED BY <1>1, BluInvariant, BluImplementsOutbox, OutboxInvariant, PTL DEF ImplementsOutbox

\* While a frame is with the phone its timer or an event under way ends the wait,
\* unless a message that was not the ack had the timer stopped, or the timer's event
\* was dropped by a full queue (blu_tx.c, app_send.c).
THEOREM BluNeverStalls == BluSpec => []BluNoStall
<1>1. BInv => BluNoStall
  BY DEF BInv
<1> QED BY <1>1, BluInvariant, PTL

\* And box_send waits for nobody with the bluetooth side in full detail.
THEOREM BluOutboxNeverStalls == BluSpec => []NoStall
<1> QED BY BluImplementsOutbox, OutboxNeverStalls, PTL DEF ImplementsOutbox

\* Its list is a first-in first-out queue with the bluetooth side too, under the
\* same condition on the numbers.
THEOREM BluOutboxIsQueue == ASSUME ListSize < SN_MAX PROVE BluSpec /\ []FreshNumber => ImplementsFifo
<1>1. Spec /\ []FreshNumber => ImplementsFifo
  BY OutboxIsQueue
<1> QED BY <1>1, BluImplementsOutbox, PTL DEF ImplementsOutbox

\* And without it for the first 65535 frames.
THEOREM BluFirstRoundIsQueue == ASSUME MaxSn <= SN_MAX PROVE BluSpec => ImplementsFifo
<1>1. Spec => ImplementsFifo
  BY FirstRoundIsQueue
<1> QED BY <1>1, BluImplementsOutbox, PTL DEF ImplementsOutbox
==============================================================================
