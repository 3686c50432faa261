------------------------------- MODULE SendList -------------------------------
(***************************************************************************)
(* The lists of frames waiting to be sent (app_send_list.c) and the         *)
(* operations app_send.c builds on them.  A list is a sequence of records   *)
(* with the frame's serial number and its priority; the status of an entry  *)
(* is WAITING always, and allowed_send_times and need_ack decide nothing.   *)
(***************************************************************************)
EXTENDS Naturals, Sequences, SequencesExt

CONSTANTS
    ListSize,     \* box_send_list_size, 15 in box_send_init
    SN_MAX        \* 0xffff, the largest serial number

ASSUME ListAssumption == ListSize \in Nat \ {0} /\ SN_MAX \in Nat \ {0}

LOW  == 0
HIGH == 1

Entry(id, priority) == [id |-> id, priority |-> priority]
Ids(list) == {list[i].id : i \in 1..Len(list)}

\* Faulty: the largest number is not looked for.
NextSnEndless(sn) == sn + 1

NextSn(sn) == IF sn \in {0, SN_MAX} THEN 1 ELSE sn + 1

\* An entry is found by its place; 0 stands for NULL.
FindId(list, id)      == SelectInSeq(list, LAMBDA obj : obj.id = id)
FindPriority(list, p) == SelectInSeq(list, LAMBDA obj : obj.priority = p)
RemoveObj(list, i)    == IF i = 0 THEN list ELSE RemoveAt(list, i)

\* Before the first entry of lower priority, else at the end.
Insert(list, obj) ==
    LET next == SelectInSeq(list, LAMBDA other : obj.priority > other.priority)
    IN  IF next = 0 THEN Append(list, obj) ELSE InsertAt(list, next, obj)

\* A full list gives up its first entry of LOW priority, else of HIGH.
MakeRoom(list) ==
    LET low == FindPriority(list, LOW)
    IN  IF Len(list) # ListSize THEN list
        ELSE RemoveObj(list, IF low # 0 THEN low ELSE FindPriority(list, HIGH))

ListAdd(list, obj) == Insert(MakeRoom(list), obj)

\* Faulty: the entry goes whatever the result.
ListSentAlways(list, id, ok) == RemoveObj(list, FindId(list, id))

\* A frame that was sent leaves the list, one that was not waits again.
ListSent(list, id, ok) == IF ok THEN RemoveObj(list, FindId(list, id)) ELSE list
=============================================================================
