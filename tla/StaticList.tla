----------------------------- MODULE StaticList -----------------------------
(***************************************************************************)
(* data_dblinked_static_list (data/double_linked_static.h): a doubly       *)
(* linked list in an array of slots.  A list is a record: the payload      *)
(* pointer and the links of every slot, the two ends, the chain of free    *)
(* slots, and the number of elements.  Operations are operators from a     *)
(* list to a list.  An element is the slot it is in.                       *)
(*                                                                         *)
(* Abstractions.  The chain of free slots, linked by next_empty from       *)
(* empty, is the sequence of the slots it visits.  A deletion leaves the   *)
(* links of its slot behind; Settled forgets them where no loop over the   *)
(* list is under way, because an insertion writes both before a read.      *)
(***************************************************************************)
EXTENDS Integers, Sequences

CONSTANTS
    Capacity,  \* set_list_size
    NoData     \* the payload of a slot that holds no element

ASSUME CapacityAssumption == Capacity \in Nat \ {0}

Slots == 0 .. Capacity - 1
EndOfList == -1
Links == Slots \cup {EndOfList}

(***************************************************************************)
(* A list whose payloads are in Data.                                      *)
(***************************************************************************)
ListType(Data) ==
    [data : [Slots -> Data \cup {NoData}],
     prev : [Slots -> Links], next : [Slots -> Links],
     begin : Links, end : Links, n : 0 .. Capacity,
     empty : UNION {[1 .. k -> Slots] : k \in 0 .. Capacity}]

\* All slots free, chained in the order of the array.
FreeChain == [k \in 1 .. Capacity |-> k - 1]

EmptyList ==
    [data |-> [i \in Slots |-> NoData],
     prev |-> [i \in Slots |-> EndOfList],
     next |-> [i \in Slots |-> EndOfList],
     begin |-> EndOfList, end |-> EndOfList, n |-> 0, empty |-> FreeChain]

GetFirst(l) == IF l.n = 0 THEN EndOfList ELSE l.begin
GetLast(l) == IF l.n = 0 THEN EndOfList ELSE l.end
GetNext(l, i) == l.next[i]

-----------------------------------------------------------------------------
\* The slot add_end and add_beginning use; an empty list starts in slot 0.
AddedSlot(l) == IF l.n = 0 THEN 0 ELSE Head(l.empty)

\* What both insertions do when the list is empty.
AddOnly(l, d) ==
    [l EXCEPT !.data[0] = d, !.prev[0] = EndOfList, !.next[0] = EndOfList,
              !.begin = 0, !.end = 0, !.empty = Tail(@), !.n = 1]

\* The list is unchanged when it has no free slot.
AddEnd(l, d) ==
    IF l.empty = <<>> THEN l
    ELSE IF l.n = 0 THEN AddOnly(l, d)
    ELSE LET i == AddedSlot(l) IN
         [l EXCEPT !.data[i] = d, !.prev[i] = l.end,
                   !.next = [@ EXCEPT ![i] = EndOfList, ![l.end] = i],
                   !.end = i, !.empty = Tail(@), !.n = @ + 1]

AddBeginning(l, d) ==
    IF l.empty = <<>> THEN l
    ELSE IF l.n = 0 THEN AddOnly(l, d)
    ELSE LET i == AddedSlot(l) IN
         [l EXCEPT !.data[i] = d, !.next[i] = l.begin,
                   !.prev = [@ EXCEPT ![i] = EndOfList, ![l.begin] = i],
                   !.begin = i, !.empty = Tail(@), !.n = @ + 1]

-----------------------------------------------------------------------------
\* MUTANT: the slot forgets its successor.
FreedUnlinked(l, i) ==
    [l EXCEPT !.empty = <<i>> \o @, !.data[i] = NoData, !.n = @ - 1,
              !.next[i] = EndOfList]

\* The slot returns to the head of the free chain.
Freed(l, i) ==
    [l EXCEPT !.empty = <<i>> \o @, !.data[i] = NoData, !.n = @ - 1]

\* The links of the deleted slot itself are left as they are.
Del(l, i) ==
    IF i = l.begin /\ i = l.end
    THEN [l EXCEPT !.begin = EndOfList, !.end = EndOfList,
                   !.empty = FreeChain, !.data[i] = NoData, !.n = @ - 1]
    ELSE IF i = l.begin
    THEN Freed([l EXCEPT !.begin = l.next[i],
                         !.prev[l.next[i]] = EndOfList], i)
    ELSE IF i = l.end
    THEN Freed([l EXCEPT !.end = l.prev[i],
                         !.next[l.prev[i]] = EndOfList], i)
    ELSE Freed([l EXCEPT !.next[l.prev[i]] = l.next[i],
                         !.prev[l.next[i]] = l.prev[i]], i)

DelFirst(l) == Del(l, l.begin)
DelLast(l) == Del(l, l.end)

Settled(l) ==
    LET free(i) == l.data[i] = NoData IN
    [l EXCEPT !.prev = [i \in Slots |-> IF free(i) THEN EndOfList ELSE @[i]],
              !.next = [i \in Slots |-> IF free(i) THEN EndOfList ELSE @[i]]]

MoveToInit(l, i) == AddBeginning(Del(l, i), l.data[i])

-----------------------------------------------------------------------------
(***************************************************************************)
(* A loop over the list with get_first and get_next: the slots it visits,  *)
(* and the sequence of payloads the list stands for.                       *)
(***************************************************************************)
Walk(l) ==
    LET after == [i \in Links |-> IF i = EndOfList THEN EndOfList
                                  ELSE GetNext(l, i)]
        at[k \in 1 .. Capacity] ==
            IF k = 1 THEN GetFirst(l) ELSE after[at[k - 1]]
    IN  [k \in {j \in 1 .. Capacity : at[j] # EndOfList} |-> at[k]]

Contents(l) == LET w == Walk(l) IN [k \in 1 .. Len(w) |-> l.data[w[k]]]
=============================================================================
