----------------------------- MODULE BranchPred -----------------------------
(***************************************************************************)
(* The branch predictors of cpu/branch_pred.cpp that keep a table:         *)
(* branch_pred_take_all_t and branch_pred_hist_tb_t, which differ in the   *)
(* counter only.  The entries are an array of records whose pointers are   *)
(* in one of two lists, the table in the order of use and the supply of    *)
(* unused entries; a hash of slots of the first list shortens the search.  *)
(*                                                                         *)
(* Abstraction.  The statistics are left out.  The program builds the      *)
(* predictor for one processor and has no caller of flush; the class is    *)
(* written for several, and is modelled for them.                          *)
(***************************************************************************)
EXTENDS StaticList

CONSTANTS
    Processors,   \* the virtual processors that share the predictor
    Addrs,        \* addresses of the last bytes of branches
    Targets,      \* their targets
    HashSize      \* pt, the number of cells of the hash

ASSUME PredictorAssumption ==
    /\ Addrs \subseteq Nat
    /\ HashSize \in Nat \ {0}
    /\ NoData \notin 1 .. Capacity   \* no entry is at NULL

VARIABLES
    history,      \* TRUE for hist_tb, FALSE for take_all
    entries,      \* the array of branch_pred_take_all_el_t
    list,         \* the table, most recently updated first
    supplier,     \* list_supplier
    hash          \* slots of list

predictorVars == <<history, entries, list, supplier, hash>>

Pointers == 1 .. Capacity
Counts == -1 .. 1
NoEntry == [proc |-> NoData, addr |-> 0, target |-> NoData, count |-> 0]
Cells == 0 .. HashSize - 1

PredictorInit ==
    /\ history \in BOOLEAN
    /\ entries = [d \in Pointers |-> NoEntry]
    /\ list = EmptyList
    /\ supplier = LET fill[d \in 0 .. Capacity] ==
                          IF d = 0 THEN EmptyList ELSE AddEnd(fill[d - 1], d)
                  IN  fill[Capacity]
    /\ hash = [c \in Cells |-> EndOfList]

-----------------------------------------------------------------------------
Cell(a) == a % HashSize

IsEntry(d, p, a) == entries[d].proc = p /\ entries[d].addr = a

\* MUTANT: the processor is not compared.
HashHitOfAny(p, a) ==
    /\ hash[Cell(a)] # EndOfList
    /\ entries[list.data[hash[Cell(a)]]].addr = a

HashHit(p, a) ==
    /\ hash[Cell(a)] # EndOfList
    /\ IsEntry(list.data[hash[Cell(a)]], p, a)

\* The hash cell if it holds the entry, else the first match in the list.
Search(p, a) ==
    LET walk == Walk(list)
        found == {k \in DOMAIN walk : IsEntry(list.data[walk[k]], p, a)}
    IN  IF HashHit(p, a) THEN hash[Cell(a)]
        ELSE IF found = {} THEN EndOfList
        ELSE walk[CHOOSE k \in found : \A j \in found : k <= j]

\* MUTANT: the counter does not saturate.
CountedOn(old, known, taken) ==
    IF ~history THEN 0
    ELSE IF ~known THEN IF taken THEN 0 ELSE -1
    ELSE IF taken THEN old + 1 ELSE old - 1

\* Of the counter: saturated, or set when the entry is new.
Counted(old, known, taken) ==
    LET next == IF taken THEN old + 1 ELSE old - 1 IN
    IF ~history THEN 0
    ELSE IF ~known THEN IF taken THEN 0 ELSE -1
    ELSE IF next > 1 THEN 1 ELSE IF next < -1 THEN -1 ELSE next

\* The entry becomes the first of the table and its hash cell points to it.
PutFirst(d, known, l, p, a, t, taken) ==
    /\ list' = Settled(l)
    /\ entries' = [entries EXCEPT ![d] =
           [proc |-> p, addr |-> a, target |-> t,
            count |-> Counted(entries[d].count, known, taken)]]
    /\ hash' = [hash EXCEPT ![Cell(a)] = l.begin]

AddKnown(p, a, t, taken) ==
    LET el == Search(p, a) IN
    /\ el # EndOfList
    /\ PutFirst(list.data[el], TRUE, MoveToInit(list, el), p, a, t, taken)
    /\ UNCHANGED supplier

AddFromSupply(p, a, t, taken) ==
    LET d == supplier.data[GetFirst(supplier)] IN
    /\ Search(p, a) = EndOfList
    /\ supplier.n > 0
    /\ supplier' = Settled(DelFirst(supplier))
    /\ PutFirst(d, FALSE, AddBeginning(list, d), p, a, t, taken)

AddBySubstitution(p, a, t, taken) ==
    LET d == list.data[GetLast(list)] IN
    /\ Search(p, a) = EndOfList
    /\ supplier.n = 0
    /\ PutFirst(d, FALSE, AddBeginning(DelLast(list), d), p, a, t, taken)
    /\ UNCHANGED supplier

\* A branch commits, or writes back, and warns the predictor.
AddEntry(p, a, t, taken) ==
    /\ \/ AddKnown(p, a, t, taken)
       \/ AddFromSupply(p, a, t, taken)
       \/ AddBySubstitution(p, a, t, taken)
    /\ UNCHANGED history

(***************************************************************************)
(* The loop of flush: it asks a deleted element for its successor, so it   *)
(* follows links that the deletion has left behind.  A pass is the pair    *)
(* of lists and the element the loop is at.                                *)
(***************************************************************************)
FlushStep(pass, p) ==
    LET d == pass.list.data[pass.at]
        mine == entries[d].proc = p
        l == IF mine THEN Del(pass.list, pass.at) ELSE pass.list
    IN  [list |-> l, at |-> GetNext(l, pass.at),
         supplier |-> IF mine THEN AddEnd(pass.supplier, d)
                      ELSE pass.supplier]

\* MUTANT: the hash is not cleared.
FlushKeepsHash(p) ==
    LET pass[k \in 0 .. Capacity] ==
            IF k = 0 THEN [list |-> list, supplier |-> supplier,
                           at |-> GetFirst(list)]
            ELSE LET before == pass[k - 1]
                 IN  IF before.at = EndOfList THEN before
                     ELSE FlushStep(before, p)
    IN  /\ list' = Settled(pass[Capacity].list)
        /\ supplier' = Settled(pass[Capacity].supplier)
        /\ UNCHANGED <<history, entries, hash>>

Flush(p) ==
    LET pass[k \in 0 .. Capacity] ==
            IF k = 0 THEN [list |-> list, supplier |-> supplier,
                           at |-> GetFirst(list)]
            ELSE LET before == pass[k - 1]
                 IN  IF before.at = EndOfList THEN before
                     ELSE FlushStep(before, p)
    IN  /\ list' = Settled(pass[Capacity].list)
        /\ supplier' = Settled(pass[Capacity].supplier)
        /\ hash' = [c \in Cells |-> EndOfList]
        /\ UNCHANGED <<history, entries>>

\* check: what the fetch is told about the byte at a.
Check(p, a) ==
    LET el == Search(p, a) IN
    IF el = EndOfList THEN [branch |-> FALSE]
    ELSE LET e == entries[list.data[el]]
         IN  [branch |-> TRUE, take |-> ~history \/ e.count >= 0,
              target |-> e.target]

PredictorNext ==
    \E p \in Processors :
        \/ Flush(p)
        \/ \E a \in Addrs, t \in Targets, taken \in BOOLEAN :
               AddEntry(p, a, t, taken)

PredictorSpec == PredictorInit /\ [][PredictorNext]_predictorVars

-----------------------------------------------------------------------------
\* Entries, lists and hash hold what their declarations allow.
PredictorTypeOK ==
    /\ history \in BOOLEAN
    /\ entries \in [Pointers ->
           [proc : Processors \cup {NoData}, addr : Addrs \cup {0},
            target : Targets \cup {NoData}, count : Counts]]
    /\ list \in ListType(Pointers)
    /\ supplier \in ListType(Pointers)
    /\ hash \in [Cells -> Links]

\* A hash cell is dereferenced without a test of its payload: the slot it
\* points to always holds an element of the table, however often slots were
\* freed, reused or moved since the cell was written (branch_pred.cpp:190).
HashPointsToElements ==
    \A c \in Cells : hash[c] # EndOfList => list.data[hash[c]] # NoData

LruOrder ==
    LET c == Contents(list) IN [k \in DOMAIN c |-> entries[c[k]]]

Table == INSTANCE LruTable WITH
    Size <- Capacity,
    table <- LruOrder

\* Through stale hash cells, recycled elements and whatever order of slots,
\* a search finds the entry of the branch if the table has it and no other
\* (branch_pred.cpp:181).
CheckIsLookup ==
    LET now == LruOrder IN
    \A p \in Processors, a \in Addrs :
        Check(p, a) = Table!Prediction(now, p, a)

\* The two lists and the array behave as one table with the least recently
\* updated entry dropped first, one entry per branch, none lost by a flush
\* that deletes the elements it iterates over (branch_pred.cpp:104).
ImplementsLru == Table!TableSpec
=============================================================================
