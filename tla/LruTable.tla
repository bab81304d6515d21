------------------------------ MODULE LruTable ------------------------------
(***************************************************************************)
(* What a branch predictor promises: a bounded table with one entry per    *)
(* branch and processor, the one updated last in front.  A full table      *)
(* forgets the entry that was not updated for the longest time.  An entry  *)
(* of a table with history leans towards the outcomes seen last.           *)
(***************************************************************************)
EXTENDS Sequences, Integers

CONSTANTS
    Size,          \* entries of the table
    Processors,
    Addrs,         \* addresses of branches
    Targets        \* addresses they may go to

VARIABLES
    history,       \* whether the table counts outcomes
    table

Known(tab, p, a) ==
    {k \in DOMAIN tab : tab[k].proc = p /\ tab[k].addr = a}

\* The entries at the positions in places, in their order.
Kept(tab, places) ==
    LET kept[k \in 0 .. Len(tab)] ==
            IF k = 0 THEN <<>>
            ELSE IF k \in places THEN Append(kept[k - 1], tab[k])
            ELSE kept[k - 1]
    IN  kept[Len(tab)]

\* Two steps away from a sure answer, one when the branch is new.
Leaning(tab, p, a, taken) ==
    LET old == {tab[k].count : k \in Known(tab, p, a)} IN
    IF ~history THEN 0
    ELSE IF taken THEN IF old \subseteq {-1} THEN 0 ELSE 1
    ELSE IF old \subseteq {-1, 0} THEN -1 ELSE 0

\* The branch at a went to t; the entries behind the Size-th are dropped.
Updated(tab, p, a, t, taken) ==
    LET entry == [proc |-> p, addr |-> a, target |-> t,
                  count |-> Leaning(tab, p, a, taken)]
        others == Kept(tab, DOMAIN tab \ Known(tab, p, a))
        kept == IF Len(others) < Size THEN others
                ELSE SubSeq(others, 1, Size - 1)
    IN  <<entry>> \o kept

Forgotten(tab, p) == Kept(tab, {k \in DOMAIN tab : tab[k].proc # p})

\* What is predicted for a branch: whether it is known, and where it goes.
Prediction(tab, p, a) ==
    LET known == Known(tab, p, a) IN
    IF known = {} THEN [branch |-> FALSE]
    ELSE LET e == tab[CHOOSE k \in known : TRUE]
         IN  [branch |-> TRUE, take |-> e.count >= 0, target |-> e.target]

TableInit == history \in BOOLEAN /\ table = <<>>

\* A branch is updated, or a processor forgotten.
Follows(tab, next) ==
    \E p \in Processors :
        \/ \E a \in Addrs, t \in Targets, taken \in BOOLEAN :
               next = Updated(tab, p, a, t, taken)
        \/ next = Forgotten(tab, p)

\* The quantifiers only make TLC evaluate the two tables once.
TableNext ==
    /\ UNCHANGED history
    /\ \E tab \in {table}, next \in {table'} : Follows(tab, next)

TableSpec == TableInit /\ [][TableNext]_<<history, table>>
=============================================================================
