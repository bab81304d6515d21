-------------------------------- MODULE Cache --------------------------------
(***************************************************************************)
(* The caches of cpu/cache.cpp: one for instructions and one for data,     *)
(* both linked to a second level, each set associative.                    *)
(*                                                                         *)
(* Abstractions.  The simulator keeps no data in its caches; they are      *)
(* there for the latency of an access, which Pipeline and FrontEnd choose  *)
(* freely.  Here the blocks a cache holds are modelled and cycle_ready and *)
(* the latencies are not.  An address is the number of its block, which is *)
(* its tag and its index; the blocks of all caches have the same size.     *)
(***************************************************************************)
EXTENDS Integers, Sequences

CONSTANTS
    Blocks,      \* 0 .. n, the block numbers
    Sets,        \* index_size of each cache
    Ways,        \* set_size of each cache
    MaxCycle     \* bound on the cycles of a run

InstCache == 0
DataCache == 1
SecondLevel == 2
CacheIds == {InstCache, DataCache, SecondLevel}

ASSUME CacheAssumption ==
    /\ Blocks \subseteq Nat
    /\ Sets \in [CacheIds -> Nat \ {0}]
    /\ Ways \in [CacheIds -> Nat \ {0}]
    /\ MaxCycle \in Nat \ {0}

VARIABLES
    cycle,       \* the system cycle
    tb,          \* the slots of the caches
    accessed     \* history: the last cycle a first level was asked for a block

cacheVars == <<cycle, tb, accessed>>

Indices(c) == 0 .. Sets[c] - 1
EmptySlot == [busy |-> FALSE, tag |-> 0, last |-> 0, dirty |-> FALSE]

CacheInit ==
    /\ cycle = 1
    /\ tb = [c \in CacheIds |->
                [i \in Indices(c) |-> [w \in 1 .. Ways[c] |-> EmptySlot]]]
    /\ accessed = [c \in {InstCache, DataCache} |-> [b \in Blocks |-> 0]]

-----------------------------------------------------------------------------
Index(c, b) == b % Sets[c]
Holds(slot, b) == slot.busy /\ slot.tag = b
Line(t, c, b) == t[c][Index(c, b)]
Hits(t, c, b) == \E w \in 1 .. Ways[c] : Holds(Line(t, c, b)[w], b)

\* MUTANT: a hit does not count as a use.
TouchedDirty(t, c, b, write) ==
    LET line == Line(t, c, b)
        hit == {w \in 1 .. Ways[c] : Holds(line[w], b)}
        first == CHOOSE w \in hit : \A v \in hit : w <= v
    IN  IF hit = {} THEN t
        ELSE [t EXCEPT ![c][Index(c, b)][first].dirty = @ \/ write]

\* cache_memory_set_associative_t::access, for one block.
Touched(t, c, b, write) ==
    LET line == Line(t, c, b)
        hit == {w \in 1 .. Ways[c] : Holds(line[w], b)}
        first == CHOOSE w \in hit : \A v \in hit : w <= v
    IN  IF hit = {} THEN t
        ELSE [t EXCEPT ![c][Index(c, b)][first] =
                 [@ EXCEPT !.last = cycle, !.dirty = @ \/ write]]

\* MUTANT: the block may already be there.
EmptyWays(line, b) == {w \in DOMAIN line : ~line[w].busy}

\* The slots insert takes without a victim.
UsableWays(line, b) == {w \in DOMAIN line : ~line[w].busy \/ line[w].tag = b}

\* The first of the slots that were used the longest time ago.
Victim(line) ==
    CHOOSE w \in DOMAIN line :
        \A v \in DOMAIN line :
            /\ line[w].last <= line[v].last
            /\ line[w].last = line[v].last => w <= v

Chosen(line, b) ==
    LET usable == UsableWays(line, b) IN
    IF usable = {} THEN Victim(line)
    ELSE CHOOSE w \in usable : \A v \in usable : w <= v

\* MUTANT: the second level is indexed like the first.
PlacedByFirstIndex(t, c, b) ==
    LET i == Index(DataCache, b) IN
    [t EXCEPT ![c][i][Chosen(t[c][i], b)] =
        [busy |-> TRUE, tag |-> b, last |-> cycle, dirty |-> FALSE]]

Placed(t, c, b) ==
    [t EXCEPT ![c][Index(c, b)][Chosen(Line(t, c, b), b)] =
        [busy |-> TRUE, tag |-> b, last |-> cycle, dirty |-> FALSE]]

(***************************************************************************)
(* insert, for one block.  The copy back of a dirty victim puts the block  *)
(* that comes in, not the victim, into the second level.                   *)
(***************************************************************************)
Inserted(t, c, b) ==
    LET line == Line(t, c, b)
        copyBack == /\ c # SecondLevel
                    /\ UsableWays(line, b) = {}
                    /\ line[Victim(line)].dirty
    IN  Placed(IF copyBack THEN Placed(t, SecondLevel, b) ELSE t, c, b)

\* Both loops go through the blocks of an access, which are one or two.
TouchedAll(t, c, bs, write) ==
    IF Len(bs) = 1 THEN Touched(t, c, bs[1], write)
    ELSE Touched(Touched(t, c, bs[1], write), c, bs[2], write)

InsertedAll(t, c, bs) ==
    IF Len(bs) = 1 THEN Inserted(t, c, bs[1])
    ELSE Inserted(Inserted(t, c, bs[1]), c, bs[2])

HitsAll(t, c, bs) == \A k \in DOMAIN bs : Hits(t, c, bs[k])

\* cache_memory_struct_t::access: an access misses if one of its blocks
\* does, and then all of them are inserted.
Accessed(c, bs, write) ==
    LET first == TouchedAll(tb, c, bs, write)
        second == TouchedAll(first, SecondLevel, bs, write)
    IN  IF HitsAll(tb, c, bs) THEN first
        ELSE IF HitsAll(first, SecondLevel, bs) THEN InsertedAll(second, c, bs)
        ELSE InsertedAll(InsertedAll(second, c, bs), SecondLevel, bs)

Access(c, bs, write) ==
    /\ tb' = Accessed(c, bs, write)
    /\ accessed' = [accessed EXCEPT ![c] =
           [b \in Blocks |-> IF \E k \in DOMAIN bs : bs[k] = b THEN cycle
                             ELSE accessed[c][b]]]
    /\ UNCHANGED cycle

\* A byte of an instruction is fetched.
FetchAccess == \E b \in Blocks : Access(InstCache, <<b>>, FALSE)

\* The operand of a load or store, which may lie in two blocks.
OperandAccess ==
    \E write \in BOOLEAN, b \in Blocks :
        \/ Access(DataCache, <<b>>, write)
        \/ b + 1 \in Blocks /\ Access(DataCache, <<b, b + 1>>, write)

NextCycle ==
    /\ cycle < MaxCycle
    /\ cycle' = cycle + 1
    /\ UNCHANGED <<tb, accessed>>

CacheNext == FetchAccess \/ OperandAccess \/ NextCycle

CacheSpec == CacheInit /\ [][CacheNext]_cacheVars

-----------------------------------------------------------------------------
\* The slots hold what their declaration allows, in the set of their tag.
CacheTypeOK ==
    /\ cycle \in 1 .. MaxCycle
    /\ \A c \in CacheIds : \A i \in Indices(c), w \in 1 .. Ways[c] :
           LET s == tb[c][i][w] IN
           /\ {s.busy, s.dirty} \subseteq BOOLEAN
           /\ s.last \in 0 .. cycle
           /\ s.busy => s.tag \in Blocks /\ Index(c, s.tag) = i

\* A block is in one slot of a cache at most, although it is inserted by
\* misses of other blocks of its access and by copies back as well as by its
\* own misses (cache.cpp:200).
OneSlotPerBlock ==
    \A c \in CacheIds : \A b \in Blocks : \A v, w \in 1 .. Ways[c] :
        Holds(Line(tb, c, b)[v], b) /\ Holds(Line(tb, c, b)[w], b) => v = w

\* What a first level was asked for is in it, unless its set has been filled
\* with blocks asked for no earlier (cache.cpp:207).
OnlyOldBlocksLeave ==
    \A c \in DOMAIN accessed : \A b \in Blocks :
        accessed[c][b] > 0 /\ ~Hits(tb, c, b) =>
            \A w \in 1 .. Ways[c] :
                LET s == Line(tb, c, b)[w] IN
                s.busy /\ s.last >= accessed[c][b]
                       /\ accessed[c][s.tag] = s.last
=============================================================================
