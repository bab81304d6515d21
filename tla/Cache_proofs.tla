---------------------------- MODULE Cache_proofs ----------------------------
(***************************************************************************)
(* Theorems about Cache, for any number of blocks, sets and ways: a block  *)
(* is in one slot of a cache at most, and only old blocks leave a first    *)
(* level.                                                                  *)
(***************************************************************************)
EXTENDS Cache, TLAPS, WellFoundedInduction

Slot == [busy : BOOLEAN, tag : Blocks \cup {0}, last : Nat, dirty : BOOLEAN]

Lines(c) == [1 .. Ways[c] -> Slot]

-----------------------------------------------------------------------------
\* The invariant of a line l, one set of a cache.

\* The slots of a set fill in the order of the array and never empty again.
Compact(l) == \A v, w \in DOMAIN l : v < w /\ l[w].busy => l[v].busy

Once(l) ==
    \A v, w \in DOMAIN l :
        l[v].busy /\ l[w].busy /\ l[v].tag = l[w].tag => v = w

\* The set i of cache c holds blocks of that index, used until now.
Placeable(l, c, i, now) ==
    \A w \in DOMAIN l :
        /\ l[w].last <= now
        /\ l[w].busy => l[w].tag \in Blocks /\ Index(c, l[w].tag) = i

LineInv(l, c, i, now) ==
    l \in Lines(c) /\ Compact(l) /\ Once(l) /\ Placeable(l, c, i, now)

\* The slots are dated by the last access to their blocks, and a block that
\* has left was accessed no later than all that are there.
Dated(l, asked) == \A w \in DOMAIN l : l[w].busy => l[w].last = asked[l[w].tag]

LeftOld(l, c, i, asked) ==
    \A b \in Blocks :
        Index(c, b) = i /\ asked[b] > 0 /\ (\A w \in DOMAIN l : ~Holds(l[w], b)) =>
            \A w \in DOMAIN l : l[w].busy /\ l[w].last >= asked[b]

-----------------------------------------------------------------------------
\* Lemmas about the choice of a slot.

\* A set of numbers has a least one.
LEMMA LeastExists ==
    ASSUME NEW T \in SUBSET Nat, T # {}
    PROVE  \E x \in T : \A y \in T : x <= y
<1> DEFINE R == {ss \in Nat \X Nat : ss[1] < ss[2]}
<1>1. IsWellFoundedOn(R, Nat)
  BY NatLessThanWellFounded DEF OpToRel
<1> HIDE DEF R
<1>2. PICK x \in T : \A y \in T : ~(<<y, x>> \in R)
  BY <1>1, WFMin
<1>3. \A y \in T : ~(y < x)
  BY <1>2 DEF R
<1>4. \A y \in T : x <= y
  BY <1>3
<1> QED BY <1>4

\* The first of a set of slots.
LEMMA FirstExists ==
    ASSUME NEW n \in Nat, NEW T \in SUBSET (1 .. n), T # {}
    PROVE  LET f == CHOOSE w \in T : \A v \in T : w <= v
           IN  f \in T /\ \A v \in T : f <= v
<1>1. \E x \in T : \A y \in T : x <= y
  BY LeastExists
<1> QED BY <1>1

\* The victim was used no later than any other slot.
LEMMA VictimFacts ==
    ASSUME NEW n \in Nat \ {0}, NEW l \in [1 .. n -> Slot]
    PROVE  /\ Victim(l) \in 1 .. n
           /\ \A v \in 1 .. n : l[Victim(l)].last <= l[v].last
<1> DEFINE lasts == {l[w].last : w \in 1 .. n}
<1>1. \A w \in 1 .. n : l[w].last \in Nat
  BY DEF Slot
<1>2. lasts \in SUBSET Nat /\ lasts # {}
  BY <1>1
<1>3. PICK m \in lasts : \A y \in lasts : m <= y
  BY <1>2, LeastExists
<1> DEFINE old == {w \in 1 .. n : l[w].last = m}
<1>4. old \in SUBSET Nat /\ old # {}
  BY <1>3
<1>5. PICK w \in old : \A y \in old : w <= y
  BY <1>4, LeastExists
<1>6. /\ w \in 1 .. n
      /\ \A v \in 1 .. n : /\ l[w].last <= l[v].last
                           /\ l[w].last = l[v].last => w <= v
  BY <1>3, <1>5
<1>7. DOMAIN l = 1 .. n
  OBVIOUS
<1>8. /\ Victim(l) \in 1 .. n
      /\ \A v \in 1 .. n : /\ l[Victim(l)].last <= l[v].last
                           /\ l[Victim(l)].last = l[v].last => Victim(l) <= v
  BY <1>6, <1>7 DEF Victim
<1> QED BY <1>8
\* insert takes the slot of the block if it is there, else the first empty
\* one, else that of the victim.
LEMMA ChosenFacts ==
    ASSUME NEW c \in CacheIds, NEW i, NEW now, NEW l, LineInv(l, c, i, now),
           NEW b
    PROVE  /\ Chosen(l, b) \in 1 .. Ways[c]
           /\ \A w \in 1 .. Ways[c] : Holds(l[w], b) => w = Chosen(l, b)
           /\ \A v \in 1 .. Ways[c] : v < Chosen(l, b) => l[v].busy
           /\ \/ ~l[Chosen(l, b)].busy
              \/ Holds(l[Chosen(l, b)], b)
              \/ \A v \in 1 .. Ways[c] :
                   l[v].busy /\ l[Chosen(l, b)].last <= l[v].last
<1>1. PICK n \in Nat \ {0} : n = Ways[c]
  BY CacheAssumption
<1>2. l \in [1 .. n -> Slot] /\ DOMAIN l = 1 .. n /\ Compact(l) /\ Once(l)
  BY <1>1 DEF LineInv, Lines
<1> DEFINE usable == UsableWays(l, b)
           s == Chosen(l, b)
<1>3. usable = {w \in 1 .. n : ~l[w].busy \/ l[w].tag = b}
  BY <1>2 DEF UsableWays
<1>4. CASE usable = {}
  <2>1. s = Victim(l)
    BY <1>4 DEF Chosen
  <2>2. s \in 1 .. n /\ \A v \in 1 .. n : l[s].last <= l[v].last
    BY <2>1, <1>2, VictimFacts
  <2>3. \A v \in 1 .. n : l[v].busy /\ l[v].tag # b
    BY <1>3, <1>4, <1>2 DEF Slot
  <2> HIDE DEF s
  <2> QED BY <2>2, <2>3, <1>1 DEF Holds, s
<1>5. CASE usable # {}
  <2>1. s \in usable /\ \A v \in usable : s <= v
    <3>1. s = CHOOSE w \in usable : \A v \in usable : w <= v
      BY <1>5 DEF Chosen
    <3>2. usable \in SUBSET (1 .. n)
      BY <1>3
    <3> HIDE DEF usable, s
    <3> QED BY <3>1, <3>2, <1>5, FirstExists
  <2> HIDE DEF s, usable
  <2>2. s \in 1 .. n /\ (~l[s].busy \/ l[s].tag = b)
    BY <2>1, <1>3
  <2>3. \A v \in 1 .. n : v < s => l[v].busy
    BY <2>1, <2>2, <1>3
  <2>4. ASSUME NEW w \in 1 .. n, Holds(l[w], b)
        PROVE  w = s
    <3>1. l[w].busy /\ l[w].tag = b
      BY <2>4 DEF Holds
    <3>2. s <= w
      BY <3>1, <2>1, <1>3
    <3>3. l[s].busy
      <4>1. CASE s = w
        BY <4>1, <3>1
      <4>2. CASE s < w
        BY <4>2, <3>1, <2>2, <1>2 DEF Compact
      <4> QED BY <4>1, <4>2, <3>2, <2>2
    <3>4. l[s].tag = b
      BY <3>3, <2>2
    <3> QED BY <3>1, <3>3, <3>4, <2>2, <1>2 DEF Once
  <2>5. ~l[s].busy \/ Holds(l[s], b)
    BY <2>2 DEF Holds
  <2> QED BY <2>2, <2>3, <2>4, <2>5, <1>1 DEF s
<1> QED BY <1>4, <1>5

\* A block is put into the slot s of a line.
PutInto(l, s, b, now) ==
    [l EXCEPT ![s] = [busy |-> TRUE, tag |-> b, last |-> now, dirty |-> FALSE]]

\* A block that is put into the slot chosen for it keeps a set of slots in order,
\* and what leaves the set was asked for before all that stays.
LEMMA PutFacts ==
    ASSUME NEW c \in CacheIds, NEW i, NEW now \in Nat, NEW l,
           LineInv(l, c, i, now), NEW b \in Blocks, Index(c, b) = i
    PROVE  LET s == Chosen(l, b)
               m == PutInto(l, s, b, now)
           IN  /\ LineInv(m, c, i, now)
               /\ \A asked \in [Blocks -> 0 .. now] :
                    Dated(l, asked) /\ LeftOld(l, c, i, asked) =>
                      /\ Dated(m, [asked EXCEPT ![b] = now])
                      /\ LeftOld(m, c, i, [asked EXCEPT ![b] = now])
<1> DEFINE s == Chosen(l, b)
           m == PutInto(l, s, b, now)
<1>1. PICK n \in Nat \ {0} : n = Ways[c]
  BY CacheAssumption
<1>2. /\ l \in [1 .. n -> Slot] /\ DOMAIN l = 1 .. n /\ Compact(l) /\ Once(l)
      /\ Placeable(l, c, i, now)
  BY <1>1 DEF LineInv, Lines
<1>3. /\ s \in 1 .. n
      /\ \A w \in 1 .. n : Holds(l[w], b) => w = s
      /\ \A v \in 1 .. n : v < s => l[v].busy
      /\ \/ ~l[s].busy
         \/ Holds(l[s], b)
         \/ \A v \in 1 .. n : l[v].busy /\ l[s].last <= l[v].last
  BY <1>1, ChosenFacts
<1> HIDE DEF s
<1>4. /\ m \in [1 .. n -> Slot] /\ DOMAIN m = 1 .. n
      /\ m[s].busy /\ m[s].tag = b /\ m[s].last = now
      /\ \A w \in 1 .. n : w # s => m[w] = l[w]
  BY <1>2, <1>3 DEF PutInto, Slot
<1> HIDE DEF m
<1>5. Compact(m)
  <2>1. ASSUME NEW v \in 1 .. n, NEW w \in 1 .. n, v < w, m[w].busy
        PROVE  m[v].busy
    <3>1. l[v].busy
      <4>1. CASE w = s
        BY <4>1, <2>1, <1>3
      <4>2. CASE w # s
        <5>1. l[w].busy
          BY <4>2, <2>1, <1>4
        <5> QED BY <5>1, <2>1, <1>2 DEF Compact
      <4> QED BY <4>1, <4>2
    <3> QED BY <3>1, <1>4
  <2> QED BY <2>1, <1>4 DEF Compact
<1>6. Once(m)
  <2>1. ASSUME NEW v \in 1 .. n, NEW w \in 1 .. n, m[v].busy, m[w].busy,
               m[v].tag = m[w].tag
        PROVE  v = w
    <3>1. CASE v = s
      <4>1. ASSUME w # s PROVE FALSE
        <5>1. Holds(l[w], b)
          BY <4>1, <3>1, <2>1, <1>4 DEF Holds
        <5> QED BY <5>1, <4>1, <1>3
      <4> QED BY <4>1, <3>1
    <3>2. CASE w = s
      <4>1. ASSUME v # s PROVE FALSE
        <5>1. Holds(l[v], b)
          BY <4>1, <3>2, <2>1, <1>4 DEF Holds
        <5> QED BY <5>1, <4>1, <1>3
      <4> QED BY <4>1, <3>2
    <3>3. CASE v # s /\ w # s
      <4>1. m[v] = l[v] /\ m[w] = l[w]
        BY <3>3, <1>4
      <4> QED BY <4>1, <2>1, <1>2 DEF Once
    <3> QED BY <3>1, <3>2, <3>3
  <2> QED BY <2>1, <1>4 DEF Once
<1>7. Placeable(m, c, i, now)
  <2>1. ASSUME NEW w \in 1 .. n
        PROVE  /\ m[w].last <= now
               /\ m[w].busy => m[w].tag \in Blocks /\ Index(c, m[w].tag) = i
    <3>1. CASE w = s
      BY <3>1, <1>4
    <3>2. CASE w # s
      BY <3>2, <1>2, <1>4 DEF Placeable
    <3> QED BY <3>1, <3>2
  <2> QED BY <2>1, <1>4 DEF Placeable
<1>8. ASSUME NEW asked \in [Blocks -> 0 .. now], Dated(l, asked),
             LeftOld(l, c, i, asked)
      PROVE  /\ Dated(m, [asked EXCEPT ![b] = now])
             /\ LeftOld(m, c, i, [asked EXCEPT ![b] = now])
  <2> DEFINE next == [asked EXCEPT ![b] = now]
  <2>1. next[b] = now /\ \A x \in Blocks : x # b => next[x] = asked[x]
    OBVIOUS
  <2> HIDE DEF next
  <2>2. Dated(m, next)
    <3>1. ASSUME NEW w \in 1 .. n, m[w].busy
          PROVE  m[w].last = next[m[w].tag]
      <4>1. CASE w = s
        BY <4>1, <2>1, <1>4
      <4>2. CASE w # s
        <5>1. m[w] = l[w] /\ l[w].busy
          BY <4>2, <3>1, <1>4
        <5>2. l[w].tag # b /\ l[w].tag \in Blocks
          BY <4>2, <5>1, <1>2, <1>3 DEF Holds, Placeable
        <5>3. l[w].last = asked[l[w].tag]
          BY <5>1, <1>2, <1>8 DEF Dated
        <5> QED BY <5>1, <5>2, <5>3, <2>1
      <4> QED BY <4>1, <4>2
    <3> QED BY <3>1, <1>4 DEF Dated
  <2>3. LeftOld(m, c, i, next)
    <3>1. ASSUME NEW x \in Blocks, Index(c, x) = i, next[x] > 0,
                 \A w \in 1 .. n : ~Holds(m[w], x), NEW v \in 1 .. n
          PROVE  m[v].busy /\ m[v].last >= next[x]
      <4>1. x # b
        BY <3>1, <1>3, <1>4 DEF Holds
      <4>2. next[x] = asked[x] /\ asked[x] \in 0 .. now /\ asked[x] > 0
        BY <4>1, <2>1, <3>1
      <4>3. \A w \in 1 .. n : w # s => ~Holds(l[w], x)
        BY <3>1, <1>4
      <4>4. \A w \in 1 .. n : l[w].busy /\ l[w].last >= asked[x]
        <5>1. CASE Holds(l[s], x)
          <6>1. l[s].busy /\ l[s].tag = x /\ l[s].last = asked[x]
            BY <5>1, <1>2, <1>3, <1>8 DEF Holds, Dated
          <6>2. ~Holds(l[s], b)
            BY <6>1, <4>1 DEF Holds
          <6>3. \A w \in 1 .. n : l[w].busy /\ l[s].last <= l[w].last
            BY <6>1, <6>2, <1>3
          <6>4. \A w \in 1 .. n : l[w].last \in Nat
            BY <1>2 DEF Slot
          <6> QED BY <6>1, <6>3, <6>4, <1>3
        <5>2. CASE ~Holds(l[s], x)
          <6>1. \A w \in DOMAIN l : ~Holds(l[w], x)
            BY <5>2, <4>3, <1>2
          <6> QED BY <6>1, <4>2, <3>1, <1>2, <1>8 DEF LeftOld
        <5> QED BY <5>1, <5>2
      <4>5. CASE v = s
        BY <4>5, <4>2, <1>4
      <4>6. CASE v # s
        BY <4>6, <4>4, <4>2, <1>4
      <4> QED BY <4>5, <4>6
    <3> QED BY <3>1, <1>4 DEF LeftOld
  <2> QED BY <2>2, <2>3 DEF next
<1>9. LineInv(m, c, i, now)
  BY <1>1, <1>4, <1>5, <1>6, <1>7 DEF LineInv, Lines
<1> QED BY <1>8, <1>9 DEF s, m
\* The slot s of a line is used, and its block perhaps written.
Used(l, s, write, now) ==
    [l EXCEPT ![s] = [@ EXCEPT !.last = now, !.dirty = @ \/ write]]

\* Using a slot changes its date and its dirty bit only.
LEMMA UseFacts ==
    ASSUME NEW c \in CacheIds, NEW i, NEW now \in Nat, NEW l,
           LineInv(l, c, i, now), NEW b \in Blocks, NEW write \in BOOLEAN,
           NEW s \in 1 .. Ways[c], Holds(l[s], b)
    PROVE  LET m == Used(l, s, write, now)
           IN  /\ LineInv(m, c, i, now)
               /\ \A x : \A w \in 1 .. Ways[c] : Holds(m[w], x) <=> Holds(l[w], x)
               /\ \A asked \in [Blocks -> 0 .. now] :
                    Dated(l, asked) /\ LeftOld(l, c, i, asked) =>
                      /\ Dated(m, [asked EXCEPT ![b] = now])
                      /\ LeftOld(m, c, i, [asked EXCEPT ![b] = now])
<1> DEFINE m == Used(l, s, write, now)
<1>1. PICK n \in Nat \ {0} : n = Ways[c]
  BY CacheAssumption
<1>2. /\ l \in [1 .. n -> Slot] /\ DOMAIN l = 1 .. n /\ Compact(l) /\ Once(l)
      /\ Placeable(l, c, i, now) /\ s \in 1 .. n /\ l[s].busy /\ l[s].tag = b
  BY <1>1 DEF LineInv, Lines, Holds
<1>3. /\ m \in [1 .. n -> Slot] /\ DOMAIN m = 1 .. n
      /\ m[s].last = now
      /\ \A w \in 1 .. n : /\ w # s => m[w] = l[w]
                           /\ m[w].busy = l[w].busy /\ m[w].tag = l[w].tag
  BY <1>2 DEF Used, Slot
<1> HIDE DEF m
<1>4. Compact(m) /\ Once(m)
  <2>1. Compact(m)
    BY <1>2, <1>3 DEF Compact
  <2>2. Once(m)
    BY <1>2, <1>3 DEF Once
  <2> QED BY <2>1, <2>2
<1>5. Placeable(m, c, i, now)
  <2>1. ASSUME NEW w \in 1 .. n
        PROVE  /\ m[w].last <= now
               /\ m[w].busy => m[w].tag \in Blocks /\ Index(c, m[w].tag) = i
    <3>1. m[w].last <= now
      BY <1>2, <1>3 DEF Placeable
    <3> QED BY <3>1, <1>2, <1>3 DEF Placeable
  <2> QED BY <2>1, <1>3 DEF Placeable
<1>6. ASSUME NEW asked \in [Blocks -> 0 .. now], Dated(l, asked),
             LeftOld(l, c, i, asked)
      PROVE  /\ Dated(m, [asked EXCEPT ![b] = now])
             /\ LeftOld(m, c, i, [asked EXCEPT ![b] = now])
  <2> DEFINE next == [asked EXCEPT ![b] = now]
  <2>1. next[b] = now /\ \A x \in Blocks : x # b => next[x] = asked[x]
    OBVIOUS
  <2> HIDE DEF next
  <2>2. Dated(m, next)
    <3>1. ASSUME NEW w \in 1 .. n, m[w].busy
          PROVE  m[w].last = next[m[w].tag]
      <4>1. CASE w = s
        BY <4>1, <2>1, <1>2, <1>3
      <4>2. CASE w # s
        <5>1. m[w] = l[w] /\ l[w].busy
          BY <4>2, <3>1, <1>3
        <5>2. l[w].tag # b /\ l[w].tag \in Blocks
          BY <4>2, <5>1, <1>2 DEF Once, Placeable
        <5>3. l[w].last = asked[l[w].tag]
          BY <5>1, <1>2, <1>6 DEF Dated
        <5> QED BY <5>1, <5>2, <5>3, <2>1
      <4> QED BY <4>1, <4>2
    <3> QED BY <3>1, <1>3 DEF Dated
  <2>3. LeftOld(m, c, i, next)
    <3>1. ASSUME NEW x \in Blocks, Index(c, x) = i, next[x] > 0,
                 \A w \in 1 .. n : ~Holds(m[w], x), NEW v \in 1 .. n
          PROVE  m[v].busy /\ m[v].last >= next[x]
      <4>1. x # b
        BY <3>1, <1>2, <1>3 DEF Holds
      <4>2. next[x] = asked[x] /\ asked[x] \in 0 .. now /\ asked[x] > 0
        BY <4>1, <2>1, <3>1
      <4>3. \A w \in DOMAIN l : ~Holds(l[w], x)
        BY <3>1, <1>2, <1>3 DEF Holds
      <4>4. \A w \in 1 .. n : l[w].busy /\ l[w].last >= asked[x]
        BY <4>2, <4>3, <3>1, <1>2, <1>6 DEF LeftOld
      <4>5. CASE v = s
        BY <4>5, <4>2, <1>2, <1>3
      <4>6. CASE v # s
        BY <4>6, <4>4, <4>2, <1>3
      <4> QED BY <4>5, <4>6
    <3> QED BY <3>1, <1>3 DEF LeftOld
  <2> QED BY <2>2, <2>3 DEF next
<1>7. LineInv(m, c, i, now)
  BY <1>1, <1>3, <1>4, <1>5 DEF LineInv, Lines
<1>8. \A x : \A w \in 1 .. Ways[c] : Holds(m[w], x) <=> Holds(l[w], x)
  BY <1>1, <1>3 DEF Holds
<1> QED BY <1>6, <1>7, <1>8 DEF m

-----------------------------------------------------------------------------
\* The invariant of the caches t, and of the first level c.

IsTables(t) ==
    /\ t = [c \in CacheIds |-> t[c]]
    /\ \A c \in CacheIds : t[c] \in [Indices(c) -> Lines(c)]

LinesInv(t, now) ==
    /\ IsTables(t)
    /\ \A c \in CacheIds : \A i \in Indices(c) : LineInv(t[c][i], c, i, now)

AskedInv(t, c, asked, now) ==
    /\ asked \in [Blocks -> 0 .. now]
    /\ \A i \in Indices(c) : Dated(t[c][i], asked) /\ LeftOld(t[c][i], c, i, asked)

\* A block has its set.
LEMMA IndexType ==
    ASSUME NEW c \in CacheIds, NEW b \in Blocks
    PROVE  Index(c, b) \in Indices(c)
<1>1. PICK k \in Nat \ {0} : k = Sets[c]
  BY CacheAssumption
<1>2. b \in Nat
  BY CacheAssumption
<1>3. b % k \in 0 .. k - 1
  BY <1>2, SMTT(20)
<1> QED BY <1>1, <1>3 DEF Index, Indices

\* b is accessed now.
SetDate(asked, b) == [asked EXCEPT ![b] = cycle]

\* The line of b becomes m.
SetLine(t, c, b, m) == [t EXCEPT ![c] = [t[c] EXCEPT ![Index(c, b)] = m]]

\* The line of b changes, and b is the only block whose date may change.
LEMMA LineChange ==
    ASSUME cycle \in Nat, NEW t, LinesInv(t, cycle), NEW c \in CacheIds,
           NEW b \in Blocks, NEW m, LineInv(m, c, Index(c, b), cycle),
           NEW u, u = SetLine(t, c, b, m)
    PROVE  /\ Index(c, b) \in Indices(c)
           /\ LinesInv(u, cycle)
           /\ Line(u, c, b) = m
           /\ \A d \in CacheIds : d # c => u[d] = t[d]
           /\ \A asked : AskedInv(t, c, asked, cycle) =>
                (Dated(m, SetDate(asked, b)) /\ LeftOld(m, c, Index(c, b), SetDate(asked, b)) =>
                   AskedInv(u, c, SetDate(asked, b), cycle))
<1> DEFINE j == Index(c, b)
<1>1. j \in Indices(c)
  BY IndexType
<1> HIDE DEF j
<1>2. /\ IsTables(t) /\ t[c] \in [Indices(c) -> Lines(c)] /\ m \in Lines(c)
      /\ \A i \in Indices(c) : LineInv(t[c][i], c, i, cycle)
      /\ DOMAIN t = CacheIds
  BY DEF LinesInv, IsTables, LineInv
<1>3. /\ u[c] = [t[c] EXCEPT ![j] = m]
      /\ \A d \in CacheIds : d # c => u[d] = t[d]
      /\ u = [d \in CacheIds |-> u[d]]
  BY <1>2 DEF IsTables, SetLine, j
<1>4. /\ u[c] \in [Indices(c) -> Lines(c)] /\ u[c][j] = m
      /\ \A i \in Indices(c) : i # j => u[c][i] = t[c][i]
  BY <1>1, <1>2, <1>3
<1>5. IsTables(u)
  BY <1>2, <1>3, <1>4 DEF IsTables
<1>6. \A d \in CacheIds : \A i \in Indices(d) : LineInv(u[d][i], d, i, cycle)
  <2>1. ASSUME NEW d \in CacheIds, NEW i \in Indices(d)
        PROVE  LineInv(u[d][i], d, i, cycle)
    <3>1. CASE d # c
      BY <3>1, <1>3 DEF LinesInv
    <3>2. CASE d = c /\ i = j
      BY <3>2, <1>4 DEF j
    <3>3. CASE d = c /\ i # j
      BY <3>3, <1>2, <1>4
    <3> QED BY <3>1, <3>2, <3>3
  <2> QED BY <2>1
<1>7. ASSUME NEW asked, AskedInv(t, c, asked, cycle)
      PROVE  Dated(m, SetDate(asked, b)) /\ LeftOld(m, c, j, SetDate(asked, b)) =>
               AskedInv(u, c, SetDate(asked, b), cycle)
  <2> DEFINE next == SetDate(asked, b)
  <2>1. asked \in [Blocks -> 0 .. cycle]
    BY <1>7 DEF AskedInv
  <2>2. /\ next \in [Blocks -> 0 .. cycle]
        /\ \A x \in Blocks : x # b => next[x] = asked[x]
    BY <2>1 DEF SetDate
  <2> HIDE DEF next
  <2>3. ASSUME Dated(m, next), LeftOld(m, c, j, next), NEW i \in Indices(c)
        PROVE  Dated(u[c][i], next) /\ LeftOld(u[c][i], c, i, next)
    <3>1. CASE i = j
      BY <3>1, <2>3, <1>4
    <3>2. CASE i # j
      <4>1. u[c][i] = t[c][i] /\ LineInv(t[c][i], c, i, cycle)
        BY <3>2, <1>2, <1>4
      <4>2. PICK l : l = t[c][i]
        OBVIOUS
      <4>3. /\ Dated(l, asked) /\ LeftOld(l, c, i, asked)
            /\ Placeable(l, c, i, cycle)
        BY <4>1, <4>2, <1>7 DEF AskedInv, LineInv
      <4>4. Dated(l, next)
        <5>1. \A w \in DOMAIN l : l[w].busy => l[w].tag \in Blocks /\ l[w].tag # b
          BY <4>3, <3>2 DEF Placeable, j
        <5> QED BY <5>1, <4>3, <2>2 DEF Dated
      <4>5. LeftOld(l, c, i, next)
        <5>1. \A x \in Blocks : Index(c, x) = i => next[x] = asked[x]
          BY <3>2, <2>2 DEF j
        <5> QED BY <5>1, <4>3 DEF LeftOld
      <4> QED BY <4>1, <4>2, <4>4, <4>5
    <3> QED BY <3>1, <3>2
  <2> QED BY <2>2, <2>3 DEF AskedInv, next
<1> QED BY <1>1, <1>3, <1>4, <1>5, <1>6, <1>7 DEF LinesInv, Line, j
-----------------------------------------------------------------------------
\* The operations on the caches keep the invariant.

\* An insertion keeps the lines of its cache in order and leaves the other caches.
LEMMA PlacedFacts ==
    ASSUME cycle \in Nat, NEW t, LinesInv(t, cycle), NEW c \in CacheIds,
           NEW b \in Blocks
    PROVE  LET u == Placed(t, c, b) IN
           /\ LinesInv(u, cycle)
           /\ \A d \in CacheIds : d # c => u[d] = t[d]
           /\ \A asked : AskedInv(t, c, asked, cycle) =>
                AskedInv(u, c, SetDate(asked, b), cycle)
<1> DEFINE j == Index(c, b)
           l == t[c][j]
           m == PutInto(l, Chosen(l, b), b, cycle)
           u == Placed(t, c, b)
<1>1. j \in Indices(c)
  BY IndexType
<1>2. LineInv(l, c, j, cycle)
  BY <1>1 DEF LinesInv
<1>3. /\ LineInv(m, c, j, cycle)
      /\ \A asked \in [Blocks -> 0 .. cycle] :
           Dated(l, asked) /\ LeftOld(l, c, j, asked) =>
             Dated(m, SetDate(asked, b)) /\ LeftOld(m, c, j, SetDate(asked, b))
  <2> HIDE DEF l
  <2> QED BY <1>2, PutFacts DEF SetDate
<1>4. u = SetLine(t, c, b, m)
  BY DEF Placed, Line, PutInto, SetLine
<1> HIDE DEF m, u
<1>5. /\ LinesInv(u, cycle)
      /\ \A d \in CacheIds : d # c => u[d] = t[d]
      /\ \A asked : AskedInv(t, c, asked, cycle) =>
           (Dated(m, SetDate(asked, b)) /\ LeftOld(m, c, j, SetDate(asked, b)) =>
              AskedInv(u, c, SetDate(asked, b), cycle))
  BY <1>3, <1>4, LineChange
<1>6. ASSUME NEW asked, AskedInv(t, c, asked, cycle)
      PROVE  AskedInv(u, c, SetDate(asked, b), cycle)
  <2>1. /\ asked \in [Blocks -> 0 .. cycle]
        /\ Dated(l, asked) /\ LeftOld(l, c, j, asked)
    BY <1>1, <1>6 DEF AskedInv
  <2> HIDE DEF l
  <2> QED BY <2>1, <1>3, <1>5, <1>6
<1> QED BY <1>5, <1>6 DEF u

\* The use of a block by one cache: no block moves, other caches stay as they are.
LEMMA TouchedFacts ==
    ASSUME cycle \in Nat, NEW t, LinesInv(t, cycle), NEW c \in CacheIds,
           NEW b \in Blocks, NEW write \in BOOLEAN
    PROVE  LET u == Touched(t, c, b, write) IN
           /\ LinesInv(u, cycle)
           /\ \A d \in CacheIds : d # c => u[d] = t[d]
           /\ \A x \in Blocks : Hits(u, c, x) <=> Hits(t, c, x)
           /\ \A asked : AskedInv(t, c, asked, cycle) =>
                AskedInv(u, c, IF Hits(t, c, b) THEN SetDate(asked, b) ELSE asked,
                         cycle)
<1> DEFINE j == Index(c, b)
           l == t[c][j]
           hit == {w \in 1 .. Ways[c] : Holds(l[w], b)}
           s == CHOOSE w \in hit : \A v \in hit : w <= v
           m == Used(l, s, write, cycle)
           u == Touched(t, c, b, write)
<1>1. CASE hit = {}
  <2>1. u = t /\ ~Hits(t, c, b)
    BY <1>1 DEF Touched, Line, Hits
  <2> HIDE DEF u
  <2> QED BY <2>1 DEF u
<1>2. CASE hit # {}
  <2>1. s \in 1 .. Ways[c] /\ Holds(l[s], b)
    <3>1. Ways[c] \in Nat /\ hit \in SUBSET (1 .. Ways[c])
      BY CacheAssumption
    <3>2. s \in hit
      <4> HIDE DEF hit
      <4> QED BY <3>1, <1>2, FirstExists
    <3> HIDE DEF s
    <3> QED BY <3>2
  <2>2. Hits(t, c, b)
    <3> HIDE DEF s
    <3> QED BY <2>1 DEF Hits, Line
  <2>3. u = SetLine(t, c, b, m)
    BY <1>2 DEF Touched, Line, Used, SetLine
  <2> HIDE DEF s, u
  <2>4. j \in Indices(c)
    BY IndexType
  <2>5. LineInv(l, c, j, cycle)
    BY <2>4 DEF LinesInv
  <2>6. /\ LineInv(m, c, j, cycle)
        /\ \A x : \A w \in 1 .. Ways[c] : Holds(m[w], x) <=> Holds(l[w], x)
        /\ \A asked \in [Blocks -> 0 .. cycle] :
             Dated(l, asked) /\ LeftOld(l, c, j, asked) =>
               Dated(m, SetDate(asked, b)) /\ LeftOld(m, c, j, SetDate(asked, b))
    <3> HIDE DEF l
    <3> QED BY <2>1, <2>5, UseFacts DEF SetDate
  <2> HIDE DEF m
  <2>7. /\ LinesInv(u, cycle)
        /\ Line(u, c, b) = m
        /\ \A d \in CacheIds : d # c => u[d] = t[d]
        /\ \A asked : AskedInv(t, c, asked, cycle) =>
             (Dated(m, SetDate(asked, b)) /\ LeftOld(m, c, j, SetDate(asked, b)) =>
                AskedInv(u, c, SetDate(asked, b), cycle))
    BY <2>3, <2>6, LineChange
  <2>8. ASSUME NEW asked, AskedInv(t, c, asked, cycle)
        PROVE  AskedInv(u, c, SetDate(asked, b), cycle)
    <3>1. /\ asked \in [Blocks -> 0 .. cycle]
          /\ Dated(l, asked) /\ LeftOld(l, c, j, asked)
      BY <2>4, <2>8 DEF AskedInv
    <3> HIDE DEF l
    <3> QED BY <3>1, <2>6, <2>7, <2>8
  <2>9. ASSUME NEW x \in Blocks
        PROVE  Hits(u, c, x) <=> Hits(t, c, x)
    <3>1. CASE Index(c, x) = j
      <4>1. Line(u, c, x) = m /\ Line(t, c, x) = l
        BY <3>1, <2>7 DEF Line
      <4> HIDE DEF l, j
      <4> QED BY <4>1, <2>6 DEF Hits
    <3>2. CASE Index(c, x) # j
      <4>1. Line(u, c, x) = Line(t, c, x)
        BY <3>2, <2>3 DEF Line, LinesInv, IsTables, SetLine
      <4> QED BY <4>1 DEF Hits
    <3> QED BY <3>1, <3>2
  <2> QED BY <2>2, <2>7, <2>8, <2>9 DEF u
<1> QED BY <1>1, <1>2

\* insert: the block, and the copy back into the second level.
LEMMA InsertedFacts ==
    ASSUME cycle \in Nat, NEW t, LinesInv(t, cycle), NEW c \in CacheIds,
           NEW b \in Blocks
    PROVE  LET u == Inserted(t, c, b) IN
           /\ LinesInv(u, cycle)
           /\ \A d \in CacheIds : d \notin {c, SecondLevel} => u[d] = t[d]
           /\ \A asked : c # SecondLevel /\ AskedInv(t, c, asked, cycle) =>
                AskedInv(u, c, SetDate(asked, b), cycle)
<1> DEFINE v == Placed(t, SecondLevel, b)
<1>1. SecondLevel \in CacheIds
  BY DEF CacheIds
<1>2. LinesInv(v, cycle) /\ \A d \in CacheIds : d # SecondLevel => v[d] = t[d]
  BY <1>1, PlacedFacts
<1>3. PICK w : w \in {t, v} /\ Inserted(t, c, b) = Placed(w, c, b)
               /\ (c = SecondLevel => w = t)
  BY DEF Inserted
<1> HIDE DEF v
<1>4. LinesInv(w, cycle) /\ \A d \in CacheIds : d # SecondLevel => w[d] = t[d]
  BY <1>2, <1>3
<1>5. \A asked : c # SecondLevel /\ AskedInv(t, c, asked, cycle) =>
        AskedInv(w, c, asked, cycle)
  BY <1>4 DEF AskedInv
<1> DEFINE u == Placed(w, c, b)
<1>6. /\ LinesInv(u, cycle)
      /\ \A d \in CacheIds : d # c => u[d] = w[d]
      /\ \A asked : AskedInv(w, c, asked, cycle) =>
           AskedInv(u, c, SetDate(asked, b), cycle)
  BY <1>4, PlacedFacts
<1> HIDE DEF u
<1> QED BY <1>3, <1>4, <1>5, <1>6 DEF u
-----------------------------------------------------------------------------
\* An access.

FirstLevels == {InstCache, DataCache}

\* The caches t when the first level c was asked at the dates asked.
Good(t, c, asked) == LinesInv(t, cycle) /\ AskedInv(t, c, asked, cycle)

\* The other first level is left alone.
OthersSame(t, u, c) ==
    \A d \in CacheIds : d \notin {c, SecondLevel} => u[d] = t[d]

\* The two lemmas above for a first-level cache and the second level below it.
LEMMA GoodTouched ==
    ASSUME cycle \in Nat, NEW t, NEW c \in FirstLevels, NEW asked,
           Good(t, c, asked), NEW b \in Blocks, NEW write \in BOOLEAN
    PROVE  LET u == Touched(t, c, b, write) IN
           /\ Good(u, c, IF Hits(t, c, b) THEN SetDate(asked, b) ELSE asked)
           /\ \A x \in Blocks : Hits(u, c, x) <=> Hits(t, c, x)
           /\ OthersSame(t, u, c)
<1>1. c \in CacheIds /\ LinesInv(t, cycle) /\ AskedInv(t, c, asked, cycle)
  BY DEF FirstLevels, CacheIds, Good
<1> QED BY <1>1, TouchedFacts DEF Good, OthersSame

\* An inserted block leaves both levels in order, and the other first level alone.
LEMMA GoodInserted ==
    ASSUME cycle \in Nat, NEW t, NEW c \in FirstLevels, NEW asked,
           Good(t, c, asked), NEW b \in Blocks
    PROVE  LET u == Inserted(t, c, b) IN
           Good(u, c, SetDate(asked, b)) /\ OthersSame(t, u, c)
<1>1. /\ c \in CacheIds /\ c # SecondLevel
      /\ LinesInv(t, cycle) /\ AskedInv(t, c, asked, cycle)
  BY DEF FirstLevels, CacheIds, InstCache, DataCache, SecondLevel, Good
<1> QED BY <1>1, InsertedFacts DEF Good, OthersSame

\* What happens in the second level does not matter for the first one.
LEMMA GoodBelow ==
    ASSUME cycle \in Nat, NEW t, NEW c \in FirstLevels, NEW asked,
           Good(t, c, asked), NEW b \in Blocks, NEW write \in BOOLEAN,
           NEW u \in {Touched(t, SecondLevel, b, write), Inserted(t, SecondLevel, b)}
    PROVE  Good(u, c, asked) /\ OthersSame(t, u, c)
<1>1. /\ c \in CacheIds /\ c # SecondLevel /\ SecondLevel \in CacheIds
      /\ LinesInv(t, cycle) /\ AskedInv(t, c, asked, cycle)
  BY DEF FirstLevels, CacheIds, InstCache, DataCache, SecondLevel, Good
<1>2. LinesInv(u, cycle) /\ \A d \in CacheIds : d # SecondLevel => u[d] = t[d]
  <2>1. CASE u = Touched(t, SecondLevel, b, write)
    BY <2>1, <1>1, TouchedFacts
  <2>2. CASE u = Inserted(t, SecondLevel, b)
    BY <2>2, <1>1, InsertedFacts
  <2> QED BY <2>1, <2>2
<1>3. AskedInv(u, c, asked, cycle)
  BY <1>1, <1>2 DEF AskedInv
<1> QED BY <1>2, <1>3 DEF Good, OthersSame

\* The dates after an access to the blocks of bs.
DatesAfter(asked, bs) ==
    [b \in Blocks |-> IF \E k \in DOMAIN bs : bs[k] = b THEN cycle ELSE asked[b]]

\* The access lies in one block.
LEMMA AccessedOne ==
    ASSUME cycle \in Nat, NEW c \in FirstLevels, NEW asked, Good(tb, c, asked),
           NEW b \in Blocks, NEW write \in BOOLEAN
    PROVE  LET u == Accessed(c, <<b>>, write) IN
           Good(u, c, DatesAfter(asked, <<b>>)) /\ OthersSame(tb, u, c)
<1> DEFINE first == Touched(tb, c, b, write)
           second == Touched(first, SecondLevel, b, write)
           third == Inserted(second, c, b)
           fourth == Inserted(third, SecondLevel, b)
<1>1. /\ Good(first, c, IF Hits(tb, c, b) THEN SetDate(asked, b) ELSE asked)
      /\ OthersSame(tb, first, c)
  BY GoodTouched
<1>2. asked \in [Blocks -> 0 .. cycle]
  BY DEF Good, AskedInv
<1>3. DatesAfter(asked, <<b>>) = SetDate(asked, b)
  <2>1. \A x : (\E k \in DOMAIN <<b>> : <<b>>[k] = x) <=> x = b
    OBVIOUS
  <2>2. DatesAfter(asked, <<b>>) =
          [x \in Blocks |-> IF x = b THEN cycle ELSE asked[x]]
    BY <2>1 DEF DatesAfter
  <2>3. SetDate(asked, b) = [x \in Blocks |-> IF x = b THEN cycle ELSE asked[x]]
    BY <1>2 DEF SetDate
  <2> QED BY <2>2, <2>3
<1>4. /\ Hits(tb, c, b) => Accessed(c, <<b>>, write) = first
      /\ ~Hits(tb, c, b) => Accessed(c, <<b>>, write) \in {third, fourth}
  <2>1. Len(<<b>>) = 1 /\ <<b>>[1] = b
    OBVIOUS
  <2>2. \A t, d : HitsAll(t, d, <<b>>) <=> Hits(t, d, b)
    BY DEF HitsAll
  <2> QED BY <2>1, <2>2 DEF Accessed, TouchedAll, InsertedAll
<1> HIDE DEF first
<1>5. CASE Hits(tb, c, b)
  BY <1>1, <1>3, <1>4, <1>5
<1>6. CASE ~Hits(tb, c, b)
  <2>1. Good(second, c, asked) /\ OthersSame(first, second, c)
    BY <1>1, <1>6, GoodBelow
  <2> HIDE DEF second
  <2>2. Good(third, c, SetDate(asked, b)) /\ OthersSame(second, third, c)
    BY <2>1, GoodInserted
  <2> HIDE DEF third
  <2>3. Good(fourth, c, SetDate(asked, b)) /\ OthersSame(third, fourth, c)
    BY <2>2, GoodBelow
  <2> HIDE DEF fourth
  <2>4. OthersSame(tb, third, c) /\ OthersSame(tb, fourth, c)
    BY <1>1, <2>1, <2>2, <2>3 DEF OthersSame
  <2> QED BY <2>2, <2>3, <2>4, <1>3, <1>4, <1>6
<1> QED BY <1>5, <1>6
\* The access lies in two blocks.
LEMMA AccessedTwo ==
    ASSUME cycle \in Nat, NEW c \in FirstLevels, NEW asked, Good(tb, c, asked),
           NEW a \in Blocks, NEW b \in Blocks, NEW write \in BOOLEAN
    PROVE  LET u == Accessed(c, <<a, b>>, write) IN
           Good(u, c, DatesAfter(asked, <<a, b>>)) /\ OthersSame(tb, u, c)
<1> DEFINE touch1 == Touched(tb, c, a, write)
           touch2 == Touched(touch1, c, b, write)
           below1 == Touched(touch2, SecondLevel, a, write)
           below2 == Touched(below1, SecondLevel, b, write)
           insert1 == Inserted(below2, c, a)
           insert2 == Inserted(insert1, c, b)
           fill1 == Inserted(insert2, SecondLevel, a)
           fill2 == Inserted(fill1, SecondLevel, b)
           dates1 == IF Hits(tb, c, a) THEN SetDate(asked, a) ELSE asked
           dates2 == IF Hits(tb, c, b) THEN SetDate(dates1, b) ELSE dates1
           dates4 == SetDate(SetDate(dates2, a), b)
           after == DatesAfter(asked, <<a, b>>)
<1>1. /\ Good(touch1, c, dates1) /\ OthersSame(tb, touch1, c)
      /\ Hits(touch1, c, b) <=> Hits(tb, c, b)
  BY GoodTouched
<1>2. LET u == Accessed(c, <<a, b>>, write) IN
      IF Hits(tb, c, a) /\ Hits(tb, c, b) THEN u = touch2 ELSE u \in {insert2, fill2}
  <2>1. Len(<<a, b>>) = 2 /\ <<a, b>>[1] = a /\ <<a, b>>[2] = b
    OBVIOUS
  <2>2. \A t, d : HitsAll(t, d, <<a, b>>) <=> Hits(t, d, a) /\ Hits(t, d, b)
    BY DEF HitsAll
  <2> QED BY <2>1, <2>2 DEF Accessed, TouchedAll, InsertedAll
<1>3. asked \in [Blocks -> 0 .. cycle]
  BY DEF Good, AskedInv
<1>4. /\ Hits(tb, c, a) /\ Hits(tb, c, b) => dates2 = after
      /\ dates4 = after
  <2>1. \A x : (\E k \in DOMAIN <<a, b>> : <<a, b>>[k] = x) <=> x \in {a, b}
    OBVIOUS
  <2>2. after = [x \in Blocks |-> IF x \in {a, b} THEN cycle ELSE asked[x]]
    BY <2>1 DEF DatesAfter
  <2>3. /\ dates1 \in [Blocks -> 0 .. cycle]
        /\ \A x \in Blocks : x # a => dates1[x] = asked[x]
        /\ Hits(tb, c, a) => dates1[a] = cycle
    BY <1>3 DEF SetDate
  <2> HIDE DEF dates1
  <2>4. /\ dates2 \in [Blocks -> 0 .. cycle]
        /\ \A x \in Blocks : x # b => dates2[x] = dates1[x]
        /\ Hits(tb, c, b) => dates2[b] = cycle
    BY <2>3 DEF SetDate
  <2> HIDE DEF dates2, after
  <2>5. Hits(tb, c, a) /\ Hits(tb, c, b) => dates2 = after
    BY <2>2, <2>3, <2>4
  <2>6. dates4 = after
    BY <2>2, <2>3, <2>4 DEF SetDate
  <2> QED BY <2>5, <2>6
<1> HIDE DEF touch1, dates1
<1>5. Good(touch2, c, dates2) /\ OthersSame(touch1, touch2, c)
  BY <1>1, GoodTouched
<1> HIDE DEF touch2, dates2
<1>6. OthersSame(tb, touch2, c)
  BY <1>1, <1>5 DEF OthersSame
<1>7. Good(below1, c, dates2) /\ OthersSame(touch2, below1, c)
  BY <1>5, GoodBelow
<1> HIDE DEF below1
<1>8. Good(below2, c, dates2) /\ OthersSame(below1, below2, c)
  BY <1>7, GoodBelow
<1> HIDE DEF below2
<1>9. Good(insert1, c, SetDate(dates2, a)) /\ OthersSame(below2, insert1, c)
  BY <1>8, GoodInserted
<1> HIDE DEF insert1
<1>10. Good(insert2, c, dates4) /\ OthersSame(insert1, insert2, c)
  BY <1>9, GoodInserted
<1> HIDE DEF insert2, dates4
<1>11. Good(fill1, c, dates4) /\ OthersSame(insert2, fill1, c)
  BY <1>10, GoodBelow
<1> HIDE DEF fill1
<1>12. Good(fill2, c, dates4) /\ OthersSame(fill1, fill2, c)
  BY <1>11, GoodBelow
<1> HIDE DEF fill2
<1>13. OthersSame(tb, insert2, c)
  BY <1>6, <1>7, <1>8, <1>9, <1>10 DEF OthersSame
<1>14. OthersSame(tb, fill2, c)
  BY <1>11, <1>12, <1>13 DEF OthersSame
<1> HIDE DEF after
<1> QED BY <1>2, <1>4, <1>5, <1>6, <1>10, <1>12, <1>13, <1>14 DEF after

-----------------------------------------------------------------------------
\* The inductive invariant.

CacheInv ==
    /\ cycle \in 1 .. MaxCycle
    /\ LinesInv(tb, cycle)
    /\ accessed = [c \in FirstLevels |-> accessed[c]]
    /\ \A c \in FirstLevels : AskedInv(tb, c, accessed[c], cycle)

\* Empty caches are in order.
LEMMA InitCacheInv == CacheInit => CacheInv
<1> SUFFICES ASSUME CacheInit PROVE CacheInv
  OBVIOUS
<1>1. cycle = 1 /\ cycle \in 1 .. MaxCycle
  BY CacheAssumption DEF CacheInit
<1>2. EmptySlot \in Slot
  BY DEF EmptySlot, Slot
<1>3. \A c \in CacheIds : /\ tb[c] \in [Indices(c) -> Lines(c)]
                          /\ \A i \in Indices(c) :
                               tb[c][i] = [w \in 1 .. Ways[c] |-> EmptySlot]
  BY <1>2 DEF CacheInit, Lines
<1>4. LinesInv(tb, cycle)
  <2>1. IsTables(tb)
    BY <1>3 DEF CacheInit, IsTables
  <2>2. ASSUME NEW c \in CacheIds, NEW i \in Indices(c)
        PROVE  LineInv(tb[c][i], c, i, cycle)
    <3>1. PICK l : l = tb[c][i]
      OBVIOUS
    <3>2. l \in Lines(c) /\ l = [w \in 1 .. Ways[c] |-> EmptySlot]
      BY <2>2, <3>1, <1>3
    <3>3. Compact(l) /\ Once(l) /\ Placeable(l, c, i, cycle)
      BY <3>2, <1>1 DEF Compact, Once, Placeable, EmptySlot
    <3> QED BY <3>1, <3>2, <3>3 DEF LineInv
  <2> QED BY <2>1, <2>2 DEF LinesInv
<1>5. ASSUME NEW c \in FirstLevels
      PROVE  AskedInv(tb, c, accessed[c], cycle)
  <2>1. c \in CacheIds /\ accessed[c] = [b \in Blocks |-> 0]
    BY DEF FirstLevels, CacheIds, CacheInit
  <2>2. accessed[c] \in [Blocks -> 0 .. cycle]
    BY <2>1, <1>1
  <2>3. ASSUME NEW i \in Indices(c)
        PROVE  Dated(tb[c][i], accessed[c]) /\ LeftOld(tb[c][i], c, i, accessed[c])
    <3>1. tb[c][i] = [w \in 1 .. Ways[c] |-> EmptySlot]
      BY <1>3, <2>1
    <3>2. Dated(tb[c][i], accessed[c])
      BY <3>1 DEF Dated, EmptySlot
    <3>3. LeftOld(tb[c][i], c, i, accessed[c])
      BY <2>1 DEF LeftOld
    <3> QED BY <3>2, <3>3
  <2> QED BY <2>2, <2>3 DEF AskedInv
<1>6. accessed = [c \in FirstLevels |-> accessed[c]]
  BY DEF CacheInit, FirstLevels
<1> QED BY <1>1, <1>4, <1>5, <1>6 DEF CacheInv

\* An access to the blocks of bs.
LEMMA AccessKeepsCacheInv ==
    ASSUME CacheInv, NEW c \in FirstLevels, NEW bs, NEW write \in BOOLEAN,
           \/ \E b \in Blocks : bs = <<b>>
           \/ \E a, b \in Blocks : bs = <<a, b>>,
           Access(c, bs, write)
    PROVE  CacheInv'
<1>1. /\ cycle' = cycle /\ cycle \in Nat /\ cycle \in 1 .. MaxCycle
      /\ LinesInv(tb, cycle)
      /\ accessed = [d \in FirstLevels |-> accessed[d]]
      /\ \A d \in FirstLevels : AskedInv(tb, d, accessed[d], cycle)
  BY CacheAssumption DEF CacheInv, Access
<1>2. Good(tb, c, accessed[c])
  BY <1>1 DEF Good
<1>3. Good(tb', c, DatesAfter(accessed[c], bs)) /\ OthersSame(tb, tb', c)
  <2>1. tb' = Accessed(c, bs, write)
    BY DEF Access
  <2>2. ASSUME NEW b \in Blocks, bs = <<b>>
        PROVE  Good(tb', c, DatesAfter(accessed[c], bs)) /\ OthersSame(tb, tb', c)
    BY <2>1, <2>2, <1>1, <1>2, AccessedOne
  <2>3. ASSUME NEW a \in Blocks, NEW b \in Blocks, bs = <<a, b>>
        PROVE  Good(tb', c, DatesAfter(accessed[c], bs)) /\ OthersSame(tb, tb', c)
    BY <2>1, <2>3, <1>1, <1>2, AccessedTwo
  <2> QED BY <2>2, <2>3
<1>4. accessed' = [accessed EXCEPT ![c] = DatesAfter(accessed[c], bs)]
  BY DEF Access, DatesAfter
<1>5. LinesInv(tb', cycle)
  BY <1>3 DEF Good
<1>6. ASSUME NEW d \in FirstLevels
      PROVE  AskedInv(tb', d, accessed'[d], cycle)
  <2>1. CASE d = c
    <3>1. accessed'[d] = DatesAfter(accessed[c], bs)
      BY <2>1, <1>1, <1>4
    <3> QED BY <3>1, <2>1, <1>3 DEF Good
  <2>2. CASE d # c
    <3>1. d \in CacheIds /\ d # SecondLevel
      BY DEF FirstLevels, CacheIds, InstCache, DataCache, SecondLevel
    <3>2. tb'[d] = tb[d] /\ accessed'[d] = accessed[d]
      BY <3>1, <2>2, <1>1, <1>3, <1>4 DEF OthersSame
    <3>3. AskedInv(tb, d, accessed[d], cycle)
      BY <1>1
    <3> QED BY <3>2, <3>3 DEF AskedInv
  <2> QED BY <2>1, <2>2
<1>7. accessed' = [d \in FirstLevels |-> accessed'[d]]
  BY <1>1, <1>4
<1> QED BY <1>1, <1>5, <1>6, <1>7 DEF CacheInv

\* Time goes on.
LEMMA CycleKeepsCacheInv ==
    ASSUME CacheInv, NextCycle
    PROVE  CacheInv'
<1>1. /\ cycle' = cycle + 1 /\ cycle < MaxCycle /\ tb' = tb /\ accessed' = accessed
      /\ cycle \in 1 .. MaxCycle /\ LinesInv(tb, cycle)
      /\ accessed = [d \in FirstLevels |-> accessed[d]]
      /\ \A d \in FirstLevels : AskedInv(tb, d, accessed[d], cycle)
  BY DEF CacheInv, NextCycle
<1>2. cycle' \in 1 .. MaxCycle /\ cycle \in Nat /\ cycle' \in Nat
  BY <1>1, CacheAssumption
<1>3. ASSUME NEW c \in CacheIds, NEW i \in Indices(c)
      PROVE  LineInv(tb[c][i], c, i, cycle')
  <2>1. PICK l : l = tb[c][i]
    OBVIOUS
  <2>2. /\ l \in Lines(c) /\ Compact(l) /\ Once(l) /\ Placeable(l, c, i, cycle)
    BY <2>1, <1>1, <1>3 DEF LinesInv, LineInv
  <2>3. \A w \in DOMAIN l : l[w].last \in Nat
    BY <2>2 DEF Lines, Slot
  <2>4. Placeable(l, c, i, cycle')
    <3>1. \A w \in DOMAIN l : l[w].last <= cycle'
      BY <2>2, <2>3, <1>1, <1>2 DEF Placeable
    <3> QED BY <3>1, <2>2 DEF Placeable
  <2> QED BY <2>1, <2>2, <2>4 DEF LineInv
<1>4. LinesInv(tb', cycle')
  BY <1>1, <1>3 DEF LinesInv
<1>5. ASSUME NEW c \in FirstLevels
      PROVE  AskedInv(tb', c, accessed'[c], cycle')
  <2>1. accessed[c] \in [Blocks -> 0 .. cycle]
    BY <1>1 DEF AskedInv
  <2>2. accessed[c] \in [Blocks -> 0 .. cycle']
    BY <2>1, <1>1, <1>2
  <2> QED BY <2>2, <1>1 DEF AskedInv
<1> QED BY <1>1, <1>2, <1>4, <1>5 DEF CacheInv

\* Every access of the fetch, of a load or store, and the end of a cycle keep
\* the invariant.
LEMMA NextCacheInv == CacheInv /\ [CacheNext]_cacheVars => CacheInv'
<1> SUFFICES ASSUME CacheInv, [CacheNext]_cacheVars PROVE CacheInv'
  OBVIOUS
<1>1. CASE FetchAccess
  <2>1. PICK b \in Blocks : Access(InstCache, <<b>>, FALSE)
    BY <1>1 DEF FetchAccess
  <2> QED BY <2>1, AccessKeepsCacheInv DEF FirstLevels
<1>2. CASE OperandAccess
  <2>1. PICK write \in BOOLEAN, b \in Blocks :
          \/ Access(DataCache, <<b>>, write)
          \/ b + 1 \in Blocks /\ Access(DataCache, <<b, b + 1>>, write)
    BY <1>2 DEF OperandAccess
  <2> QED BY <2>1, AccessKeepsCacheInv DEF FirstLevels
<1>3. CASE NextCycle
  BY <1>3, CycleKeepsCacheInv
<1>4. CASE UNCHANGED cacheVars
  BY <1>4 DEF cacheVars, CacheInv, LinesInv, IsTables, AskedInv
<1> QED BY <1>1, <1>2, <1>3, <1>4 DEF CacheNext

\* The inductive invariant holds in every behaviour.
LEMMA CacheInvHolds == CacheSpec => []CacheInv
BY InitCacheInv, NextCacheInv, PTL DEF CacheSpec

-----------------------------------------------------------------------------
\* Every slot keeps its type, its block is in the set of its address, and no
\* slot is dated later than now.
THEOREM TypeCorrect == CacheSpec => []CacheTypeOK
<1>1. CacheInv => CacheTypeOK
  <2> SUFFICES ASSUME CacheInv PROVE CacheTypeOK
    OBVIOUS
  <2>1. ASSUME NEW c \in CacheIds, NEW i \in Indices(c), NEW w \in 1 .. Ways[c]
        PROVE  LET s == tb[c][i][w] IN
               /\ {s.busy, s.dirty} \subseteq BOOLEAN
               /\ s.last \in 0 .. cycle
               /\ s.busy => s.tag \in Blocks /\ Index(c, s.tag) = i
    <3>1. PICK l : l = tb[c][i]
      OBVIOUS
    <3>2. l \in [1 .. Ways[c] -> Slot] /\ Placeable(l, c, i, cycle)
      BY <2>1, <3>1 DEF CacheInv, LinesInv, LineInv, Lines
    <3>3. l[w] \in Slot /\ l[w].last <= cycle /\ cycle \in Nat
          /\ (l[w].busy => l[w].tag \in Blocks /\ Index(c, l[w].tag) = i)
      BY <3>2, CacheAssumption DEF Placeable, CacheInv
    <3> QED BY <3>1, <3>3 DEF Slot
  <2> QED BY <2>1 DEF CacheInv, CacheTypeOK
<1> QED BY <1>1, CacheInvHolds, PTL

\* No sequence of accesses, misses of other blocks and copies back puts a
\* block into two slots of a cache.
THEOREM OneSlotPerBlockHolds == CacheSpec => []OneSlotPerBlock
<1>1. CacheInv => OneSlotPerBlock
  <2> SUFFICES ASSUME CacheInv, NEW c \in CacheIds, NEW b \in Blocks,
                      NEW v \in 1 .. Ways[c], NEW w \in 1 .. Ways[c],
                      Holds(Line(tb, c, b)[v], b), Holds(Line(tb, c, b)[w], b)
               PROVE  v = w
    BY DEF OneSlotPerBlock
  <2>1. PICK l : l = Line(tb, c, b)
    OBVIOUS
  <2>2. Once(l) /\ DOMAIN l = 1 .. Ways[c]
    BY <2>1, IndexType DEF CacheInv, LinesInv, LineInv, Lines, Line
  <2> QED BY <2>1, <2>2 DEF Once, Holds
<1> QED BY <1>1, CacheInvHolds, PTL

\* A first level never drops a block while its set holds one that it was asked
\* for less recently.
THEOREM OnlyOldBlocksLeaveHolds == CacheSpec => []OnlyOldBlocksLeave
<1>1. CacheInv => OnlyOldBlocksLeave
  <2> SUFFICES ASSUME CacheInv, NEW c \in FirstLevels, NEW b \in Blocks,
                      accessed[c][b] > 0, ~Hits(tb, c, b),
                      NEW w \in 1 .. Ways[c]
               PROVE  LET s == Line(tb, c, b)[w] IN
                      s.busy /\ s.last >= accessed[c][b]
                             /\ accessed[c][s.tag] = s.last
    BY DEF OnlyOldBlocksLeave, CacheInv
  <2>1. PICK l : l = Line(tb, c, b)
    OBVIOUS
  <2>2. c \in CacheIds
    BY DEF FirstLevels, CacheIds
  <2>3. /\ Dated(l, accessed[c]) /\ LeftOld(l, c, Index(c, b), accessed[c])
        /\ DOMAIN l = 1 .. Ways[c]
    BY <2>1, <2>2, IndexType DEF CacheInv, AskedInv, Line, LinesInv, LineInv, Lines
  <2>4. \A x \in DOMAIN l : ~Holds(l[x], b)
    BY <2>1, <2>3 DEF Hits
  <2>5. l[w].busy /\ l[w].last >= accessed[c][b]
    BY <2>3, <2>4 DEF LeftOld
  <2>6. accessed[c][l[w].tag] = l[w].last
    BY <2>3, <2>5 DEF Dated
  <2> QED BY <2>1, <2>5, <2>6
<1> QED BY <1>1, CacheInvHolds, PTL
=============================================================================
