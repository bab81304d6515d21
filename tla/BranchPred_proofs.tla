-------------------------- MODULE BranchPred_proofs --------------------------
(***************************************************************************)
(* Theorems about StaticList and BranchPred, for any capacity, hash and    *)
(* branches: the lists in arrays stand for sequences, the hash points to   *)
(* elements, a search is a look-up, and the predictor implements LruTable. *)
(***************************************************************************)
EXTENDS MCTables, Cache_proofs, SequenceTheorems

-----------------------------------------------------------------------------
\* The invariant of a list l whose loop visits the slots w[1], ..., w[l.n].

\* No element is twice in the sequence q of length n.
Injective(q, n) == \A j, k \in 1 .. n : q[j] = q[k] => j = k

\* What the fields may hold whatever operations are called.
RawList ==
    [data : [Slots -> Pointers \cup {NoData}],
     prev : [Slots -> Links], next : [Slots -> Links],
     begin : Links, end : Links, n : Int, empty : Seq(Slots)]

\* The links lead through w in both directions.
Linked(l, w) ==
    /\ l.n \in 0 .. Capacity
    /\ w \in [1 .. l.n -> Slots]
    /\ Injective(w, l.n)
    /\ l.begin = IF l.n = 0 THEN EndOfList ELSE w[1]
    /\ l.end = IF l.n = 0 THEN EndOfList ELSE w[l.n]
    /\ \A k \in 1 .. l.n :
         /\ l.next[w[k]] = IF k = l.n THEN EndOfList ELSE w[k + 1]
         /\ l.prev[w[k]] = IF k = 1 THEN EndOfList ELSE w[k - 1]

\* All other slots are in the chain of free ones; an empty list has the chain
\* it began with, whose first slot is the one that the next insertion uses.
Chained(l, w) ==
    /\ l.empty \in [1 .. Capacity - l.n -> Slots]
    /\ Injective(l.empty, Capacity - l.n)
    /\ \A k \in 1 .. l.n, j \in 1 .. Capacity - l.n : w[k] # l.empty[j]
    /\ l.n = 0 => l.empty = FreeChain

\* The slots with a payload are the visited ones.
Filled(l, w) ==
    \A i \in Slots : l.data[i] # NoData <=> \E k \in 1 .. l.n : w[k] = i

Visits(l, w) == l \in RawList /\ Linked(l, w) /\ Chained(l, w) /\ Filled(l, w)

\* The sequence w of length n without its k-th element, and with a new first
\* or last one.
Without(w, n, k) == [j \in 1 .. n - 1 |-> IF j < k THEN w[j] ELSE w[j + 1]]
Before(w, n, i) == [j \in 1 .. n + 1 |-> IF j = 1 THEN i ELSE w[j - 1]]
After(w, n, i) == [j \in 1 .. n + 1 |-> IF j = n + 1 THEN i ELSE w[j]]

-----------------------------------------------------------------------------
\* Induction and recursion over an interval.

\* A set with 0 that contains the successors of its elements.
LEMMA Inductive ==
    ASSUME NEW n \in Nat, NEW S, 0 \in S, \A k \in 1 .. n : k - 1 \in S => k \in S
    PROVE  0 .. n \subseteq S
<1> SUFFICES ASSUME (0 .. n) \ S # {} PROVE FALSE
  OBVIOUS
<1>1. (0 .. n) \ S \in SUBSET Nat
  OBVIOUS
<1>2. PICK x \in (0 .. n) \ S : \A y \in (0 .. n) \ S : x <= y
  BY <1>1, LeastExists
<1>3. x \in 1 .. n /\ x - 1 \in 0 .. n /\ ~(x <= x - 1)
  BY <1>2
<1> QED BY <1>2, <1>3

\* The function F, of the number of the step and a value, leads from the
\* elements of T[k - 1] to those of T[k]; g is what it makes of a.
Steppable(n, T, a, F) ==
    /\ n \in Nat
    /\ a \in T[0]
    /\ \A k \in 1 .. n : \A x \in T[k - 1] : F[<<k, x>>] \in T[k]

Iterates(n, T, a, F, g) ==
    /\ g = [k \in 0 .. n |-> g[k]]
    /\ g[0] = a
    /\ \A k \in 0 .. n : g[k] \in T[k]
    /\ \A k \in 1 .. n : g[k] = F[<<k, g[k - 1]>>]

\* Such a step can be iterated.
LEMMA Iteration ==
    ASSUME NEW n, NEW T, NEW a, NEW F, Steppable(n, T, a, F)
    PROVE  \E g : Iterates(n, T, a, F, g)
<1> DEFINE Steps(m, g) ==
             /\ g = [k \in 0 .. m |-> g[k]]
             /\ g[0] = a
             /\ \A k \in 0 .. m : g[k] \in T[k]
             /\ \A k \in 1 .. m : g[k] = F[<<k, g[k - 1]>>]
           S == {m \in 0 .. n : \E g : Steps(m, g)}
<1>0. /\ n \in Nat
      /\ a \in T[0]
      /\ \A k \in 1 .. n : \A x \in T[k - 1] : F[<<k, x>>] \in T[k]
  BY DEF Steppable
<1>1. 0 \in S
  <2> DEFINE g == [m \in 0 .. 0 |-> a]
  <2>1. DOMAIN g = 0 .. 0 /\ g[0] = a /\ g = [k \in 0 .. 0 |-> g[k]]
    OBVIOUS
  <2> HIDE DEF g
  <2>2. 0 \in 0 .. n
    BY <1>0
  <2>3. Steps(0, g)
    BY <1>0, <2>1
  <2> HIDE DEF Steps
  <2> QED BY <2>2, <2>3
<1>2. ASSUME NEW m \in 1 .. n, m - 1 \in S PROVE m \in S
  <2>1. PICK g : Steps(m - 1, g)
    BY <1>2
  <2>2. m - 1 \in 0 .. m - 1 /\ F[<<m, g[m - 1]>>] \in T[m]
    BY <1>0, <2>1
  <2> DEFINE h == [j \in 0 .. m |-> IF j = m THEN F[<<m, g[m - 1]>>] ELSE g[j]]
  <2>3. h = [k \in 0 .. m |-> h[k]]
    OBVIOUS
  <2>4. \A j \in 0 .. m - 1 : h[j] = g[j]
    OBVIOUS
  <2>5. h[m] = F[<<m, g[m - 1]>>]
    OBVIOUS
  <2> HIDE DEF h
  <2>6. h[0] = a
    BY <2>1, <2>4
  <2>7. ASSUME NEW k \in 1 .. m PROVE h[k] = F[<<k, h[k - 1]>>]
    <3>1. CASE k = m
      <4>1. h[k - 1] = g[m - 1]
        BY <2>2, <2>4, <3>1
      <4> QED BY <2>5, <3>1, <4>1
    <3>2. CASE k # m
      <4>1. k \in 1 .. m - 1 /\ k \in 0 .. m - 1 /\ k - 1 \in 0 .. m - 1
        BY <3>2
      <4> QED BY <2>1, <2>4, <4>1
    <3> QED BY <3>1, <3>2
  <2>8. ASSUME NEW k \in 0 .. m PROVE h[k] \in T[k]
    <3>1. CASE k = m
      BY <2>2, <2>5, <3>1
    <3>2. CASE k # m
      <4>1. k \in 0 .. m - 1
        BY <3>2
      <4> QED BY <2>1, <2>4, <4>1
    <3> QED BY <3>1, <3>2
  <2>9. Steps(m, h)
    BY <2>3, <2>6, <2>7, <2>8
  <2> HIDE DEF Steps
  <2> QED BY <2>9
<1> HIDE DEF S
<1>3. n \in S
  BY <1>0, <1>1, <1>2, Inductive
<1> QED BY <1>3 DEF S, Iterates

-----------------------------------------------------------------------------
\* A loop over a list.

\* It visits the slots in their order.
LEMMA WalkIs ==
    ASSUME NEW l, NEW w, Visits(l, w)
    PROVE  Walk(l) = w
<1> DEFINE n == l.n
           after == [i \in Links |-> IF i = EndOfList THEN EndOfList
                                     ELSE GetNext(l, i)]
           at[k \in 1 .. Capacity] ==
               IF k = 1 THEN GetFirst(l) ELSE after[at[k - 1]]
           it == [k \in 1 .. Capacity |-> IF k <= n THEN w[k] ELSE EndOfList]
<1>1. /\ n \in 0 .. Capacity /\ Capacity \in Nat \ {0} /\ w \in [1 .. n -> Slots]
      /\ Slots \subseteq Links /\ EndOfList \notin Slots /\ EndOfList \in Links
  BY CapacityAssumption DEF Visits, Linked, Slots, Links, EndOfList
<1>2. ASSUME NEW k \in 1 .. Capacity
      PROVE  it[k] = IF k = 1 THEN GetFirst(l) ELSE after[it[k - 1]]
  <2>1. CASE k = 1
    BY <1>1, <2>1 DEF Visits, Linked, GetFirst
  <2>2. CASE k # 1 /\ k - 1 <= n
    <3>1. k - 1 \in 1 .. n /\ it[k - 1] = w[k - 1] /\ w[k - 1] \in Slots
      BY <1>1, <2>2
    <3>2. after[it[k - 1]] = l.next[w[k - 1]]
      BY <1>1, <3>1 DEF GetNext
    <3>3. l.next[w[k - 1]] = IF k - 1 = n THEN EndOfList ELSE w[(k - 1) + 1]
      BY <3>1 DEF Visits, Linked
    <3>4. (k - 1) + 1 = k /\ (k <= n <=> k - 1 # n)
      BY <1>1, <2>2
    <3> QED BY <2>2, <3>2, <3>3, <3>4
  <2>3. CASE k # 1 /\ ~(k - 1 <= n)
    <3>1. it[k - 1] = EndOfList /\ it[k] = EndOfList
      BY <1>1, <2>3
    <3> QED BY <1>1, <2>3, <3>1
  <2> QED BY <2>1, <2>2, <2>3
<1>3. it = [k \in 1 .. Capacity |->
              IF k = 1 THEN GetFirst(l) ELSE after[it[k - 1]]]
  BY <1>2, Zenon
<1> HIDE DEF it, after
<1>4. at = [k \in 1 .. Capacity |->
              IF k = 1 THEN GetFirst(l) ELSE after[at[k - 1]]]
  BY <1>3, Zenon
<1> HIDE DEF at
<1>5. \A k \in 1 .. Capacity :
        at[k] = IF k = 1 THEN GetFirst(l) ELSE after[at[k - 1]]
  BY <1>4
<1>6. ASSUME NEW k \in 0 .. Capacity PROVE k # 0 => at[k] = it[k]
  <2> DEFINE S == {j \in 0 .. Capacity : j # 0 => at[j] = it[j]}
  <2>1. 0 \in S
    BY <1>1
  <2>2. ASSUME NEW j \in 1 .. Capacity, j - 1 \in S PROVE j \in S
    BY <1>2, <1>5, <2>2
  <2> HIDE DEF S
  <2>3. 0 .. Capacity \subseteq S
    BY <1>1, <2>1, <2>2, Inductive
  <2> QED BY <2>3 DEF S
<1>7. \A k \in 1 .. Capacity : at[k] = IF k <= n THEN w[k] ELSE EndOfList
  <2>1. \A k \in 1 .. Capacity : k \in 0 .. Capacity /\ k # 0
    BY <1>1
  <2> QED BY <1>6, <2>1 DEF it
<1>8. {j \in 1 .. Capacity : at[j] # EndOfList} = 1 .. n
  BY <1>1, <1>7
<1>9. Walk(l) = [k \in {j \in 1 .. Capacity : at[j] # EndOfList} |-> at[k]]
  BY DEF Walk, at, after
<1>10. Walk(l) = [k \in 1 .. n |-> at[k]]
  BY <1>8, <1>9
<1> QED BY <1>1, <1>7, <1>10

\* The sequence it stands for.
LEMMA ContentsIs ==
    ASSUME NEW l, NEW w, Visits(l, w)
    PROVE  Contents(l) = [k \in 1 .. l.n |-> l.data[w[k]]]
<1>1. l.n \in Nat /\ w \in [1 .. l.n -> Slots]
  BY CapacityAssumption DEF Visits, Linked
<1>2. Len(w) = l.n
  BY <1>1, LenProperties, IsASeq
<1> QED BY <1>2, WalkIs DEF Contents

-----------------------------------------------------------------------------
\* The operations of a list.

\* The slot of an insertion is free.
LEMMA AddedFree ==
    ASSUME NEW l, NEW w, Visits(l, w), l.n < Capacity
    PROVE  /\ l.empty # <<>> /\ AddedSlot(l) \in Slots
           /\ AddedSlot(l) = Head(l.empty) /\ AddedSlot(l) = l.empty[1]
           /\ \A k \in 1 .. l.n : w[k] # AddedSlot(l)
           /\ l.empty \in Seq(Slots) /\ Len(l.empty) = Capacity - l.n
           /\ 1 \in 1 .. Capacity - l.n
<1>1. l.n \in 0 .. Capacity /\ Capacity \in Nat \ {0}
  BY CapacityAssumption DEF Visits, Linked
<1>2. /\ l.empty \in [1 .. Capacity - l.n -> Slots] /\ Capacity - l.n \in Nat \ {0}
      /\ 1 \in 1 .. Capacity - l.n
  BY <1>1 DEF Visits, Chained
<1>3. /\ l.empty \in Seq(Slots) /\ Len(l.empty) = Capacity - l.n
      /\ l.empty # <<>> /\ Head(l.empty) = l.empty[1]
  BY <1>2, IsASeq, LenProperties, HeadTailProperties, EmptySeq
<1>4. l.n = 0 => l.empty[1] = 0
  BY <1>1, <1>2 DEF Visits, Chained, FreeChain
<1>5. AddedSlot(l) = l.empty[1]
  BY <1>3, <1>4 DEF AddedSlot
<1>6. l.empty[1] \in Slots /\ \A k \in 1 .. l.n : w[k] # l.empty[1]
  BY <1>2 DEF Visits, Chained
<1> QED BY <1>2, <1>3, <1>5, <1>6

\* The slots of v are those of w, which has length n, and i.
Extends(v, w, n, i) ==
    {v[k] : k \in 1 .. n + 1} = {w[k] : k \in 1 .. n} \cup {i}

\* What both insertions do to the chain and the payloads of a list.
LEMMA AddedRest ==
    ASSUME NEW l, NEW w, Visits(l, w), l.n < Capacity, NEW d \in Pointers,
           NEW u, NEW v,
           u.n = l.n + 1, u.empty = Tail(l.empty),
           u.data = [l.data EXCEPT ![AddedSlot(l)] = d],
           Extends(v, w, l.n, AddedSlot(l))
    PROVE  Chained(u, v) /\ Filled(u, v) /\ u.empty \in Seq(Slots)
<1> DEFINE i == AddedSlot(l)
           n == l.n
           c == Capacity - l.n
<1>1. /\ n \in Nat /\ n + 1 # 0 /\ n + 1 \in 0 .. Capacity /\ c \in Nat \ {0}
      /\ Capacity - (n + 1) = c - 1 /\ c - 1 \in Nat
  BY CapacityAssumption, SMTT(30) DEF Visits, Linked
<1>2. /\ l.empty \in Seq(Slots) /\ l.empty # <<>> /\ Len(l.empty) = c
      /\ i \in Slots /\ i = l.empty[1] /\ \A k \in 1 .. n : w[k] # i
  BY AddedFree
<1>3. /\ u.empty \in Seq(Slots) /\ Len(u.empty) = c - 1
      /\ \A j \in 1 .. c - 1 : u.empty[j] = l.empty[j + 1]
  BY <1>2, HeadTailProperties
<1>4. u.empty \in [1 .. c - 1 -> Slots]
  BY <1>3, LenProperties
<1>5. \A j, k \in 1 .. c : l.empty[j] = l.empty[k] => j = k
  BY DEF Visits, Chained, Injective
<1>6. \A k \in 1 .. n, j \in 1 .. c : w[k] # l.empty[j]
  BY DEF Visits, Chained
<1>7. \A j \in 1 .. c - 1 : j + 1 \in 1 .. c /\ j + 1 # 1
  BY <1>1
<1>8. 1 \in 1 .. c
  BY <1>1
<1>9. Injective(u.empty, c - 1)
  <2> SUFFICES ASSUME NEW j \in 1 .. c - 1, NEW k \in 1 .. c - 1,
                      u.empty[j] = u.empty[k]
               PROVE  j = k
    BY DEF Injective
  <2>1. j + 1 = k + 1
    BY <1>3, <1>5, <1>7
  <2> QED BY <1>1, <2>1
<1>10. \A k \in 1 .. n + 1, j \in 1 .. c - 1 : v[k] # u.empty[j]
  <2>1. \A k \in 1 .. n + 1 : v[k] = i \/ \E j \in 1 .. n : v[k] = w[j]
    BY DEF Extends
  <2> QED BY <1>2, <1>3, <1>5, <1>6, <1>7, <1>8, <2>1
<1>11. Chained(u, v)
  BY <1>1, <1>4, <1>9, <1>10 DEF Chained
<1>12. Filled(u, v)
  <2> SUFFICES ASSUME NEW s \in Slots
               PROVE  u.data[s] # NoData <=> \E k \in 1 .. n + 1 : v[k] = s
    BY DEF Filled
  <2>1. d # NoData /\ l.data \in [Slots -> Pointers \cup {NoData}]
    BY PredictorAssumption DEF Visits, RawList, Pointers
  <2>2. u.data[s] = IF s = i THEN d ELSE l.data[s]
    BY <1>2, <2>1
  <2>3. l.data[s] # NoData <=> \E k \in 1 .. n : w[k] = s
    BY DEF Visits, Filled
  <2>4. (\E k \in 1 .. n + 1 : v[k] = s) <=> s = i \/ \E k \in 1 .. n : w[k] = s
    BY DEF Extends
  <2> QED BY <2>1, <2>2, <2>3, <2>4
<1> QED BY <1>3, <1>11, <1>12

\* An insertion in front.
LEMMA AddBeginningFacts ==
    ASSUME NEW l, NEW w, Visits(l, w), l.n < Capacity, NEW d \in Pointers
    PROVE  LET u == AddBeginning(l, d) IN
           /\ Visits(u, Before(w, l.n, AddedSlot(l)))
           /\ u.n = l.n + 1 /\ u.begin = AddedSlot(l)
           /\ u.data = [l.data EXCEPT ![AddedSlot(l)] = d]
<1> DEFINE u == AddBeginning(l, d)
           i == AddedSlot(l)
           n == l.n
           v == Before(w, n, i)
<1>1. /\ n \in Nat /\ n + 1 \in 0 .. Capacity /\ w \in [1 .. n -> Slots] /\ n \in Int
      /\ Slots \subseteq Links /\ EndOfList \in Links /\ d \in Pointers \cup {NoData}
      /\ n + 1 \in Int
  BY CapacityAssumption DEF Visits, Linked, Links
<1>2. /\ l.empty # <<>> /\ i \in Slots /\ \A k \in 1 .. n : w[k] # i
  BY AddedFree
<1>3. l \in RawList
  BY DEF Visits
<1>4. u.n = n + 1 /\ u.begin = i /\ u.empty = Tail(l.empty)
  <2>1. CASE n = 0
    BY <1>2, <1>3, <2>1 DEF AddBeginning, AddOnly, RawList, AddedSlot
  <2>2. CASE n # 0
    BY <1>2, <1>3, <2>2 DEF AddBeginning, RawList
  <2> QED BY <2>1, <2>2
<1>5. u.data = [l.data EXCEPT ![i] = d]
  <2>1. CASE n = 0
    BY <1>2, <1>3, <2>1 DEF AddBeginning, AddOnly, RawList, AddedSlot
  <2>2. CASE n # 0
    BY <1>2, <1>3, <2>2 DEF AddBeginning, RawList
  <2> QED BY <2>1, <2>2
<1>6. /\ v \in [1 .. n + 1 -> Slots] /\ v[1] = i /\ 1 \in 1 .. n + 1
      /\ \A k \in 1 .. n : v[k + 1] = w[k] /\ k + 1 \in 1 .. n + 1
      /\ \A k \in 1 .. n + 1 : k # 1 => k - 1 \in 1 .. n /\ v[k] = w[k - 1]
  BY <1>1, <1>2 DEF Before
<1>7. Chained(u, v) /\ Filled(u, v) /\ u.empty \in Seq(Slots)
  <2> HIDE DEF u, v
  <2>1. Extends(v, w, n, i)
    BY <1>6 DEF Extends
  <2> QED BY <1>4, <1>5, <2>1, AddedRest
<1>8. u \in RawList
  <2>1. CASE n = 0
    BY <1>1, <1>2, <1>3, <1>4, <1>7, <2>1, ZenonT(40)
    DEF AddBeginning, AddOnly, RawList, AddedSlot
  <2>2. CASE n # 0
    BY <1>1, <1>2, <1>3, <1>4, <1>7, <2>2 DEF AddBeginning, RawList
  <2> QED BY <2>1, <2>2
<1>9. Injective(v, n + 1)
  <2> SUFFICES ASSUME NEW j \in 1 .. n + 1, NEW k \in 1 .. n + 1, v[j] = v[k]
               PROVE  j = k
    BY DEF Injective
  <2>1. j # 1 /\ k # 1 => j - 1 = k - 1
    BY <1>6 DEF Visits, Linked, Injective
  <2> QED BY <1>1, <1>2, <1>6, <2>1
<1>10. u.end = v[n + 1]
  <2>1. CASE n = 0
    BY <1>2, <1>3, <1>6, <2>1 DEF AddBeginning, AddOnly, RawList, AddedSlot
  <2>2. CASE n # 0
    <3>1. u.end = l.end /\ l.end = w[n] /\ n \in 1 .. n
      BY <1>1, <1>2, <1>3, <2>2 DEF AddBeginning, RawList, Visits, Linked
    <3> QED BY <1>6, <3>1
  <2> QED BY <2>1, <2>2
<1>11. ASSUME NEW k \in 1 .. n + 1
       PROVE  /\ u.next[v[k]] = IF k = n + 1 THEN EndOfList ELSE v[k + 1]
              /\ u.prev[v[k]] = IF k = 1 THEN EndOfList ELSE v[k - 1]
  <2>1. CASE n = 0
    <3>1. k = 1 /\ v[k] = i /\ i = 0
      BY <1>6, <2>1 DEF AddedSlot
    <3>2. u.next[i] = EndOfList /\ u.prev[i] = EndOfList
      BY <1>2, <1>3, <2>1, <3>1 DEF AddBeginning, AddOnly, RawList
    <3> QED BY <2>1, <3>1, <3>2
  <2>2. CASE n # 0
    <3>1. l.begin = w[1] /\ 1 \in 1 .. n /\ w[1] \in Slots
      BY <1>1, <2>2 DEF Visits, Linked
    <3>2. u.next = [l.next EXCEPT ![i] = w[1]]
      BY <1>2, <1>3, <2>2, <3>1 DEF AddBeginning, RawList
    <3>3. u.prev = [l.prev EXCEPT ![i] = EndOfList, ![w[1]] = i]
      BY <1>2, <1>3, <2>2, <3>1 DEF AddBeginning, RawList
    <3>4. l.next \in [Slots -> Links] /\ l.prev \in [Slots -> Links]
      BY <1>3 DEF RawList
    <3>5. CASE k = 1
      <4>1. v[k] = i /\ w[1] # i /\ v[k + 1] = w[1] /\ k # n + 1
        BY <1>1, <1>2, <1>6, <2>2, <3>1, <3>5
      <4> QED BY <1>2, <3>1, <3>2, <3>3, <3>4, <3>5, <4>1
    <3>6. CASE k # 1
      <4>1. k - 1 \in 1 .. n /\ v[k] = w[k - 1] /\ w[k - 1] \in Slots /\ w[k - 1] # i
        BY <1>1, <1>2, <1>6, <3>6
      <4>2. u.next[v[k]] = IF k - 1 = n THEN EndOfList ELSE w[(k - 1) + 1]
        BY <1>2, <3>2, <3>4, <4>1 DEF Visits, Linked
      <4>3. k # n + 1 => k \in 1 .. n /\ v[k + 1] = w[k] /\ (k - 1) + 1 = k
        <5>1. (k # n + 1 => k \in 1 .. n) /\ (k - 1) + 1 = k
          BY <1>1
        <5> QED BY <1>6, <5>1
      <4>4. CASE k = 2
        <5>1. v[k] = w[1] /\ v[k - 1] = i
          BY <1>6, <4>1, <4>4
        <5>2. u.prev[w[1]] = i
          BY <1>2, <3>1, <3>3, <3>4
        <5> QED BY <1>1, <3>6, <4>2, <4>3, <5>1, <5>2
      <4>5. CASE k # 2
        <5>1. k - 1 # 1 /\ k - 1 \in 1 .. n + 1 /\ v[k - 1] = w[(k - 1) - 1]
          <6>1. k - 1 # 1 /\ k - 1 \in 1 .. n + 1
            BY <1>1, <3>6, <4>5
          <6> QED BY <1>6, <6>1
        <5>2. w[k - 1] # w[1]
          BY <3>1, <4>1, <5>1 DEF Visits, Linked, Injective
        <5>3. u.prev[v[k]] = l.prev[w[k - 1]]
          BY <1>2, <3>1, <3>3, <3>4, <4>1, <5>2
        <5>4. l.prev[w[k - 1]] = w[(k - 1) - 1]
          BY <4>1, <5>1 DEF Visits, Linked
        <5> QED BY <1>1, <3>6, <4>2, <4>3, <5>1, <5>3, <5>4
      <4> QED BY <4>4, <4>5
    <3> QED BY <3>5, <3>6
  <2> QED BY <2>1, <2>2
<1>12. Linked(u, v)
  <2> HIDE DEF u, v
  <2>1. n + 1 # 0
    BY <1>1
  <2> QED BY <1>1, <1>4, <1>6, <1>9, <1>10, <1>11, <2>1, ZenonT(40) DEF Linked
<1> QED BY <1>4, <1>5, <1>7, <1>8, <1>12 DEF Visits

\* An insertion at the end.
LEMMA AddEndFacts ==
    ASSUME NEW l, NEW w, Visits(l, w), l.n < Capacity, NEW d \in Pointers
    PROVE  LET u == AddEnd(l, d) IN
           /\ Visits(u, After(w, l.n, AddedSlot(l)))
           /\ u.n = l.n + 1
           /\ u.data = [l.data EXCEPT ![AddedSlot(l)] = d]
<1> DEFINE u == AddEnd(l, d)
           i == AddedSlot(l)
           n == l.n
           v == After(w, n, i)
<1>1. /\ n \in Nat /\ n + 1 \in 0 .. Capacity /\ w \in [1 .. n -> Slots] /\ n \in Int
      /\ Slots \subseteq Links /\ EndOfList \in Links /\ d \in Pointers \cup {NoData}
      /\ n + 1 \in Int
  BY CapacityAssumption DEF Visits, Linked, Links
<1>2. /\ l.empty # <<>> /\ i \in Slots /\ \A k \in 1 .. n : w[k] # i
  BY AddedFree
<1>3. l \in RawList
  BY DEF Visits
<1>4. u.n = n + 1 /\ u.end = i /\ u.empty = Tail(l.empty)
  <2>1. CASE n = 0
    BY <1>2, <1>3, <2>1 DEF AddEnd, AddOnly, RawList, AddedSlot
  <2>2. CASE n # 0
    BY <1>2, <1>3, <2>2 DEF AddEnd, RawList
  <2> QED BY <2>1, <2>2
<1>5. u.data = [l.data EXCEPT ![i] = d]
  <2>1. CASE n = 0
    BY <1>2, <1>3, <2>1 DEF AddEnd, AddOnly, RawList, AddedSlot
  <2>2. CASE n # 0
    BY <1>2, <1>3, <2>2 DEF AddEnd, RawList
  <2> QED BY <2>1, <2>2
<1>6. /\ v \in [1 .. n + 1 -> Slots] /\ v[n + 1] = i /\ n + 1 \in 1 .. n + 1
      /\ \A k \in 1 .. n : v[k] = w[k] /\ k \in 1 .. n + 1
      /\ \A k \in 1 .. n + 1 : k # n + 1 => k \in 1 .. n
  BY <1>1, <1>2 DEF After
<1>7. Chained(u, v) /\ Filled(u, v) /\ u.empty \in Seq(Slots)
  <2> HIDE DEF u, v
  <2>1. Extends(v, w, n, i)
    BY <1>6 DEF Extends
  <2> QED BY <1>4, <1>5, <2>1, AddedRest
<1>8. u \in RawList
  <2>1. CASE n = 0
    BY <1>1, <1>2, <1>3, <1>4, <1>7, <2>1, SMTT(30)
    DEF AddEnd, AddOnly, RawList, AddedSlot
  <2>2. CASE n # 0
    BY <1>1, <1>2, <1>3, <1>4, <1>7, <2>2 DEF AddEnd, RawList
  <2> QED BY <2>1, <2>2
<1>9. Injective(v, n + 1)
  <2> SUFFICES ASSUME NEW j \in 1 .. n + 1, NEW k \in 1 .. n + 1, v[j] = v[k]
               PROVE  j = k
    BY DEF Injective
  <2>1. j # n + 1 /\ k # n + 1 => j = k
    BY <1>6 DEF Visits, Linked, Injective
  <2> QED BY <1>2, <1>6, <2>1
<1>10. u.begin = v[1]
  <2>1. CASE n = 0
    BY <1>1, <1>2, <1>3, <1>6, <2>1 DEF AddEnd, AddOnly, RawList, AddedSlot
  <2>2. CASE n # 0
    <3>1. u.begin = l.begin /\ l.begin = w[1] /\ 1 \in 1 .. n
      BY <1>1, <1>2, <1>3, <2>2 DEF AddEnd, RawList, Visits, Linked
    <3> QED BY <1>6, <3>1
  <2> QED BY <2>1, <2>2
<1>11. ASSUME NEW k \in 1 .. n + 1
       PROVE  /\ u.next[v[k]] = IF k = n + 1 THEN EndOfList ELSE v[k + 1]
              /\ u.prev[v[k]] = IF k = 1 THEN EndOfList ELSE v[k - 1]
  <2>1. CASE n = 0
    <3>1. k = 1 /\ v[k] = i /\ i = 0
      BY <1>6, <2>1 DEF AddedSlot
    <3>2. u.next[i] = EndOfList /\ u.prev[i] = EndOfList
      BY <1>2, <1>3, <2>1, <3>1 DEF AddEnd, AddOnly, RawList
    <3> QED BY <2>1, <3>1, <3>2
  <2>2. CASE n # 0
    <3>1. l.end = w[n] /\ n \in 1 .. n /\ w[n] \in Slots
      BY <1>1, <2>2 DEF Visits, Linked
    <3>2. u.prev = [l.prev EXCEPT ![i] = w[n]]
      BY <1>2, <1>3, <2>2, <3>1 DEF AddEnd, RawList
    <3>3. u.next = [l.next EXCEPT ![i] = EndOfList, ![w[n]] = i]
      BY <1>2, <1>3, <2>2, <3>1 DEF AddEnd, RawList
    <3>4. l.next \in [Slots -> Links] /\ l.prev \in [Slots -> Links]
      BY <1>3 DEF RawList
    <3>5. CASE k = n + 1
      <4>1. v[k] = i /\ w[n] # i /\ k - 1 = n /\ v[n] = w[n] /\ k # 1
        BY <1>1, <1>2, <1>6, <2>2, <3>1, <3>5
      <4> QED BY <1>2, <3>1, <3>2, <3>3, <3>4, <3>5, <4>1
    <3>6. CASE k # n + 1
      <4>1. k \in 1 .. n /\ v[k] = w[k] /\ w[k] \in Slots /\ w[k] # i
        BY <1>1, <1>2, <1>6, <3>6
      <4>2. u.prev[v[k]] = IF k = 1 THEN EndOfList ELSE w[k - 1]
        BY <1>2, <3>2, <3>4, <4>1 DEF Visits, Linked
      <4>3. k # 1 => k - 1 \in 1 .. n /\ v[k - 1] = w[k - 1]
        <5>1. k # 1 => k - 1 \in 1 .. n
          BY <1>1, <4>1
        <5> QED BY <1>6, <5>1
      <4>4. CASE k = n
        <5>1. u.next[w[n]] = i
          BY <1>2, <3>1, <3>3, <3>4
        <5> QED BY <1>6, <3>6, <4>1, <4>2, <4>3, <4>4, <5>1
      <4>5. CASE k # n
        <5>1. k + 1 \in 1 .. n /\ v[k + 1] = w[k + 1]
          <6>1. k + 1 \in 1 .. n
            BY <1>1, <4>1, <4>5
          <6> QED BY <1>6, <6>1
        <5>2. w[k] # w[n]
          BY <3>1, <4>1, <4>5 DEF Visits, Linked, Injective
        <5>3. u.next[v[k]] = l.next[w[k]]
          BY <1>2, <3>1, <3>3, <3>4, <4>1, <5>2
        <5>4. l.next[w[k]] = w[k + 1]
          BY <4>1, <4>5 DEF Visits, Linked
        <5> QED BY <3>6, <4>2, <4>3, <5>1, <5>3, <5>4
      <4> QED BY <4>4, <4>5
    <3> QED BY <3>5, <3>6
  <2> QED BY <2>1, <2>2
<1>12. Linked(u, v)
  <2> HIDE DEF u, v
  <2>1. n + 1 # 0
    BY <1>1
  <2> QED BY <1>1, <1>4, <1>6, <1>9, <1>10, <1>11, <2>1 DEF Linked
<1> QED BY <1>4, <1>5, <1>7, <1>8, <1>12 DEF Visits

\* A deletion.  The deleted slot keeps its successor and is the next to be used,
\* or slot 0 if it was the only one.
LEMMA DelFacts ==
    ASSUME NEW l, NEW w, Visits(l, w), NEW k \in 1 .. l.n
    PROVE  LET u == Del(l, w[k]) IN
           /\ Visits(u, Without(w, l.n, k))
           /\ u.n = l.n - 1
           /\ u.data = [l.data EXCEPT ![w[k]] = NoData]
           /\ u.next[w[k]] = l.next[w[k]]
           /\ AddedSlot(u) = IF l.n = 1 THEN 0 ELSE w[k]
<1> DEFINE i == w[k]
           u == Del(l, i)
           n == l.n
           v == Without(w, n, k)
           c == Capacity - n
<1>1. /\ n \in Nat /\ n - 1 \in 0 .. Capacity /\ w \in [1 .. n -> Slots] /\ n \in Int
      /\ Slots \subseteq Links /\ EndOfList \in Links /\ EndOfList \notin Slots
      /\ n # 0 /\ i \in Slots /\ n - 1 \in Int /\ 1 \in 1 .. n /\ n \in 1 .. n
      /\ c \in Nat /\ Capacity - (n - 1) = c + 1 /\ Capacity \in Nat \ {0}
      /\ n \in 1 .. Capacity
  BY CapacityAssumption, SMTT(30) DEF Visits, Linked, Links, EndOfList, Slots
<1>2. /\ l \in RawList /\ l.begin = w[1] /\ l.end = w[n]
      /\ w[1] \in Slots /\ w[n] \in Slots
      /\ l.next \in [Slots -> Links] /\ l.prev \in [Slots -> Links]
      /\ l.data \in [Slots -> Pointers \cup {NoData}]
      /\ l.empty \in Seq(Slots) /\ Len(l.empty) = c
      /\ \A j \in 1 .. c : l.empty[j] \in Slots
  <2>1. l.empty \in [1 .. c -> Slots]
    BY DEF Visits, Chained
  <2>2. /\ l.empty \in Seq(Slots) /\ Len(l.empty) = c
        /\ \A j \in 1 .. c : l.empty[j] \in Slots
    <3> DEFINE e == l.empty
    <3>1. e \in [1 .. c -> Slots] /\ c \in Nat
      BY <1>1, <2>1
    <3> HIDE DEF e, c
    <3>2. e \in Seq(Slots)
      BY <3>1, IsASeq
    <3>3. Len(e) = c
      BY <3>1, <3>2, LenProperties
    <3> QED BY <3>1, <3>2, <3>3 DEF e
  <2>3. l \in RawList /\ l.begin = w[1] /\ l.end = w[n]
    BY <1>1 DEF Visits, Linked
  <2>4. /\ l.next \in [Slots -> Links] /\ l.prev \in [Slots -> Links]
        /\ l.data \in [Slots -> Pointers \cup {NoData}]
    BY <2>3 DEF RawList
  <2>5. w[1] \in Slots /\ w[n] \in Slots
    BY <1>1
  <2> QED BY <2>2, <2>3, <2>4, <2>5
<1>3. /\ \A j \in 1 .. n : w[j] = i => j = k
      /\ i = l.begin <=> k = 1
      /\ i = l.end <=> k = n
  BY <1>1, <1>2, SMTT(30) DEF Visits, Linked, Injective
<1>4. /\ k # 1 => k - 1 \in 1 .. n /\ l.prev[i] = w[k - 1] /\ w[k - 1] \in Slots
      /\ k # n => k + 1 \in 1 .. n /\ l.next[i] = w[k + 1] /\ w[k + 1] \in Slots
  <2>1. /\ l.next[i] = IF k = n THEN EndOfList ELSE w[k + 1]
        /\ l.prev[i] = IF k = 1 THEN EndOfList ELSE w[k - 1]
    BY DEF Visits, Linked
  <2>2. (k # 1 => k - 1 \in 1 .. n) /\ (k # n => k + 1 \in 1 .. n)
    BY <1>1, SMTT(30)
  <2> QED BY <1>1, <2>1, <2>2
<1>5. /\ u.n = n - 1
      /\ u.data = [l.data EXCEPT ![i] = NoData]
      /\ u.empty = IF n = 1 THEN FreeChain ELSE <<i>> \o l.empty
      /\ u.begin = IF n = 1 THEN EndOfList ELSE IF k = 1 THEN w[2] ELSE w[1]
      /\ u.end = IF n = 1 THEN EndOfList ELSE IF k = n THEN w[n - 1] ELSE w[n]
      /\ u.next = IF k = 1 THEN l.next
                  ELSE [l.next EXCEPT ![w[k - 1]] = IF k = n THEN EndOfList ELSE w[k + 1]]
      /\ u.prev = IF k = n THEN l.prev
                  ELSE [l.prev EXCEPT ![w[k + 1]] = IF k = 1 THEN EndOfList ELSE w[k - 1]]
  <2>1. CASE n = 1
    <3>1. k = 1 /\ k = n
      BY <2>1
    <3> QED BY <1>2, <1>3, <2>1, <3>1 DEF Del, RawList
  <2>2. CASE n # 1 /\ k = 1
    <3>1. k # n
      BY <2>2
    <3> QED BY <1>2, <1>3, <1>4, <2>2, <3>1, SMTT(30) DEF Del, Freed, RawList
  <2>3. CASE n # 1 /\ k = n
    <3>1. k # 1
      BY <2>3
    <3> QED BY <1>2, <1>3, <1>4, <2>3, <3>1 DEF Del, Freed, RawList
  <2>4. CASE k # 1 /\ k # n
    <3>1. n # 1
      BY <2>4
    <3> QED BY <1>2, <1>3, <1>4, <2>4, <3>1 DEF Del, Freed, RawList
  <2> QED BY <2>1, <2>2, <2>3, <2>4
<1> HIDE DEF u
<1>6. /\ v \in [1 .. n - 1 -> Slots]
      /\ \A j \in 1 .. n - 1 : v[j] = IF j < k THEN w[j] ELSE w[j + 1]
      /\ \A j \in 1 .. n - 1 : j \in 1 .. n /\ j + 1 \in 1 .. n
  BY <1>1, SMTT(30) DEF Without
<1> HIDE DEF v
<1>7. /\ \A j \in 1 .. n - 1 : v[j] # i /\ \E h \in 1 .. n : v[j] = w[h]
      /\ \A h \in 1 .. n : h # k => \E j \in 1 .. n - 1 : v[j] = w[h]
  <2>1. ASSUME NEW j \in 1 .. n - 1 PROVE v[j] # i /\ \E h \in 1 .. n : v[j] = w[h]
    <3>1. CASE j < k
      <4>1. j # k
        BY <3>1
      <4> QED BY <1>3, <1>6, <3>1, <4>1
    <3>2. CASE ~(j < k)
      <4>1. j + 1 # k
        BY <3>2
      <4> QED BY <1>3, <1>6, <3>2, <4>1
    <3> QED BY <3>1, <3>2
  <2>2. ASSUME NEW h \in 1 .. n, h # k PROVE \E j \in 1 .. n - 1 : v[j] = w[h]
    <3>1. CASE h < k
      <4>1. h \in 1 .. n - 1
        BY <1>1, <3>1, SMTT(30)
      <4> QED BY <1>6, <3>1, <4>1
    <3>2. CASE h > k
      <4>1. h - 1 \in 1 .. n - 1 /\ ~(h - 1 < k) /\ (h - 1) + 1 = h
        BY <1>1, <3>2
      <4> QED BY <1>6, <4>1
    <3> QED BY <2>2, <3>1, <3>2
  <2> QED BY <2>1, <2>2
<1>8. Injective(v, n - 1)
  <2> SUFFICES ASSUME NEW j \in 1 .. n - 1, NEW h \in 1 .. n - 1, v[j] = v[h]
               PROVE  j = h
    BY DEF Injective
  <2>1. \A x, y \in 1 .. n : w[x] = w[y] => x = y
    BY DEF Visits, Linked, Injective
  <2>2. (IF j < k THEN j ELSE j + 1) = IF h < k THEN h ELSE h + 1
    BY <1>6, <2>1
  <2> QED BY <2>2
<1>9. /\ n = 1 => n - 1 = 0
      /\ n # 1 => n - 1 # 0 /\ 1 \in 1 .. n - 1 /\ n - 1 \in 1 .. n - 1 /\ n >= 2
  BY <1>1
<1>10. ASSUME NEW j \in 1 .. n - 1
       PROVE  /\ u.next[v[j]] = IF j = n - 1 THEN EndOfList ELSE v[j + 1]
              /\ u.prev[v[j]] = IF j = 1 THEN EndOfList ELSE v[j - 1]
  <2> DEFINE h == IF j < k THEN j ELSE j + 1
  <2>1. h \in 1 .. n /\ v[j] = w[h] /\ h # k /\ w[h] \in Slots /\ k \in 1 .. n
    <3>1. h \in 1 .. n
      BY <1>6
    <3>2. v[j] = w[h]
      BY <1>6
    <3>3. h # k
      BY <1>1
    <3> HIDE DEF h
    <3> QED BY <1>1, <3>1, <3>2, <3>3
  <2>2. /\ l.next[w[h]] = IF h = n THEN EndOfList ELSE w[h + 1]
        /\ l.prev[w[h]] = IF h = 1 THEN EndOfList ELSE w[h - 1]
    BY <2>1 DEF Visits, Linked
  <2>3. \A x \in 1 .. n : w[x] = w[h] => x = h
    BY <2>1 DEF Visits, Linked, Injective
  <2>4. u.next[v[j]] = IF j = n - 1 THEN EndOfList ELSE v[j + 1]
    <3>1. CASE h = k - 1
      <4>1. j = k - 1 /\ k # 1 /\ j < k
        BY <1>1, <2>1, <3>1
      <4>2. u.next[w[h]] = IF k = n THEN EndOfList ELSE w[k + 1]
        BY <1>2, <1>5, <2>1, <3>1, <4>1
      <4>3. k = n <=> j = n - 1
        BY <1>1, <4>1, SMTT(30)
      <4>4. j # n - 1 => j + 1 \in 1 .. n - 1 /\ ~(j + 1 < k) /\ (j + 1) + 1 = k + 1
        BY <1>1, <4>1, SMTT(30)
      <4> QED BY <1>6, <2>1, <4>2, <4>3, <4>4
    <3>2. CASE h # k - 1
      <4>1. k # 1 => w[k - 1] # w[h]
        BY <1>4, <2>3, <3>2
      <4>2. u.next[w[h]] = l.next[w[h]]
        BY <1>2, <1>4, <1>5, <2>1, <4>1
      <4>3. h = n <=> j = n - 1
        BY <1>1, <3>2, SMTT(30)
      <4>4. j # n - 1 => /\ j + 1 \in 1 .. n - 1
                         /\ h + 1 = IF j + 1 < k THEN j + 1 ELSE (j + 1) + 1
        BY <1>1, <3>2, SMTT(30)
      <4>5. j # n - 1 => v[j + 1] = w[h + 1]
        <5> HIDE DEF h
        <5> QED BY <1>6, <4>4
      <4> QED BY <2>1, <2>2, <4>2, <4>3, <4>5
    <3> QED BY <3>1, <3>2
  <2>5. u.prev[v[j]] = IF j = 1 THEN EndOfList ELSE v[j - 1]
    <3>1. CASE h = k + 1
      <4>1. j = k /\ k # n /\ ~(j < k)
        BY <1>1, <2>1, <3>1
      <4>2. u.prev[w[h]] = IF k = 1 THEN EndOfList ELSE w[k - 1]
        BY <1>2, <1>5, <2>1, <3>1, <4>1
      <4>3. j # 1 => j - 1 \in 1 .. n - 1 /\ j - 1 < k
        BY <1>1, <4>1
      <4> QED BY <1>6, <2>1, <4>1, <4>2, <4>3
    <3>2. CASE h # k + 1
      <4>1. k # n => w[k + 1] # w[h]
        BY <1>4, <2>3, <3>2
      <4>2. u.prev[w[h]] = l.prev[w[h]]
        BY <1>2, <1>4, <1>5, <2>1, <4>1
      <4>3. h = 1 <=> j = 1
        BY <1>1, <2>1, <3>2
      <4>4. j # 1 => /\ j - 1 \in 1 .. n - 1
                     /\ h - 1 = IF j - 1 < k THEN j - 1 ELSE (j - 1) + 1
        BY <1>1, <2>1, <3>2, SMTT(30)
      <4>5. j # 1 => v[j - 1] = w[h - 1]
        <5> HIDE DEF h
        <5> QED BY <1>6, <4>4
      <4> QED BY <2>1, <2>2, <4>2, <4>3, <4>5
    <3> QED BY <3>1, <3>2
  <2> QED BY <2>4, <2>5
<1>11. Linked(u, v)
  <2>1. n # 1 => u.begin = v[1]
    <3>1. k = 1 => (1 < k <=> FALSE) /\ 1 + 1 = 2
      OBVIOUS
    <3>2. k # 1 => 1 < k
      BY <1>1
    <3> QED BY <1>5, <1>6, <1>9, <3>1, <3>2
  <2>2. n # 1 => u.end = v[n - 1]
    <3>1. (n - 1 < k <=> k = n) /\ (n - 1) + 1 = n
      BY <1>1
    <3> QED BY <1>5, <1>6, <1>9, <3>1
  <2> QED BY <1>1, <1>5, <1>6, <1>8, <1>9, <1>10, <2>1, <2>2, ZenonT(40) DEF Linked
<1>12. Filled(u, v)
  <2> SUFFICES ASSUME NEW s \in Slots
               PROVE  u.data[s] # NoData <=> \E j \in 1 .. n - 1 : v[j] = s
    BY <1>5 DEF Filled
  <2>1. u.data[s] = IF s = i THEN NoData ELSE l.data[s]
    BY <1>2, <1>5
  <2>2. l.data[s] # NoData <=> \E h \in 1 .. n : w[h] = s
    BY DEF Visits, Filled
  <2>3. CASE s = i
    BY <1>7, <2>1, <2>3
  <2>4. CASE s # i
    <3>1. (\E j \in 1 .. n - 1 : v[j] = s) => \E h \in 1 .. n : w[h] = s
      BY <1>7
    <3>2. (\E h \in 1 .. n : w[h] = s) => \E j \in 1 .. n - 1 : v[j] = s
      BY <1>7, <2>4
    <3> QED BY <2>1, <2>2, <2>4, <3>1, <3>2
  <2> QED BY <2>3, <2>4
<1>13. /\ Chained(u, v) /\ u.empty \in Seq(Slots)
       /\ AddedSlot(u) = IF n = 1 THEN 0 ELSE i
  <2>1. CASE n = 1
    <3>1. u.n = 0 /\ u.empty = FreeChain /\ Capacity - u.n = Capacity /\ AddedSlot(u) = 0
      BY <1>1, <1>5, <2>1 DEF AddedSlot
    <3>2. FreeChain \in [1 .. Capacity -> Slots] /\ Injective(FreeChain, Capacity)
      BY <1>1 DEF FreeChain, Slots, Injective
    <3>3. FreeChain \in Seq(Slots)
      BY <1>1, <3>2, IsASeq
    <3>4. \A h \in 1 .. u.n, j \in 1 .. Capacity - u.n : v[h] # u.empty[j]
      BY <3>1
    <3> QED BY <2>1, <3>1, <3>2, <3>3, <3>4 DEF Chained
  <2>2. CASE n # 1
    <3> DEFINE e == <<i>> \o l.empty
    <3>1. u.empty = e /\ u.n = n - 1 /\ u.n # 0 /\ Capacity - u.n = c + 1
      BY <1>1, <1>5, <1>9, <2>2
    <3>2. /\ e \in Seq(Slots) /\ Len(e) = c + 1 /\ e[1] = i /\ e # <<>> /\ Head(e) = e[1]
          /\ \A j \in 1 .. c : e[j + 1] = l.empty[j]
      <4>1. <<i>> \in Seq(Slots) /\ Len(<<i>>) = 1 /\ <<i>>[1] = i
        BY <1>1
      <4>2. e \in Seq(Slots) /\ Len(e) = c + 1
        BY <1>1, <1>2, <4>1, ConcatProperties
      <4>3. \A j \in 1 .. c + 1 : e[j] = IF j <= 1 THEN <<i>>[j] ELSE l.empty[j - 1]
        BY <1>1, <1>2, <4>1, ConcatProperties
      <4>4. 1 \in 1 .. c + 1 /\ \A j \in 1 .. c : /\ j + 1 \in 1 .. c + 1 /\ ~(j + 1 <= 1)
                                              /\ (j + 1) - 1 = j
        BY <1>1
      <4>5. e # <<>>
        BY <1>1, <4>2
      <4> HIDE DEF e
      <4> QED BY <4>1, <4>2, <4>3, <4>4, <4>5, HeadTailProperties
    <3> HIDE DEF e
    <3>3. e \in [1 .. c + 1 -> Slots]
      BY <3>2, LenProperties
    <3>4. \A j \in 1 .. c + 1 : j # 1 => j - 1 \in 1 .. c /\ e[j] = l.empty[j - 1]
      <4>1. \A j \in 1 .. c + 1 : j # 1 => j - 1 \in 1 .. c /\ (j - 1) + 1 = j
        BY <1>1
      <4> QED BY <3>2, <4>1
    <3>5. /\ \A h \in 1 .. n, j \in 1 .. c : w[h] # l.empty[j]
          /\ \A h, j \in 1 .. c : l.empty[h] = l.empty[j] => h = j
      BY DEF Visits, Chained, Injective
    <3>6. Injective(e, c + 1)
      <4> SUFFICES ASSUME NEW j \in 1 .. c + 1, NEW h \in 1 .. c + 1, e[j] = e[h]
                   PROVE  j = h
        BY DEF Injective
      <4>1. j # 1 /\ h # 1 => j - 1 = h - 1
        BY <3>4, <3>5
      <4>2. \A x \in 1 .. c + 1 : x # 1 => e[x] # i
        BY <3>4, <3>5
      <4>3. j = 1 <=> h = 1
        BY <3>2, <4>2
      <4> QED BY <1>1, <4>1, <4>3
    <3>7. \A h \in 1 .. n - 1, j \in 1 .. c + 1 : v[h] # e[j]
      BY <1>7, <3>2, <3>4, <3>5
    <3>8. AddedSlot(u) = i
      BY <3>1, <3>2 DEF AddedSlot
    <3> QED BY <2>2, <3>1, <3>2, <3>3, <3>6, <3>7, <3>8 DEF Chained
  <2> QED BY <2>1, <2>2
<1>14. u \in RawList
  <2> DEFINE r == [data |-> u.data, prev |-> u.prev, next |-> u.next,
                   begin |-> u.begin, end |-> u.end, n |-> u.n, empty |-> u.empty]
  <2>1. u = r
    BY <1>2 DEF u, Del, Freed, RawList
  <2>2. /\ u.data \in [Slots -> Pointers \cup {NoData}]
        /\ u.next \in [Slots -> Links] /\ u.prev \in [Slots -> Links]
    BY <1>1, <1>2, <1>4, <1>5
  <2>3. u.begin \in Links /\ u.end \in Links
    <3>1. n # 1 => w[2] \in Slots /\ w[n - 1] \in Slots
      <4>1. n # 1 => 2 \in 1 .. n /\ n - 1 \in 1 .. n
        BY <1>1
      <4> QED BY <1>1, <4>1
    <3> QED BY <1>1, <1>2, <1>5, <3>1
  <2> QED BY <1>1, <1>5, <1>13, <2>1, <2>2, <2>3 DEF RawList
<1>15. u.next[i] = l.next[i]
  <2>1. k # 1 => w[k - 1] # i
    BY <1>1, <1>3, <1>4
  <2> QED BY <1>1, <1>2, <1>5, <2>1, ZenonT(40)
<1> QED BY <1>5, <1>11, <1>12, <1>13, <1>14, <1>15 DEF Visits, u, v

\* Forgetting the links of free slots changes nothing a loop can see.
LEMMA SettledFacts ==
    ASSUME NEW l, NEW w, Visits(l, w)
    PROVE  LET u == Settled(l) IN
           /\ Visits(u, w) /\ u \in ListType(Pointers)
           /\ u.n = l.n /\ u.begin = l.begin /\ u.data = l.data
<1> DEFINE u == Settled(l)
           free(i) == l.data[i] = NoData
           p == [i \in Slots |-> IF free(i) THEN EndOfList ELSE l.prev[i]]
           x == [i \in Slots |-> IF free(i) THEN EndOfList ELSE l.next[i]]
<1>1. l \in RawList
  BY DEF Visits
<1>2. /\ u.data = l.data /\ u.begin = l.begin /\ u.end = l.end
      /\ u.n = l.n /\ u.empty = l.empty
      /\ u.prev = p /\ u.next = x
      /\ u = [data |-> u.data, prev |-> u.prev, next |-> u.next,
              begin |-> u.begin, end |-> u.end, n |-> u.n, empty |-> u.empty]
  <2>1. u = [l EXCEPT !.prev = p, !.next = x]
    BY Zenon DEF Settled
  <2> HIDE DEF u, p, x
  <2> QED BY <1>1, <2>1 DEF RawList
<1> HIDE DEF u
<1>3. EndOfList \in Links
  BY DEF Links
<1>4. p \in [Slots -> Links] /\ x \in [Slots -> Links]
  BY <1>1, <1>3 DEF RawList
<1>5. \A i \in Slots : p[i] = (IF free(i) THEN EndOfList ELSE l.prev[i])
                       /\ x[i] = (IF free(i) THEN EndOfList ELSE l.next[i])
  OBVIOUS
<1> HIDE DEF p, x
<1>6. u \in RawList
  BY <1>1, <1>2, <1>4 DEF RawList
<1>7. Chained(u, w) /\ Filled(u, w)
  BY <1>2 DEF Visits, Chained, Filled
<1>8. Linked(u, w)
  <2>1. /\ l.n \in 0 .. Capacity /\ w \in [1 .. l.n -> Slots] /\ Injective(w, l.n)
        /\ l.begin = IF l.n = 0 THEN EndOfList ELSE w[1]
        /\ l.end = IF l.n = 0 THEN EndOfList ELSE w[l.n]
    BY DEF Visits, Linked
  <2>2. ASSUME NEW k \in 1 .. l.n
        PROVE  u.next[w[k]] = l.next[w[k]] /\ u.prev[w[k]] = l.prev[w[k]]
    <3>1. w[k] \in Slots /\ l.data[w[k]] # NoData
      BY <2>1 DEF Visits, Filled
    <3> QED BY <1>2, <1>5, <3>1
  <2>3. \A k \in 1 .. l.n :
          /\ u.next[w[k]] = IF k = l.n THEN EndOfList ELSE w[k + 1]
          /\ u.prev[w[k]] = IF k = 1 THEN EndOfList ELSE w[k - 1]
    BY <2>2 DEF Visits, Linked
  <2> QED BY <1>2, <2>1, <2>3 DEF Linked
<1>9. u.empty \in UNION {[1 .. k -> Slots] : k \in 0 .. Capacity}
  <2>1. l.n \in 0 .. Capacity /\ Capacity - l.n \in 0 .. Capacity
    BY CapacityAssumption DEF Visits, Linked
  <2>2. l.empty \in [1 .. Capacity - l.n -> Slots]
    BY DEF Visits, Chained
  <2> QED BY <1>2, <2>1, <2>2
<1>10. u \in ListType(Pointers)
  <2>1. l.n \in 0 .. Capacity
    BY DEF Visits, Linked
  <2> QED BY <1>1, <1>2, <1>4, <1>9, <2>1 DEF RawList, ListType
<1> QED BY <1>2, <1>6, <1>7, <1>8, <1>10 DEF Visits, u

\* A list starts without elements.
LEMMA EmptyVisits == Visits(EmptyList, <<>>) /\ EmptyList \in ListType(Pointers)
<1> DEFINE l == EmptyList
<1>1. /\ l.n = 0 /\ l.begin = EndOfList /\ l.end = EndOfList /\ l.empty = FreeChain
      /\ l.data = [i \in Slots |-> NoData]
      /\ l.prev = [i \in Slots |-> EndOfList] /\ l.next = [i \in Slots |-> EndOfList]
      /\ l = [data |-> l.data, prev |-> l.prev, next |-> l.next,
              begin |-> l.begin, end |-> l.end, n |-> l.n, empty |-> l.empty]
  BY DEF EmptyList
<1> HIDE DEF l
<1>2. Capacity \in Nat \ {0} /\ Capacity - 0 = Capacity /\ EndOfList \in Links
  BY CapacityAssumption DEF Links
<1>3. FreeChain \in [1 .. Capacity -> Slots] /\ Injective(FreeChain, Capacity)
  BY <1>2 DEF FreeChain, Slots, Injective
<1>4. FreeChain \in Seq(Slots)
  BY <1>2, <1>3, IsASeq
<1>5. FreeChain \in UNION {[1 .. k -> Slots] : k \in 0 .. Capacity}
  <2>1. Capacity \in 0 .. Capacity
    BY <1>2
  <2> QED BY <1>3, <2>1
<1>6. /\ l.data \in [Slots -> Pointers \cup {NoData}]
      /\ l.prev \in [Slots -> Links] /\ l.next \in [Slots -> Links]
  BY <1>1, <1>2
<1>7. l \in RawList /\ l \in ListType(Pointers)
  <2>1. 0 \in Int /\ 0 \in 0 .. Capacity
    BY <1>2
  <2> QED BY <1>1, <1>2, <1>4, <1>5, <1>6, <2>1 DEF RawList, ListType
<1>8. Linked(l, <<>>) /\ Filled(l, <<>>)
  BY <1>1, <1>2 DEF Linked, Filled, Injective
<1>9. Chained(l, <<>>)
  BY <1>1, <1>2, <1>3 DEF Chained
<1> QED BY <1>7, <1>8, <1>9 DEF Visits, l

\* The order of a list determines its length.
LEMMA VisitsType ==
    ASSUME NEW l, NEW w, Visits(l, w)
    PROVE  /\ l.n \in Nat /\ l.n <= Capacity /\ w \in [1 .. l.n -> Slots]
           /\ \A j, k \in 1 .. l.n : w[j] = w[k] => j = k
           /\ l.data \in [Slots -> Pointers \cup {NoData}]
           /\ \A k \in 1 .. l.n : w[k] \in Slots /\ l.data[w[k]] \in Pointers
           /\ l.n # 0 => l.begin = w[1] /\ l.end = w[l.n]
           /\ \A i \in Slots : l.data[i] # NoData <=> \E k \in 1 .. l.n : w[k] = i
           /\ \A k \in 1 .. l.n : l.next[w[k]] = IF k = l.n THEN EndOfList ELSE w[k + 1]
           /\ Capacity \in Nat \ {0} /\ l \in RawList
<1>1. l.n \in Nat /\ l.n <= Capacity /\ w \in [1 .. l.n -> Slots]
  BY CapacityAssumption DEF Visits, Linked
<1>2. l \in RawList
  BY DEF Visits
<1>3. l.data \in [Slots -> Pointers \cup {NoData}]
  BY <1>2 DEF RawList
<1>4. \A i \in Slots : l.data[i] # NoData <=> \E k \in 1 .. l.n : w[k] = i
  BY DEF Visits, Filled
<1>5. \A k \in 1 .. l.n : w[k] \in Slots /\ l.data[w[k]] \in Pointers
  BY <1>1, <1>3, <1>4
<1>6. \A k \in 1 .. l.n : l.next[w[k]] = IF k = l.n THEN EndOfList ELSE w[k + 1]
  BY DEF Visits, Linked
<1>7. l.n # 0 => l.begin = w[1] /\ l.end = w[l.n]
  BY DEF Visits, Linked
<1>8. \A j, k \in 1 .. l.n : w[j] = w[k] => j = k
  BY DEF Visits, Linked, Injective
<1> QED BY <1>1, <1>2, <1>3, <1>4, <1>5, <1>6, <1>7, <1>8, CapacityAssumption

-----------------------------------------------------------------------------
\* The part of a sequence at given places.

\* It is built from the front, one place at a time.
LEMMA KeptIn ==
    ASSUME NEW n \in Nat, NEW tab, Len(tab) = n, NEW S, NEW T, <<>> \in T[0],
           \A k \in 1 .. n : \A q \in T[k - 1] :
               (IF k \in S THEN Append(q, tab[k]) ELSE q) \in T[k]
    PROVE  Table!Kept(tab, S) \in T[n]
<1> DEFINE P == 0 .. n
           kept[k \in 0 .. Len(tab)] ==
               IF k = 0 THEN <<>>
               ELSE IF k \in S THEN Append(kept[k - 1], tab[k])
               ELSE kept[k - 1]
           U == UNION {T[k] : k \in P}
           F == [z \in P \X U |-> IF z[1] \in S THEN Append(z[2], tab[z[1]]) ELSE z[2]]
<1>1. ASSUME NEW k \in 1 .. n, NEW q \in T[k - 1]
      PROVE  F[<<k, q>>] = (IF k \in S THEN Append(q, tab[k]) ELSE q)
  <2>1. k \in P /\ k - 1 \in P
    OBVIOUS
  <2>2. q \in U
    BY <2>1
  <2> HIDE DEF P, U
  <2> QED BY <2>1, <2>2
<1> HIDE DEF F, P, U, kept
<1>2. ASSUME NEW k \in 1 .. n, NEW q \in T[k - 1] PROVE F[<<k, q>>] \in T[k]
  <2>1. F[<<k, q>>] = (IF k \in S THEN Append(q, tab[k]) ELSE q)
    BY <1>1
  <2>2. (IF k \in S THEN Append(q, tab[k]) ELSE q) \in T[k]
    OBVIOUS
  <2> DEFINE next == IF k \in S THEN Append(q, tab[k]) ELSE q
  <2> HIDE DEF next
  <2>3. F[<<k, q>>] = next /\ next \in T[k]
    BY <2>1, <2>2 DEF next
  <2> QED BY <2>3
<1>3. PICK g : /\ g = [k \in 0 .. n |-> g[k]]
               /\ g[0] = <<>>
               /\ \A k \in 0 .. n : g[k] \in T[k]
               /\ \A k \in 1 .. n : g[k] = F[<<k, g[k - 1]>>]
  <2>1. Steppable(n, T, <<>>, F)
    BY <1>2 DEF Steppable
  <2> QED BY <2>1, Iteration DEF Iterates
<1>4. ASSUME NEW k \in 0 .. n
      PROVE  g[k] = IF k = 0 THEN <<>>
                    ELSE IF k \in S THEN Append(g[k - 1], tab[k])
                    ELSE g[k - 1]
  <2>1. CASE k = 0
    BY <1>3, <2>1
  <2>2. CASE k # 0
    <3>1. k \in 1 .. n /\ k - 1 \in 0 .. n
      BY <2>2
    <3>2. g[k - 1] \in T[k - 1] /\ g[k] = F[<<k, g[k - 1]>>]
      BY <1>3, <3>1
    <3> QED BY <1>1, <2>2, <3>1, <3>2
  <2> QED BY <2>1, <2>2
<1>5. g = [k \in 0 .. Len(tab) |->
             IF k = 0 THEN <<>>
             ELSE IF k \in S THEN Append(g[k - 1], tab[k])
             ELSE g[k - 1]]
  <2>1. [k \in 0 .. n |-> g[k]] =
          [k \in 0 .. n |-> IF k = 0 THEN <<>>
                            ELSE IF k \in S THEN Append(g[k - 1], tab[k])
                            ELSE g[k - 1]]
    BY <1>4
  <2> QED BY <1>3, <2>1, Zenon
<1>6. kept = [k \in 0 .. Len(tab) |->
                IF k = 0 THEN <<>>
                ELSE IF k \in S THEN Append(kept[k - 1], tab[k])
                ELSE kept[k - 1]]
  BY <1>5, Zenon DEF kept
<1>7. \A k \in 0 .. n :
        kept[k] = IF k = 0 THEN <<>>
                  ELSE IF k \in S THEN Append(kept[k - 1], tab[k])
                  ELSE kept[k - 1]
  BY <1>6
<1>8. n \in {k \in 0 .. n : kept[k] \in T[k]}
  <2> DEFINE R == {k \in 0 .. n : kept[k] \in T[k]}
  <2>1. 0 \in R
    BY <1>7
  <2>2. ASSUME NEW k \in 1 .. n, k - 1 \in R PROVE k \in R
    <3>1. k \in 0 .. n /\ k # 0 /\ kept[k - 1] \in T[k - 1]
      BY <2>2
    <3> QED BY <1>7, <3>1
  <2> HIDE DEF R
  <2>3. 0 .. n \subseteq R
    BY <2>1, <2>2, Inductive
  <2>4. n \in R
    BY <2>3
  <2> QED BY <2>4 DEF R
<1>9. Table!Kept(tab, S) = kept[Len(tab)]
  BY DEF Table!Kept, kept
<1> QED BY <1>8, <1>9

\* The sequence without elements as a function.
LEMMA NoneLeft == \A f : [j \in 1 .. 0 |-> f[j]] = <<>>
<1> TAKE f
<1> DEFINE e == [j \in 1 .. 0 |-> f[j]]
<1>1. e \in [1 .. 0 -> {0}]
  OBVIOUS
<1> HIDE DEF e
<1>2. e \in Seq({0}) /\ Len(e) = 0
  BY <1>1, IsASeq, LenProperties
<1>3. e = <<>>
  BY <1>2, EmptySeq
<1> QED BY <1>3 DEF e

\* The entries of the table.
Entries == [proc : Processors \cup {NoData}, addr : Addrs \cup {0},
            target : Targets \cup {NoData}, count : Counts]

\* All places: the sequence itself.
LEMMA KeptAll ==
    ASSUME NEW n \in Nat, NEW tab \in [1 .. n -> Entries], Len(tab) = n
    PROVE  Table!Kept(tab, 1 .. n) = tab
<1> DEFINE T == [k \in 0 .. n |-> {[j \in 1 .. k |-> tab[j]]}]
<1>1. \A k \in 0 .. n : T[k] = {[j \in 1 .. k |-> tab[j]]}
  OBVIOUS
<1> HIDE DEF T
<1>2. <<>> \in T[0]
  <2>1. 0 \in 0 .. n
    OBVIOUS
  <2>2. [j \in 1 .. 0 |-> tab[j]] \in T[0]
    BY <1>1, <2>1
  <2> QED BY <2>2, NoneLeft
<1>3. ASSUME NEW k \in 1 .. n, NEW q \in T[k - 1]
      PROVE  Append(q, tab[k]) \in T[k]
  <2>1. k \in 0 .. n /\ k - 1 \in 0 .. n /\ k - 1 \in Nat
    OBVIOUS
  <2>2. q = [j \in 1 .. k - 1 |-> tab[j]]
    BY <1>1, <2>1
  <2>3. Append(q, tab[k]) = [j \in 1 .. k |-> tab[j]]
    <3>1. q \in [1 .. k - 1 -> Entries]
      BY <2>2
    <3> QED BY <2>1, <2>2, <3>1
  <2> QED BY <1>1, <2>1, <2>3
<1>4. Table!Kept(tab, 1 .. n) \in T[n]
  BY <1>2, <1>3, KeptIn
<1> QED BY <1>1, <1>4

\* All but one: the others move up.
LEMMA KeptOthers ==
    ASSUME NEW n \in Nat, NEW tab \in [1 .. n -> Entries], Len(tab) = n, NEW i \in 1 .. n
    PROVE  Table!Kept(tab, (1 .. n) \ {i}) = Without(tab, n, i)
<1> DEFINE T == [k \in 0 .. n |-> {IF k < i THEN [j \in 1 .. k |-> tab[j]]
                                   ELSE Without(tab, k, i)}]
<1>1. \A k \in 0 .. n : T[k] = {IF k < i THEN [j \in 1 .. k |-> tab[j]]
                                ELSE Without(tab, k, i)}
  OBVIOUS
<1> HIDE DEF T
<1>2. <<>> \in T[0]
  <2>1. 0 \in 0 .. n /\ 0 < i
    OBVIOUS
  <2>2. [j \in 1 .. 0 |-> tab[j]] \in T[0]
    BY <1>1, <2>1
  <2> QED BY <2>2, NoneLeft
<1>3. ASSUME NEW k \in 1 .. n, NEW q \in T[k - 1]
      PROVE  (IF k \in (1 .. n) \ {i} THEN Append(q, tab[k]) ELSE q) \in T[k]
  <2>1. k \in 0 .. n /\ k - 1 \in 0 .. n /\ k - 1 \in Nat
    OBVIOUS
  <2>2. CASE k < i
    <3>1. q = [j \in 1 .. k - 1 |-> tab[j]]
      BY <1>1, <2>1, <2>2
    <3>2. Append(q, tab[k]) = [j \in 1 .. k |-> tab[j]]
      <4>1. q \in [1 .. k - 1 -> Entries]
        BY <3>1
      <4> QED BY <2>1, <3>1, <4>1
    <3> QED BY <1>1, <2>1, <2>2, <3>2
  <2>3. CASE k = i
    <3>1. q = [j \in 1 .. k - 1 |-> tab[j]]
      BY <1>1, <2>1, <2>3
    <3>2. q = Without(tab, k, i)
      BY <2>3, <3>1 DEF Without
    <3> QED BY <1>1, <2>1, <2>3, <3>2
  <2>4. CASE k > i
    <3>1. q = Without(tab, k - 1, i)
      BY <1>1, <2>1, <2>4
    <3>2. q = [j \in 1 .. k - 2 |-> IF j < i THEN tab[j] ELSE tab[j + 1]]
      BY <3>1 DEF Without
    <3>3. q \in [1 .. k - 2 -> Entries] /\ k - 2 \in Nat
      BY <2>4, <3>2
    <3>4. Append(q, tab[k]) = [j \in 1 .. k - 1 |-> IF j < i THEN tab[j] ELSE tab[j + 1]]
      BY <2>4, <3>2, <3>3
    <3>5. Append(q, tab[k]) = Without(tab, k, i)
      BY <3>4 DEF Without
    <3> QED BY <1>1, <2>1, <2>4, <3>5
  <2> QED BY <2>2, <2>3, <2>4
<1>4. Table!Kept(tab, (1 .. n) \ {i}) \in T[n]
  BY <1>2, <1>3, KeptIn
<1> QED BY <1>1, <1>4

-----------------------------------------------------------------------------
\* The inductive invariant of the predictor, for the slots w and v that loops
\* over the table and over the supply visit.

\* Together they hold every pointer once.
Pool(l, w, s, v) ==
    /\ l.n + s.n = Capacity
    /\ \A j, k \in 1 .. l.n : l.data[w[j]] = l.data[w[k]] => j = k
    /\ \A j, k \in 1 .. s.n : s.data[v[j]] = s.data[v[k]] => j = k
    /\ \A j \in 1 .. l.n, k \in 1 .. s.n : l.data[w[j]] # s.data[v[k]]

\* No branch is in two elements.
OneEach(l, w, e) ==
    \A j, k \in 1 .. l.n :
        /\ e[l.data[w[j]]].proc = e[l.data[w[k]]].proc
        /\ e[l.data[w[j]]].addr = e[l.data[w[k]]].addr
        => j = k

\* The cells of the hash point to visited slots.
Hashed(h, l, w) ==
    \A c \in Cells : h[c] # EndOfList => \E k \in 1 .. l.n : w[k] = h[c]

\* An only element that is not in slot 0, where a move takes it, is there
\* after a flush.
Unhashed(h, l) ==
    l.n = 1 /\ l.begin # 0 => \A c \in Cells : h[c] = EndOfList

Uncounted == ~history => \A d \in Pointers : entries[d].count = 0

Places(w, v) ==
    /\ Visits(list, w) /\ Visits(supplier, v)
    /\ Pool(list, w, supplier, v)
    /\ OneEach(list, w, entries)
    /\ Hashed(hash, list, w)

PredictorInv ==
    /\ PredictorTypeOK
    /\ Uncounted
    /\ Unhashed(hash, list)
    /\ \E w, v : Places(w, v)

-----------------------------------------------------------------------------
\* How an update makes an element the first one.

\* The list u, visited by f, begins with the pointer d; behind it are the
\* pointers that l has in the slots r[1], ..., r[m].
Fronted(u, f, l, r, m, d) ==
    /\ Visits(u, f)
    /\ u.n = m + 1
    /\ u.begin = f[1]
    /\ u.data[f[1]] = d
    /\ \A j \in 1 .. m : u.data[f[j + 1]] = l.data[r[j]]

\* The slots w[1], ..., w[n] are among the slots f[1], ..., f[m].
Covers(f, m, w, n) == \A k \in 1 .. n : \E j \in 1 .. m : f[j] = w[k]

\* A new first element, for a list with room for it.
LEMMA SuppliedFacts ==
    ASSUME NEW l, NEW w, Visits(l, w), l.n < Capacity, NEW d \in Pointers
    PROVE  \E f : /\ Fronted(AddBeginning(l, d), f, l, w, l.n, d)
                  /\ Covers(f, l.n + 1, w, l.n)
                  /\ l.n = 0 => f[1] = 0
<1> DEFINE u == AddBeginning(l, d)
           i == AddedSlot(l)
<1>1. Visits(u, Before(w, l.n, i)) /\ u.n = l.n + 1 /\ u.begin = i
      /\ u.data = [l.data EXCEPT ![i] = d]
  BY AddBeginningFacts
<1>2. i \in Slots /\ \A k \in 1 .. l.n : w[k] # i
  BY AddedFree
<1>9. l.n = 0 => i = 0
  BY DEF AddedSlot
<1> HIDE DEF u, i
<1>3. /\ l.n \in Nat /\ w \in [1 .. l.n -> Slots]
      /\ l.data \in [Slots -> Pointers \cup {NoData}]
  BY VisitsType
<1>4. PICK f : f = Before(w, l.n, i)
  OBVIOUS
<1>5. f[1] = i /\ \A j \in 1 .. l.n : j + 1 \in 1 .. l.n + 1 /\ f[j + 1] = w[j]
  BY <1>3, <1>4 DEF Before
<1>6. u.data[f[1]] = d
  BY <1>1, <1>2, <1>3, <1>5
<1>7. ASSUME NEW j \in 1 .. l.n PROVE u.data[f[j + 1]] = l.data[w[j]]
  BY <1>1, <1>2, <1>3, <1>5
<1>8. Covers(f, l.n + 1, w, l.n)
  BY <1>5 DEF Covers
<1> QED BY <1>1, <1>4, <1>5, <1>6, <1>7, <1>8, <1>9 DEF Fronted, u

\* An element that is moved to the beginning, or recycled there.
LEMMA MovedFacts ==
    ASSUME NEW l, NEW w, Visits(l, w), NEW k \in 1 .. l.n
    PROVE  \E f : /\ Fronted(MoveToInit(l, w[k]), f, l, Without(w, l.n, k),
                             l.n - 1, l.data[w[k]])
                  /\ IF l.n = 1 THEN f[1] = 0 ELSE Covers(f, l.n, w, l.n)
<1> DEFINE e == Del(l, w[k])
           d == l.data[w[k]]
           r == Without(w, l.n, k)
           i == AddedSlot(e)
           u == AddBeginning(e, d)
<1>1. /\ l.n \in Nat /\ l.n <= Capacity /\ w \in [1 .. l.n -> Slots]
      /\ l.data \in [Slots -> Pointers \cup {NoData}]
      /\ w[k] \in Slots /\ d \in Pointers
      /\ \A j, h \in 1 .. l.n : w[j] = w[h] => j = h
  BY VisitsType
<1>2. /\ Visits(e, r) /\ e.n = l.n - 1
      /\ e.data = [l.data EXCEPT ![w[k]] = NoData]
      /\ i = IF l.n = 1 THEN 0 ELSE w[k]
  BY DelFacts
<1> HIDE DEF e, d, i
<1>3. e.n < Capacity
  BY <1>1, <1>2, CapacityAssumption
<1>4. /\ Visits(u, Before(r, e.n, i)) /\ u.n = e.n + 1 /\ u.begin = i
      /\ u.data = [e.data EXCEPT ![i] = d]
  BY <1>1, <1>2, <1>3, AddBeginningFacts DEF i
<1>5. i \in Slots /\ \A j \in 1 .. e.n : r[j] # i
  BY <1>2, <1>3, AddedFree DEF i
<1> HIDE DEF u
<1>6. ASSUME NEW j \in 1 .. l.n - 1
      PROVE  r[j] \in Slots /\ r[j] # w[k] /\ r[j] # i
  <2>1. r[j] = IF j < k THEN w[j] ELSE w[j + 1]
    BY DEF Without
  <2>2. j \in 1 .. l.n /\ j + 1 \in 1 .. l.n
    BY <1>1
  <2>3. r[j] \in Slots /\ r[j] # w[k]
    BY <1>1, <2>1, <2>2
  <2> QED BY <1>2, <1>5, <2>3
<1>7. ASSUME NEW h \in 1 .. l.n, h # k
      PROVE  \E j \in 1 .. l.n - 1 : r[j] = w[h]
  <2>1. CASE h < k
    <3>1. h \in 1 .. l.n - 1 /\ r[h] = w[h]
      BY <1>1, <2>1 DEF Without
    <3> QED BY <3>1
  <2>2. CASE h > k
    <3>1. h - 1 \in 1 .. l.n - 1 /\ r[h - 1] = w[h]
      BY <1>1, <2>2 DEF Without
    <3> QED BY <3>1
  <2> QED BY <1>1, <1>7, <2>1, <2>2
<1> HIDE DEF r
<1>8. PICK f : f = Before(r, e.n, i)
  OBVIOUS
<1>9. /\ f[1] = i
      /\ \A j \in 1 .. l.n - 1 : j + 1 \in 1 .. l.n /\ f[j + 1] = r[j]
  BY <1>1, <1>2, <1>8 DEF Before
<1>10. e.data \in [Slots -> Pointers \cup {NoData}]
  BY <1>2, VisitsType
<1>11. u.data[f[1]] = d
  BY <1>4, <1>5, <1>9, <1>10
<1>12. ASSUME NEW j \in 1 .. l.n - 1 PROVE u.data[f[j + 1]] = l.data[r[j]]
  <2>1. f[j + 1] = r[j] /\ r[j] \in Slots /\ r[j] # w[k] /\ r[j] # i
    BY <1>6, <1>9
  <2>2. e.data[r[j]] = l.data[r[j]]
    BY <1>1, <1>2, <2>1
  <2> QED BY <1>4, <1>10, <2>1, <2>2
<1>13. Fronted(u, f, l, r, l.n - 1, d)
  <2>1. u.n = (l.n - 1) + 1
    BY <1>2, <1>4
  <2> QED BY <1>4, <1>8, <1>9, <1>11, <1>12, <2>1 DEF Fronted
<1>14. CASE l.n = 1
  <2>1. f[1] = 0
    BY <1>2, <1>9, <1>14
  <2> QED BY <1>13, <1>14, <2>1 DEF u, e, d, r, MoveToInit
<1>15. CASE l.n # 1
  <2>1. ASSUME NEW h \in 1 .. l.n PROVE \E j \in 1 .. l.n : f[j] = w[h]
    <3>1. CASE h = k
      <4>1. f[1] = w[h] /\ 1 \in 1 .. l.n
        BY <1>1, <1>2, <1>9, <1>15, <3>1
      <4> QED BY <4>1
    <3>2. CASE h # k
      <4>1. PICK j \in 1 .. l.n - 1 : r[j] = w[h]
        BY <1>7, <3>2
      <4> QED BY <1>9, <4>1
    <3> QED BY <3>1, <3>2
  <2>2. Covers(f, l.n, w, l.n)
    BY <2>1 DEF Covers
  <2> QED BY <1>13, <1>15, <2>2 DEF u, e, d, r, MoveToInit
<1> QED BY <1>14, <1>15

-----------------------------------------------------------------------------
\* The table as a sequence of entries.

\* The entries at the slots r[1], ..., r[m] of the list l.
Lined(e, l, r, m) == [j \in 1 .. m |-> e[l.data[r[j]]]]

\* It is what the table stands for.
LEMMA ReadIs ==
    ASSUME NEW e, NEW l, NEW w, Visits(l, w)
    PROVE  LET c == Contents(l) IN
           [k \in DOMAIN c |-> e[c[k]]] = Lined(e, l, w, l.n)
<1> DEFINE c == Contents(l)
<1>1. c = [k \in 1 .. l.n |-> l.data[w[k]]]
  BY ContentsIs
<1> HIDE DEF c
<1>2. DOMAIN c = 1 .. l.n /\ \A k \in 1 .. l.n : c[k] = l.data[w[k]]
  BY <1>1
<1>3. [k \in DOMAIN c |-> e[c[k]]] = Lined(e, l, w, l.n)
  BY <1>2 DEF Lined
<1> QED BY <1>3 DEF c

\* So it is before a step and after it.
LEMMA OrderIs ==
    ASSUME NEW w
    PROVE  /\ Visits(list, w) => LruOrder = Lined(entries, list, w, list.n)
           /\ Visits(list', w) => LruOrder' = Lined(entries', list', w, list'.n)
BY ReadIs DEF LruOrder

\* What the invariant says of one element.
LEMMA PlacesFacts ==
    ASSUME PredictorInv, NEW w, NEW v, Places(w, v)
    PROVE  /\ list.n \in Nat /\ list.n <= Capacity /\ Capacity \in Nat \ {0}
           /\ entries \in [Pointers -> Entries]
           /\ hash \in [Cells -> Links]
           /\ \A k \in 1 .. list.n :
                /\ w[k] \in Slots /\ w[k] # EndOfList
                /\ list.data[w[k]] \in Pointers
                /\ entries[list.data[w[k]]] \in Entries
           /\ LruOrder = Lined(entries, list, w, list.n)
           /\ LruOrder \in [1 .. list.n -> Entries]
           /\ Len(LruOrder) = list.n
           /\ Walk(list) = w /\ DOMAIN w = 1 .. list.n
           /\ \A j, k \in 1 .. list.n : w[j] = w[k] => j = k
<1>1. Visits(list, w)
  BY DEF Places
<1>2. /\ list.n \in Nat /\ list.n <= Capacity /\ Capacity \in Nat \ {0}
      /\ w \in [1 .. list.n -> Slots]
      /\ \A k \in 1 .. list.n : w[k] \in Slots /\ list.data[w[k]] \in Pointers
      /\ \A j, k \in 1 .. list.n : w[j] = w[k] => j = k
  BY <1>1, VisitsType
<1>3. entries \in [Pointers -> Entries] /\ hash \in [Cells -> Links]
  BY DEF PredictorInv, PredictorTypeOK, Entries
<1>4. \A k \in 1 .. list.n : w[k] # EndOfList /\ entries[list.data[w[k]]] \in Entries
  BY <1>2, <1>3 DEF Slots, EndOfList
<1>5. LruOrder = Lined(entries, list, w, list.n)
  BY <1>1, OrderIs
<1>6. LruOrder \in [1 .. list.n -> Entries]
  BY <1>4, <1>5 DEF Lined
<1>7. Len(LruOrder) = list.n
  BY <1>2, <1>6
<1> QED BY <1>1, <1>2, <1>3, <1>4, <1>5, <1>6, <1>7, WalkIs

\* The places of a branch in the table are those of its elements.
LEMMA KnownIs ==
    ASSUME PredictorInv, NEW w, NEW v, Places(w, v), NEW p, NEW a
    PROVE  Table!Known(LruOrder, p, a) =
             {k \in 1 .. list.n : IsEntry(list.data[w[k]], p, a)}
<1>1. /\ LruOrder = Lined(entries, list, w, list.n)
      /\ DOMAIN LruOrder = 1 .. list.n
  BY PlacesFacts
<1>2. \A k \in 1 .. list.n : LruOrder[k] = entries[list.data[w[k]]]
  BY <1>1 DEF Lined
<1> QED BY <1>1, <1>2 DEF Table!Known, IsEntry

\* A search finds the only element of the branch, if there is one.
LEMMA SearchFacts ==
    ASSUME PredictorInv, NEW w, NEW v, Places(w, v),
           NEW p \in Processors, NEW a \in Addrs
    PROVE  \/ /\ Search(p, a) = EndOfList
              /\ \A k \in 1 .. list.n : ~IsEntry(list.data[w[k]], p, a)
              /\ Table!Known(LruOrder, p, a) = {}
           \/ \E k \in 1 .. list.n :
                /\ Search(p, a) = w[k]
                /\ IsEntry(list.data[w[k]], p, a)
                /\ Table!Known(LruOrder, p, a) = {k}
<1> DEFINE Found == {k \in 1 .. list.n : IsEntry(list.data[w[k]], p, a)}
<1>1. Table!Known(LruOrder, p, a) = Found
  BY KnownIs
<1>2. \A j, k \in Found : j = k
  BY DEF Places, OneEach, IsEntry
<1>3. /\ list.n \in Nat /\ hash \in [Cells -> Links]
      /\ Walk(list) = w /\ DOMAIN w = 1 .. list.n
  BY PlacesFacts
<1>4. Search(p, a) = IF HashHit(p, a) THEN hash[Cell(a)]
                     ELSE IF Found = {} THEN EndOfList
                     ELSE w[CHOOSE k \in Found : \A j \in Found : k <= j]
  BY <1>3 DEF Search
<1>5. Cell(a) \in Cells
  BY PredictorAssumption DEF Cell, Cells
<1> HIDE DEF Found
<1>6. CASE Found = {}
  <2>1. ~HashHit(p, a)
    <3>1. SUFFICES ASSUME HashHit(p, a) PROVE FALSE
      OBVIOUS
    <3>2. PICK k \in 1 .. list.n : w[k] = hash[Cell(a)]
      BY <1>5, <3>1 DEF HashHit, Places, Hashed
    <3> QED BY <1>6, <3>1, <3>2 DEF HashHit, Found
  <2>2. \A k \in 1 .. list.n : ~IsEntry(list.data[w[k]], p, a)
    BY <1>6 DEF Found
  <2> QED BY <1>1, <1>4, <1>6, <2>1, <2>2
<1>7. CASE Found # {}
  <2>1. PICK k : k \in Found
    BY <1>7
  <2>2. Found = {k} /\ k \in 1 .. list.n /\ IsEntry(list.data[w[k]], p, a)
    BY <1>2, <2>1 DEF Found
  <2>3. Search(p, a) = w[k]
    <3>1. CASE HashHit(p, a)
      <4>1. PICK j \in 1 .. list.n : w[j] = hash[Cell(a)]
        BY <1>5, <3>1 DEF HashHit, Places, Hashed
      <4>2. j \in Found
        BY <3>1, <4>1 DEF HashHit, Found
      <4>3. j = k
        BY <1>2, <2>1, <4>2
      <4> QED BY <1>4, <3>1, <4>1, <4>3
    <3>2. CASE ~HashHit(p, a)
      <4>1. k \in Found /\ \A j \in Found : k <= j
        BY <2>2
      <4>2. (CHOOSE h \in Found : \A j \in Found : h <= j) \in Found
        BY <4>1
      <4>3. (CHOOSE h \in Found : \A j \in Found : h <= j) = k
        BY <2>2, <4>2
      <4> QED BY <1>4, <1>7, <3>2, <4>3
    <3> QED BY <3>1, <3>2
  <2> QED BY <1>1, <2>2, <2>3
<1> QED BY <1>6, <1>7

\* A check tells the fetch what the table says.
LEMMA CheckFacts == PredictorInv => CheckIsLookup
<1> SUFFICES ASSUME PredictorInv, NEW p \in Processors, NEW a \in Addrs
             PROVE  Check(p, a) = Table!Prediction(LruOrder, p, a)
  BY DEF CheckIsLookup
<1>1. PICK w, v : Places(w, v)
  BY DEF PredictorInv
<1>2. /\ LruOrder = Lined(entries, list, w, list.n)
      /\ \A k \in 1 .. list.n :
           /\ w[k] # EndOfList /\ list.data[w[k]] \in Pointers
           /\ entries[list.data[w[k]]] \in Entries
  BY <1>1, PlacesFacts
<1>3. CASE Search(p, a) = EndOfList
  <2>1. Table!Known(LruOrder, p, a) = {}
    BY <1>1, <1>2, <1>3, SearchFacts
  <2> QED BY <1>3, <2>1 DEF Check, Table!Prediction
<1>4. CASE Search(p, a) # EndOfList
  <2>1. PICK k \in 1 .. list.n :
           /\ Search(p, a) = w[k]
           /\ Table!Known(LruOrder, p, a) = {k}
    BY <1>1, <1>4, SearchFacts
  <2>2. (CHOOSE j \in {k} : TRUE) = k
    OBVIOUS
  <2> DEFINE e == entries[list.data[w[k]]]
  <2>3. LruOrder[k] = e
    BY <1>2 DEF Lined
  <2>4. (~history \/ e.count >= 0) <=> e.count >= 0
    BY <1>2 DEF PredictorInv, Uncounted
  <2>5. Check(p, a) = [branch |-> TRUE, take |-> ~history \/ e.count >= 0,
                       target |-> e.target]
    BY <1>4, <2>1 DEF Check
  <2>6. Table!Prediction(LruOrder, p, a) =
          [branch |-> TRUE, take |-> e.count >= 0, target |-> e.target]
    BY <2>1, <2>2, <2>3 DEF Table!Prediction
  <2> HIDE DEF e
  <2>7. (~history \/ e.count >= 0) = (e.count >= 0)
    BY <2>4
  <2> QED BY <2>5, <2>6, <2>7
<1> QED BY <1>3, <1>4

\* A hash cell points to an element.
LEMMA HashFacts == PredictorInv => HashPointsToElements
<1> SUFFICES ASSUME PredictorInv, NEW c \in Cells, hash[c] # EndOfList
             PROVE  list.data[hash[c]] # NoData
  BY DEF HashPointsToElements
<1>1. PICK w, v : Places(w, v)
  BY DEF PredictorInv
<1>2. PICK k \in 1 .. list.n : w[k] = hash[c]
  BY <1>1 DEF Places, Hashed
<1>3. list.data[w[k]] \in Pointers
  BY <1>1, PlacesFacts
<1> QED BY <1>2, <1>3, PredictorAssumption DEF Pointers

-----------------------------------------------------------------------------
\* An update: the entry becomes the first of the table.

\* The branch at a is at the k-th place of the table and nowhere else, or it
\* is at no place.
KnownOnlyAt(tab, p, a, k) == Table!Known(tab, p, a) = {k}
Unknown(tab, p, a) == Table!Known(tab, p, a) = {}

\* The counter is what the abstract table makes of it.
LEMMA LeaningKnown ==
    ASSUME NEW tab, NEW p, NEW a, NEW taken \in BOOLEAN, NEW old \in Counts,
           NEW k, KnownOnlyAt(tab, p, a, k), tab[k].count = old
    PROVE  Table!Leaning(tab, p, a, taken) = Counted(old, TRUE, taken)
<1> DEFINE Old == {tab[j].count : j \in Table!Known(tab, p, a)}
<1>1. Table!Leaning(tab, p, a, taken) =
        IF ~history THEN 0
        ELSE IF taken THEN IF Old \subseteq {-1} THEN 0 ELSE 1
        ELSE IF Old \subseteq {-1, 0} THEN -1 ELSE 0
  BY DEF Table!Leaning
<1>2. Old = {old}
  BY DEF KnownOnlyAt
<1> HIDE DEF Old
<1>3. old \in {-1, 0, 1}
  BY DEF Counts
<1> QED BY <1>1, <1>2, <1>3 DEF Counted

\* The same when the branch is new.
LEMMA LeaningNew ==
    ASSUME NEW tab, NEW p, NEW a, NEW taken \in BOOLEAN, NEW old \in Counts,
           Unknown(tab, p, a)
    PROVE  Table!Leaning(tab, p, a, taken) = Counted(old, FALSE, taken)
<1> DEFINE Old == {tab[j].count : j \in Table!Known(tab, p, a)}
<1>1. Table!Leaning(tab, p, a, taken) =
        IF ~history THEN 0
        ELSE IF taken THEN IF Old \subseteq {-1} THEN 0 ELSE 1
        ELSE IF Old \subseteq {-1, 0} THEN -1 ELSE 0
  BY DEF Table!Leaning
<1>2. Old = {}
  BY DEF Unknown
<1> HIDE DEF Old
<1>3. old \in {-1, 0, 1}
  BY DEF Counts
<1> QED BY <1>1, <1>2, <1>3 DEF Counted

\* The m slots of r are slots of w, by the positions in o.
Picks(o, r, m, w, n) ==
    /\ m \in Nat
    /\ o \in [1 .. m -> 1 .. n]
    /\ Injective(o, m)
    /\ \A j \in 1 .. m : r[j] = w[o[j]]

\* What holds after PutFirst for the chosen elements that stay in the table.
LEMMA FirstFacts ==
    ASSUME PredictorInv, NEW w, NEW v, Places(w, v),
           NEW p \in Processors, NEW a \in Addrs, NEW t \in Targets,
           NEW taken \in BOOLEAN, NEW d \in Pointers, NEW known \in BOOLEAN,
           NEW l, NEW f, NEW o, NEW r, NEW m,
           Picks(o, r, m, w, list.n),
           Fronted(l, f, list, r, m, d),
           \A j \in 1 .. m : /\ list.data[w[o[j]]] # d
                             /\ ~IsEntry(list.data[w[o[j]]], p, a),
           PutFirst(d, known, l, p, a, t, taken), history' = history
    PROVE  /\ Visits(list', f) /\ list' \in ListType(Pointers)
           /\ list'.n = m + 1 /\ list'.begin = f[1]
           /\ list'.data[f[1]] = d
           /\ \A j \in 1 .. m : list'.data[f[j + 1]] = list.data[w[o[j]]]
           /\ entries' \in [Pointers -> Entries]
           /\ Uncounted'
           /\ OneEach(list', f, entries')
           /\ LruOrder' = <<[proc |-> p, addr |-> a, target |-> t,
                  count |-> Counted(entries[d].count, known, taken)]>>
                  \o Lined(entries, list, r, m)
           /\ hash' \in [Cells -> Links] /\ hash'[Cell(a)] = f[1]
           /\ \A c \in Cells : c # Cell(a) => hash'[c] = hash[c]
<1> DEFINE entry == [proc |-> p, addr |-> a, target |-> t,
                     count |-> Counted(entries[d].count, known, taken)]
<1>1. /\ list' = Settled(l)
      /\ entries' = [entries EXCEPT ![d] = entry]
      /\ hash' = [hash EXCEPT ![Cell(a)] = l.begin]
  BY DEF PutFirst
<1>2. /\ Visits(l, f) /\ l.n = m + 1 /\ l.begin = f[1] /\ l.data[f[1]] = d
      /\ \A j \in 1 .. m : l.data[f[j + 1]] = list.data[r[j]]
  BY DEF Fronted
<1>3. /\ m \in Nat /\ \A j \in 1 .. m : o[j] \in 1 .. list.n /\ r[j] = w[o[j]]
      /\ \A i, j \in 1 .. m : o[i] = o[j] => i = j
  BY DEF Picks, Injective
<1>4. /\ Visits(list', f) /\ list' \in ListType(Pointers)
      /\ list'.n = m + 1 /\ list'.begin = f[1] /\ list'.data = l.data
  BY <1>1, <1>2, SettledFacts
<1>5. entries \in [Pointers -> Entries] /\ hash \in [Cells -> Links]
      /\ \A k \in 1 .. list.n : list.data[w[k]] \in Pointers
  BY PlacesFacts
<1>6. entries[d].count \in Counts
  BY <1>5 DEF Entries
<1>7. Counted(entries[d].count, known, taken) \in Counts
  BY <1>6 DEF Counted, Counts
<1>8. entry \in Entries
  BY <1>7 DEF Entries
<1>9. ~history => entry.count = 0
  BY DEF Counted
<1>10. entry.proc = p /\ entry.addr = a
  OBVIOUS
<1> HIDE DEF entry
<1>11. entries' \in [Pointers -> Entries]
  BY <1>1, <1>5, <1>8
<1>12. Uncounted'
  BY <1>1, <1>5, <1>9 DEF PredictorInv, Uncounted
<1>13. Cell(a) \in Cells
  BY PredictorAssumption DEF Cell, Cells
<1>14. f[1] \in Slots
  <2>1. 1 \in 1 .. l.n
    BY <1>2, <1>3
  <2> QED BY <1>2, <2>1, VisitsType
<1>15. /\ hash' \in [Cells -> Links] /\ hash'[Cell(a)] = f[1]
       /\ \A c \in Cells : c # Cell(a) => hash'[c] = hash[c]
  BY <1>1, <1>2, <1>5, <1>13, <1>14 DEF Links
<1>16. ASSUME NEW j \in 1 .. m
       PROVE  /\ list'.data[f[j + 1]] = list.data[w[o[j]]]
              /\ list.data[r[j]] = list.data[w[o[j]]]
              /\ entries'[list'.data[f[j + 1]]] = entries[list.data[w[o[j]]]]
  <2>1. list'.data[f[j + 1]] = list.data[w[o[j]]] /\ list.data[r[j]] = list.data[w[o[j]]]
    BY <1>2, <1>3, <1>4
  <2>2. list.data[w[o[j]]] \in Pointers /\ list.data[w[o[j]]] # d
    BY <1>3, <1>5
  <2> QED BY <1>1, <1>5, <2>1, <2>2
<1>17. list'.data[f[1]] = d /\ entries'[list'.data[f[1]]] = entry
  BY <1>1, <1>2, <1>4, <1>5
<1> DEFINE now(k) == entries'[list'.data[f[k]]]
<1>18. ASSUME NEW j \in 1 .. m PROVE ~(now(j + 1).proc = p /\ now(j + 1).addr = a)
  BY <1>16 DEF IsEntry
<1>19. OneEach(list', f, entries')
  <2> SUFFICES ASSUME NEW i \in 1 .. m + 1, NEW j \in 1 .. m + 1,
                      now(i).proc = now(j).proc, now(i).addr = now(j).addr
               PROVE  i = j
    BY <1>4 DEF OneEach
  <2>1. now(1).proc = p /\ now(1).addr = a
    BY <1>10, <1>17
  <2> HIDE DEF now
  <2>2. CASE i = 1 \/ j = 1
    <3>1. i # 1 => i - 1 \in 1 .. m /\ (i - 1) + 1 = i
      BY <1>3
    <3>2. j # 1 => j - 1 \in 1 .. m /\ (j - 1) + 1 = j
      BY <1>3
    <3>3. i # 1 => ~(now(i).proc = p /\ now(i).addr = a)
      BY <1>18, <3>1
    <3>4. j # 1 => ~(now(j).proc = p /\ now(j).addr = a)
      BY <1>18, <3>2
    <3> QED BY <2>1, <2>2, <3>3, <3>4
  <2>3. CASE i # 1 /\ j # 1
    <3>1. /\ i - 1 \in 1 .. m /\ (i - 1) + 1 = i
          /\ j - 1 \in 1 .. m /\ (j - 1) + 1 = j
      BY <1>3, <2>3, SMTT(30)
    <3>2. /\ now(i) = entries[list.data[w[o[i - 1]]]]
          /\ now(j) = entries[list.data[w[o[j - 1]]]]
      BY <1>16, <3>1 DEF now
    <3>3. o[i - 1] \in 1 .. list.n /\ o[j - 1] \in 1 .. list.n
      BY <1>3, <3>1, SMTT(30)
    <3>4. o[i - 1] = o[j - 1]
      BY <3>2, <3>3 DEF Places, OneEach
    <3>5. i - 1 = j - 1
      BY <1>3, <3>1, <3>4
    <3> QED BY <3>5
  <2> QED BY <2>2, <2>3
<1>20. LruOrder' = <<entry>> \o Lined(entries, list, r, m)
  <2>1. LruOrder' = [k \in 1 .. m + 1 |-> now(k)]
    BY <1>4, OrderIs DEF Lined
  <2> DEFINE rest == Lined(entries, list, r, m)
  <2>2. \A j \in 1 .. m : rest[j] = now(j + 1)
    BY <1>16 DEF Lined
  <2>3. rest \in [1 .. m -> Entries]
    <3>1. \A j \in 1 .. m : entries[list.data[r[j]]] \in Entries
      BY <1>3, <1>5, <1>16
    <3> QED BY <3>1 DEF Lined
  <2> HIDE DEF rest
  <2>4. now(1) = entry
    BY <1>17
  <2> HIDE DEF now
  <2>5. rest \in Seq(Entries) /\ Len(rest) = m
    BY <1>3, <2>3
  <2>6. /\ <<entry>> \o rest \in Seq(Entries)
        /\ Len(<<entry>> \o rest) = m + 1
        /\ \A k \in 1 .. m + 1 : (<<entry>> \o rest)[k] =
               IF k = 1 THEN entry ELSE rest[k - 1]
    BY <1>3, <1>8, <2>5
  <2>7. ASSUME NEW k \in 1 .. m + 1 PROVE (<<entry>> \o rest)[k] = now(k)
    <3>1. k # 1 => k - 1 \in 1 .. m /\ (k - 1) + 1 = k
      BY <1>3
    <3> QED BY <2>2, <2>4, <2>6, <3>1
  <2> DEFINE all == <<entry>> \o rest
  <2>8. all \in Seq(Entries) /\ Len(all) = m + 1 /\ \A k \in 1 .. m + 1 : all[k] = now(k)
    BY <2>6, <2>7
  <2> HIDE DEF all
  <2>9. all = [k \in 1 .. m + 1 |-> now(k)]
    BY <2>8
  <2> QED BY <2>1, <2>9 DEF all, rest
<1> QED BY <1>4, <1>11, <1>12, <1>15, <1>16, <1>17, <1>19, <1>20 DEF entry

\* What the abstract table becomes: the entry of the branch gives up its place
\* for the new first one,
LEMMA UpdatedKnown ==
    ASSUME NEW n \in Nat, NEW tab \in [1 .. n -> Entries], Len(tab) = n, n <= Capacity,
           NEW p, NEW a, NEW t, NEW taken, NEW c,
           Table!Leaning(tab, p, a, taken) = c,
           NEW k \in 1 .. n, KnownOnlyAt(tab, p, a, k)
    PROVE  Table!Updated(tab, p, a, t, taken) =
             <<[proc |-> p, addr |-> a, target |-> t, count |-> c]>>
             \o Without(tab, n, k)
<1> DEFINE entry == [proc |-> p, addr |-> a, target |-> t, count |-> c]
           others == Table!Kept(tab, DOMAIN tab \ {k})
           next == Table!Updated(tab, p, a, t, taken)
<1>1. DOMAIN tab = 1 .. n
  OBVIOUS
<1>2. next = <<entry>> \o (IF Len(others) < Capacity THEN others
                           ELSE SubSeq(others, 1, Capacity - 1))
  BY DEF Table!Updated, KnownOnlyAt
<1>3. others = Without(tab, n, k)
  <2>1. Table!Kept(tab, (1 .. n) \ {k}) = Without(tab, n, k)
    BY KeptOthers
  <2> QED BY <1>1, <2>1
<1> HIDE DEF others, next, entry
<1>4. \A j \in 1 .. n - 1 : (IF j < k THEN tab[j] ELSE tab[j + 1]) \in Entries
  OBVIOUS
<1>5. Without(tab, n, k) \in [1 .. n - 1 -> Entries]
  BY <1>4 DEF Without
<1>6. n - 1 \in Nat /\ n - 1 < Capacity
  BY CapacityAssumption
<1>7. Len(others) = n - 1
  BY <1>3, <1>5, <1>6
<1> QED BY <1>2, <1>3, <1>6, <1>7 DEF next, entry

\* or a free place, or else the last entry, is used up for it.
LEMMA UpdatedNew ==
    ASSUME NEW n \in Nat, NEW tab \in [1 .. n -> Entries], Len(tab) = n, n <= Capacity,
           NEW p, NEW a, NEW t, NEW taken, NEW c,
           Table!Leaning(tab, p, a, taken) = c,
           Unknown(tab, p, a)
    PROVE  LET entry == [proc |-> p, addr |-> a, target |-> t, count |-> c]
               next == Table!Updated(tab, p, a, t, taken)
           IN /\ n < Capacity => next = <<entry>> \o tab
              /\ n = Capacity => next = <<entry>> \o Without(tab, n, n)
<1> DEFINE entry == [proc |-> p, addr |-> a, target |-> t, count |-> c]
           others == Table!Kept(tab, DOMAIN tab \ {})
           next == Table!Updated(tab, p, a, t, taken)
<1>1. DOMAIN tab = 1 .. n
  OBVIOUS
<1>2. next = <<entry>> \o (IF Len(others) < Capacity THEN others
                           ELSE SubSeq(others, 1, Capacity - 1))
  BY DEF Table!Updated, Unknown
<1>3. others = tab
  BY <1>1, KeptAll
<1> HIDE DEF others, next, entry
<1>4. ASSUME n < Capacity PROVE next = <<entry>> \o tab
  BY <1>2, <1>3, <1>4
<1>5. ASSUME n = Capacity PROVE next = <<entry>> \o Without(tab, n, n)
  <2>1. next = <<entry>> \o SubSeq(tab, 1, n - 1)
    BY <1>2, <1>3, <1>5
  <2>2. n - 1 \in Nat /\ \A j \in 1 .. n - 1 : j \in 1 .. n
    BY <1>5, CapacityAssumption
  <2>3. Without(tab, n, n) = [j \in 1 .. n - 1 |-> tab[j]]
    BY DEF Without
  <2>4. SubSeq(tab, 1, n - 1) = [j \in 1 .. n - 1 |-> tab[j]]
    BY <2>2
  <2> QED BY <2>1, <2>3, <2>4
<1> QED BY <1>4, <1>5 DEF next, entry

\* The positions that stay when one is left out, or none.
LEMMA WithoutChosen ==
    ASSUME NEW w, NEW n \in Nat, NEW k \in 1 .. n
    PROVE  \E o : /\ Picks(o, Without(w, n, k), n - 1, w, n)
                  /\ \A j \in 1 .. n - 1 : o[j] # k
<1>1. PICK o : o = [j \in 1 .. n - 1 |-> IF j < k THEN j ELSE j + 1]
  OBVIOUS
<1>2. n - 1 \in Nat
  OBVIOUS
<1>3. \A j \in 1 .. n - 1 : o[j] = (IF j < k THEN j ELSE j + 1)
  BY <1>1
<1>4. o \in [1 .. n - 1 -> 1 .. n]
  BY <1>1
<1>5. Injective(o, n - 1)
  BY <1>3 DEF Injective
<1>6. \A j \in 1 .. n - 1 : Without(w, n, k)[j] = w[o[j]]
  BY <1>3 DEF Without
<1>7. \A j \in 1 .. n - 1 : o[j] # k
  BY <1>3
<1> QED BY <1>2, <1>4, <1>5, <1>6, <1>7 DEF Picks

\* All positions stay.
LEMMA AllChosen ==
    ASSUME NEW w, NEW n \in Nat
    PROVE  \E o : Picks(o, w, n, w, n)
<1>1. PICK o : o = [j \in 1 .. n |-> j]
  OBVIOUS
<1>2. o \in [1 .. n -> 1 .. n] /\ \A j \in 1 .. n : o[j] = j
  BY <1>1
<1> QED BY <1>2 DEF Picks, Injective

\* The entries of the other slots are the other entries.
LEMMA LinedWithout ==
    ASSUME NEW e, NEW l, NEW w, NEW n \in Nat, NEW k \in 1 .. n
    PROVE  Lined(e, l, Without(w, n, k), n - 1) = Without(Lined(e, l, w, n), n, k)
<1> DEFINE tab == Lined(e, l, w, n)
           r == Without(w, n, k)
<1>1. \A j \in 1 .. n : tab[j] = e[l.data[w[j]]]
  BY DEF Lined
<1>2. \A j \in 1 .. n - 1 : r[j] = IF j < k THEN w[j] ELSE w[j + 1]
  BY DEF Without
<1> HIDE DEF tab, r
<1>3. \A j \in 1 .. n - 1 : e[l.data[r[j]]] = IF j < k THEN tab[j] ELSE tab[j + 1]
  BY <1>1, <1>2
<1>4. Lined(e, l, r, n - 1) = Without(tab, n, k)
  BY <1>3 DEF Lined, Without
<1> QED BY <1>4 DEF tab, r

-----------------------------------------------------------------------------
\* The actions of add_entry.

\* The parts of the invariant after an action.
LEMMA InvFrom ==
    ASSUME NEW f, NEW s, history' \in BOOLEAN,
           entries' \in [Pointers -> Entries],
           list' \in ListType(Pointers), supplier' \in ListType(Pointers),
           hash' \in [Cells -> Links],
           Uncounted', Unhashed(hash', list'),
           Visits(list', f), Visits(supplier', s), Pool(list', f, supplier', s),
           OneEach(list', f, entries'), Hashed(hash', list', f)
    PROVE  PredictorInv'
<1>1. PredictorTypeOK'
  BY DEF PredictorTypeOK, Entries
<1>2. Places(f, s)'
  BY DEF Places
<1>3. Unhashed(hash, list)'
  OBVIOUS
<1> QED BY <1>1, <1>2, <1>3 DEF PredictorInv

\* The element at the k-th place is moved, or recycled, for the branch at a.
LEMMA MoveKeeps ==
    ASSUME PredictorInv, NEW w, NEW v, Places(w, v),
           NEW p \in Processors, NEW a \in Addrs, NEW t \in Targets,
           NEW taken \in BOOLEAN, NEW known \in BOOLEAN, NEW k \in 1 .. list.n,
           \A j \in 1 .. list.n : j # k => ~IsEntry(list.data[w[j]], p, a),
           PutFirst(list.data[w[k]], known, MoveToInit(list, w[k]), p, a, t, taken),
           UNCHANGED <<supplier, history>>
    PROVE  /\ PredictorInv'
           /\ LruOrder' = <<[proc |-> p, addr |-> a, target |-> t, count |->
                  Counted(entries[list.data[w[k]]].count, known, taken)]>>
                  \o Without(LruOrder, list.n, k)
<1> DEFINE n == list.n
           d == list.data[w[k]]
           r == Without(w, n, k)
           l == MoveToInit(list, w[k])
           entry == [proc |-> p, addr |-> a, target |-> t,
                     count |-> Counted(entries[d].count, known, taken)]
<1>1. /\ Visits(list, w) /\ Visits(supplier, v) /\ Pool(list, w, supplier, v)
      /\ OneEach(list, w, entries) /\ Hashed(hash, list, w)
  BY DEF Places
<1>2. /\ n \in Nat /\ n <= Capacity /\ d \in Pointers
      /\ LruOrder = Lined(entries, list, w, n)
      /\ \A j \in 1 .. n : w[j] \in Slots
  BY PlacesFacts
<1>3. PICK f : /\ Fronted(l, f, list, r, n - 1, d)
               /\ IF n = 1 THEN f[1] = 0 ELSE Covers(f, n, w, n)
  BY <1>1, MovedFacts
<1>4. PICK o : Picks(o, r, n - 1, w, n) /\ \A j \in 1 .. n - 1 : o[j] # k
  BY <1>2, WithoutChosen
<1>5. \A j \in 1 .. n - 1 : o[j] \in 1 .. n
  BY <1>4 DEF Picks
<1>6. ASSUME NEW j \in 1 .. n - 1
      PROVE  /\ list.data[w[o[j]]] # d
             /\ ~IsEntry(list.data[w[o[j]]], p, a)
  BY <1>1, <1>4, <1>5 DEF Pool
<1> HIDE DEF n, d, r, l
<1>7. /\ PutFirst(d, known, l, p, a, t, taken) /\ history' = history
      /\ Picks(o, r, n - 1, w, list.n)
  BY <1>4 DEF n, d, l
<1>8. /\ Visits(list', f) /\ list' \in ListType(Pointers)
      /\ list'.n = (n - 1) + 1 /\ list'.begin = f[1]
      /\ list'.data[f[1]] = d
      /\ \A j \in 1 .. n - 1 : list'.data[f[j + 1]] = list.data[w[o[j]]]
      /\ entries' \in [Pointers -> Entries]
      /\ Uncounted'
      /\ OneEach(list', f, entries')
      /\ LruOrder' = <<entry>> \o Lined(entries, list, r, n - 1)
      /\ hash' \in [Cells -> Links] /\ hash'[Cell(a)] = f[1]
      /\ \A c \in Cells : c # Cell(a) => hash'[c] = hash[c]
  BY <1>2, <1>3, <1>6, <1>7, FirstFacts
<1> HIDE DEF entry
<1>9. list'.n = n /\ n # 0
  BY <1>2, <1>8 DEF n
<1>10. LruOrder' = <<entry>> \o Without(LruOrder, n, k)
  BY <1>2, <1>8, LinedWithout DEF n, r
<1>11. Unhashed(hash', list')
  BY <1>3, <1>8, <1>9 DEF Unhashed
<1>12. Hashed(hash', list', f)
  <2> SUFFICES ASSUME NEW c \in Cells, hash'[c] # EndOfList
               PROVE  \E j \in 1 .. n : f[j] = hash'[c]
    BY <1>9 DEF Hashed
  <2>1. CASE c = Cell(a)
    <3>1. 1 \in 1 .. n /\ f[1] = hash'[c]
      BY <1>2, <1>8, <1>9, <2>1
    <3> QED BY <3>1
  <2>2. CASE c # Cell(a)
    <3>1. PICK i \in 1 .. n : w[i] = hash'[c]
      BY <1>1, <1>8, <2>2 DEF Hashed, n
    <3>2. CASE n = 1
      <4>1. i = 1 /\ list.begin = w[1]
        BY <1>1, <1>9, <3>2, VisitsType DEF n
      <4>2. w[1] = 0
        BY <1>8, <2>2, <3>1, <3>2, <4>1 DEF PredictorInv, Unhashed, n
      <4> QED BY <1>3, <3>1, <3>2, <4>1, <4>2
    <3>3. CASE n # 1
      BY <1>3, <3>1, <3>3 DEF Covers
    <3> QED BY <3>2, <3>3
  <2> QED BY <2>1, <2>2
<1>13. Pool(list', f, supplier', v)
  <2>1. list'.n + supplier'.n = Capacity
    BY <1>1, <1>9 DEF Pool, n
  <2>2. \A i, j \in 1 .. list'.n : list'.data[f[i]] = list'.data[f[j]] => i = j
    BY <1>8 DEF OneEach
  <2>3. ASSUME NEW i \in 1 .. n PROVE \E j \in 1 .. n : list'.data[f[i]] = list.data[w[j]]
    <3>1. CASE i = 1
      BY <1>8, <3>1 DEF d, n
    <3>2. CASE i # 1
      <4>1. i - 1 \in 1 .. n - 1 /\ (i - 1) + 1 = i
        BY <1>2, <3>2
      <4> QED BY <1>5, <1>8, <4>1 DEF n
    <3> QED BY <3>1, <3>2
  <2>4. \A i \in 1 .. list'.n, j \in 1 .. supplier'.n :
            list'.data[f[i]] # supplier'.data[v[j]]
    BY <1>1, <1>9, <2>3 DEF Pool, n
  <2>5. \A i, j \in 1 .. supplier'.n :
            supplier'.data[v[i]] = supplier'.data[v[j]] => i = j
    BY <1>1 DEF Pool
  <2> QED BY <2>1, <2>2, <2>4, <2>5 DEF Pool
<1>14. /\ history' \in BOOLEAN /\ supplier' \in ListType(Pointers)
       /\ Visits(supplier', v)
  BY <1>1 DEF PredictorInv, PredictorTypeOK
<1>15. PredictorInv'
  BY <1>8, <1>11, <1>12, <1>13, <1>14, InvFrom
<1> QED BY <1>10, <1>15 DEF entry, n, d

\* An element of the supply is taken for the new branch at a.
LEMMA SupplyKeeps ==
    ASSUME PredictorInv, NEW w, NEW v, Places(w, v),
           NEW p \in Processors, NEW a \in Addrs, NEW t \in Targets,
           NEW taken \in BOOLEAN, NEW known \in BOOLEAN, supplier.n > 0,
           \A j \in 1 .. list.n : ~IsEntry(list.data[w[j]], p, a),
           PutFirst(supplier.data[v[1]], known,
                    AddBeginning(list, supplier.data[v[1]]), p, a, t, taken),
           supplier' = Settled(Del(supplier, v[1])), history' = history
    PROVE  /\ PredictorInv' /\ list.n < Capacity
           /\ entries[supplier.data[v[1]]] \in Entries
           /\ LruOrder' = <<[proc |-> p, addr |-> a, target |-> t, count |->
                  Counted(entries[supplier.data[v[1]]].count, known, taken)]>>
                  \o LruOrder
<1> DEFINE n == list.n
           sn == supplier.n
           d == supplier.data[v[1]]
           l == AddBeginning(list, d)
           x == Del(supplier, v[1])
           entry == [proc |-> p, addr |-> a, target |-> t,
                     count |-> Counted(entries[d].count, known, taken)]
<1>1. /\ Visits(list, w) /\ Visits(supplier, v) /\ Pool(list, w, supplier, v)
      /\ OneEach(list, w, entries) /\ Hashed(hash, list, w)
  BY DEF Places
<1>2. /\ n \in Nat /\ n <= Capacity /\ Capacity \in Nat
      /\ LruOrder = Lined(entries, list, w, n)
      /\ entries \in [Pointers -> Entries]
  BY PlacesFacts
<1>3. sn \in Nat /\ 1 \in 1 .. sn
  BY <1>1, VisitsType
<1>4. d \in Pointers /\ n < Capacity
  BY <1>1, <1>2, <1>3, VisitsType DEF Pool
<1>5. PICK f : /\ Fronted(l, f, list, w, n, d)
               /\ Covers(f, n + 1, w, n)
               /\ n = 0 => f[1] = 0
  BY <1>1, <1>4, SuppliedFacts
<1>6. PICK o : Picks(o, w, n, w, n)
  BY <1>2, AllChosen
<1>7. \A j \in 1 .. n : o[j] \in 1 .. n
  BY <1>6 DEF Picks
<1>8. ASSUME NEW j \in 1 .. n
      PROVE  /\ list.data[w[o[j]]] # d
             /\ ~IsEntry(list.data[w[o[j]]], p, a)
  BY <1>1, <1>3, <1>7 DEF Pool
<1>9. /\ Visits(x, Without(v, sn, 1)) /\ x.n = sn - 1
      /\ x.data = [supplier.data EXCEPT ![v[1]] = NoData]
  BY <1>1, <1>3, DelFacts
<1>10. PICK s : s = Without(v, sn, 1)
  OBVIOUS
<1> HIDE DEF n, sn, d, l, x
<1>11. /\ Visits(supplier', s) /\ supplier' \in ListType(Pointers)
       /\ supplier'.n = sn - 1 /\ supplier'.data = x.data
  BY <1>9, <1>10, SettledFacts DEF x
<1>12. ASSUME NEW j \in 1 .. sn - 1
       PROVE  /\ j + 1 \in 1 .. sn /\ j + 1 # 1
              /\ supplier'.data[s[j]] = supplier.data[v[j + 1]]
  <2>1. j + 1 \in 1 .. sn /\ j + 1 # 1 /\ s[j] = v[j + 1]
    BY <1>3, <1>10 DEF Without
  <2>2. v[j + 1] \in Slots /\ v[j + 1] # v[1]
    BY <1>1, <1>3, <2>1, VisitsType DEF sn
  <2>3. supplier.data \in [Slots -> Pointers \cup {NoData}]
    BY <1>1, VisitsType
  <2> QED BY <1>9, <1>11, <2>1, <2>2, <2>3
<1>13. /\ PutFirst(d, known, l, p, a, t, taken)
       /\ Picks(o, w, n, w, list.n)
  BY <1>6 DEF n, d, l
<1>14. /\ Visits(list', f) /\ list' \in ListType(Pointers)
       /\ list'.n = n + 1 /\ list'.begin = f[1]
       /\ list'.data[f[1]] = d
       /\ \A j \in 1 .. n : list'.data[f[j + 1]] = list.data[w[o[j]]]
       /\ entries' \in [Pointers -> Entries]
       /\ Uncounted'
       /\ OneEach(list', f, entries')
       /\ LruOrder' = <<entry>> \o Lined(entries, list, w, n)
       /\ hash' \in [Cells -> Links] /\ hash'[Cell(a)] = f[1]
       /\ \A c \in Cells : c # Cell(a) => hash'[c] = hash[c]
  BY <1>4, <1>5, <1>8, <1>13, FirstFacts
<1> HIDE DEF entry
<1>15. LruOrder' = <<entry>> \o LruOrder
  BY <1>2, <1>14
<1>16. Unhashed(hash', list')
  BY <1>2, <1>5, <1>14 DEF Unhashed
<1>17. Hashed(hash', list', f)
  <2> SUFFICES ASSUME NEW c \in Cells, hash'[c] # EndOfList
               PROVE  \E j \in 1 .. n + 1 : f[j] = hash'[c]
    BY <1>14 DEF Hashed
  <2>1. CASE c = Cell(a)
    <3>1. 1 \in 1 .. n + 1 /\ f[1] = hash'[c]
      BY <1>2, <1>14, <2>1
    <3> QED BY <3>1
  <2>2. CASE c # Cell(a)
    <3>1. PICK i \in 1 .. n : w[i] = hash'[c]
      BY <1>1, <1>14, <2>2 DEF Hashed, n
    <3> QED BY <1>5, <3>1 DEF Covers
  <2> QED BY <2>1, <2>2
<1>18. Pool(list', f, supplier', s)
  <2>1. list'.n + supplier'.n = Capacity
    <3>1. n + sn = Capacity
      BY <1>1 DEF Pool, n, sn
    <3>2. list'.n = n + 1 /\ supplier'.n = sn - 1
      BY <1>11, <1>14
    <3> QED BY <1>2, <1>3, <3>1, <3>2
  <2>2. \A i, j \in 1 .. list'.n : list'.data[f[i]] = list'.data[f[j]] => i = j
    BY <1>14 DEF OneEach
  <2>3. ASSUME NEW i \in 1 .. n + 1, NEW j \in 1 .. sn - 1
        PROVE  list'.data[f[i]] # supplier'.data[s[j]]
    <3>1. CASE i = 1
      <4>1. supplier.data[v[j + 1]] # supplier.data[v[1]]
        BY <1>1, <1>3, <1>12 DEF Pool, sn
      <4> QED BY <1>12, <1>14, <3>1, <4>1 DEF d
    <3>2. CASE i # 1
      <4>1. i - 1 \in 1 .. n /\ (i - 1) + 1 = i
        BY <1>2, <3>2
      <4>2. list'.data[f[i]] = list.data[w[o[i - 1]]] /\ o[i - 1] \in 1 .. n
        BY <1>7, <1>14, <4>1
      <4>3. list.data[w[o[i - 1]]] # supplier.data[v[j + 1]]
        BY <1>1, <1>12, <4>2 DEF Pool, n, sn
      <4> QED BY <1>12, <4>2, <4>3
    <3> QED BY <3>1, <3>2
  <2>4. ASSUME NEW i \in 1 .. sn - 1, NEW j \in 1 .. sn - 1,
               supplier'.data[s[i]] = supplier'.data[s[j]]
        PROVE  i = j
    <3>1. i + 1 = j + 1
      BY <1>1, <1>12, <2>4 DEF Pool, sn
    <3> QED BY <3>1
  <2> QED BY <1>11, <1>14, <2>1, <2>2, <2>3, <2>4 DEF Pool
<1>19. history' \in BOOLEAN
  BY DEF PredictorInv, PredictorTypeOK
<1>20. PredictorInv'
  BY <1>11, <1>14, <1>16, <1>17, <1>18, <1>19, InvFrom
<1>21. entries[d] \in Entries
  BY <1>2, <1>4
<1> QED BY <1>4, <1>15, <1>20, <1>21 DEF entry, n, d

\* add_entry keeps the invariant and updates the abstract table.
LEMMA AddEntryFacts ==
    ASSUME PredictorInv, NEW p \in Processors, NEW a \in Addrs, NEW t \in Targets,
           NEW taken \in BOOLEAN, AddEntry(p, a, t, taken)
    PROVE  PredictorInv' /\ LruOrder' = Table!Updated(LruOrder, p, a, t, taken)
<1> DEFINE n == list.n
           tab == LruOrder
<1>1. PICK w, v : Places(w, v)
  BY DEF PredictorInv
<1>2. /\ Visits(list, w) /\ Visits(supplier, v) /\ Pool(list, w, supplier, v)
      /\ history' = history
  BY <1>1 DEF Places, AddEntry
<1>3. /\ n \in Nat /\ n <= Capacity /\ Capacity \in Nat \ {0}
      /\ tab \in [1 .. n -> Entries] /\ Len(tab) = n
      /\ tab = Lined(entries, list, w, n)
      /\ \A k \in 1 .. n : /\ w[k] # EndOfList
                           /\ list.data[w[k]] \in Pointers
                           /\ entries[list.data[w[k]]] \in Entries
      /\ \A j, k \in 1 .. n : w[j] = w[k] => j = k
  BY <1>1, PlacesFacts
<1>4. \A k \in 1 .. n : tab[k] = entries[list.data[w[k]]]
  BY <1>3 DEF Lined
<1>5. CASE AddKnown(p, a, t, taken)
  <2>1. PICK k \in 1 .. n :
           /\ Search(p, a) = w[k]
           /\ IsEntry(list.data[w[k]], p, a)
           /\ Table!Known(tab, p, a) = {k}
    BY <1>1, <1>5, SearchFacts DEF AddKnown
  <2>8. KnownOnlyAt(tab, p, a, k) /\ k \in 1 .. n
    BY <2>1 DEF KnownOnlyAt
  <2>2. PICK known \in BOOLEAN : known = TRUE
    OBVIOUS
  <2>3. /\ PutFirst(list.data[w[k]], known, MoveToInit(list, w[k]), p, a, t, taken)
        /\ UNCHANGED supplier
    BY <1>5, <2>1, <2>2 DEF AddKnown
  <2>4. \A j \in 1 .. n : j # k => ~IsEntry(list.data[w[j]], p, a)
    BY <1>1, <2>1, KnownIs
  <2> DEFINE c == Counted(entries[list.data[w[k]]].count, known, taken)
  <2>5. /\ PredictorInv'
        /\ LruOrder' = <<[proc |-> p, addr |-> a, target |-> t, count |-> c]>>
                       \o Without(LruOrder, n, k)
    BY <1>1, <1>2, <2>3, <2>4, MoveKeeps, ZenonT(40)
  <2>6. Table!Leaning(tab, p, a, taken) = c
    <3>1. entries[list.data[w[k]]].count \in Counts
      BY <1>3 DEF Entries
    <3>2. tab[k].count = entries[list.data[w[k]]].count
      BY <1>4
    <3> DEFINE old == entries[list.data[w[k]]].count
    <3> HIDE DEF tab, old
    <3>3. old \in Counts /\ tab[k].count = old
      BY <3>1, <3>2 DEF old
    <3>4. Table!Leaning(tab, p, a, taken) = Counted(old, TRUE, taken)
      BY <2>8, <3>3, LeaningKnown
    <3> QED BY <2>2, <3>4 DEF old
  <2> HIDE DEF c, n, tab
  <2>7. Table!Updated(tab, p, a, t, taken) =
          <<[proc |-> p, addr |-> a, target |-> t, count |-> c]>>
          \o Without(tab, n, k)
    <3>1. /\ n \in Nat /\ n <= Capacity
          /\ tab \in [1 .. n -> Entries] /\ Len(tab) = n
      BY <1>3
    <3> QED BY <2>6, <2>8, <3>1, UpdatedKnown
  <2> QED BY <2>5, <2>7 DEF tab
<1>6. CASE AddFromSupply(p, a, t, taken)
  <2>1. /\ Search(p, a) = EndOfList /\ supplier.n > 0
        /\ supplier' = Settled(Del(supplier, supplier.begin))
        /\ PutFirst(supplier.data[supplier.begin], FALSE,
                    AddBeginning(list, supplier.data[supplier.begin]), p, a, t, taken)
    <3>1. supplier.n > 0 /\ GetFirst(supplier) = supplier.begin
      BY <1>6 DEF AddFromSupply, GetFirst
    <3> QED BY <1>6, <3>1 DEF AddFromSupply, DelFirst
  <2>2. supplier.begin = v[1]
    BY <1>2, <2>1, VisitsType
  <2>3. /\ \A k \in 1 .. n : ~IsEntry(list.data[w[k]], p, a)
        /\ Unknown(tab, p, a)
    BY <1>1, <1>3, <2>1, SearchFacts DEF Unknown
  <2>4. PICK known \in BOOLEAN : known = FALSE
    OBVIOUS
  <2>5. /\ PutFirst(supplier.data[v[1]], known,
                    AddBeginning(list, supplier.data[v[1]]), p, a, t, taken)
        /\ supplier' = Settled(Del(supplier, v[1]))
    BY <2>1, <2>2, <2>4
  <2> DEFINE c == Counted(entries[supplier.data[v[1]]].count, known, taken)
  <2>6. /\ PredictorInv' /\ n < Capacity
        /\ entries[supplier.data[v[1]]] \in Entries
        /\ LruOrder' = <<[proc |-> p, addr |-> a, target |-> t, count |-> c]>> \o tab
    BY <1>1, <1>2, <2>1, <2>3, <2>5, SupplyKeeps
  <2>7. Table!Leaning(tab, p, a, taken) = c
    <3>1. entries[supplier.data[v[1]]].count \in Counts
      BY <2>6 DEF Entries
    <3> HIDE DEF tab
    <3>2. Table!Leaning(tab, p, a, taken) =
            Counted(entries[supplier.data[v[1]]].count, FALSE, taken)
      BY <2>3, <3>1, LeaningNew
    <3> QED BY <2>4, <3>2
  <2> HIDE DEF c, n
  <2>8. Table!Updated(tab, p, a, t, taken) =
          <<[proc |-> p, addr |-> a, target |-> t, count |-> c]>> \o tab
    BY <1>3, <2>3, <2>6, <2>7, UpdatedNew, SMTT(30)
  <2> QED BY <2>6, <2>8
<1>7. CASE AddBySubstitution(p, a, t, taken)
  <2>1. /\ Search(p, a) = EndOfList /\ supplier.n = 0
        /\ PutFirst(list.data[GetLast(list)], FALSE,
                    AddBeginning(Del(list, list.end), list.data[GetLast(list)]),
                    p, a, t, taken)
        /\ UNCHANGED supplier
    BY <1>7 DEF AddBySubstitution, DelLast
  <2>2. n = Capacity /\ n \in 1 .. n
    BY <1>2, <1>3, <2>1 DEF Pool
  <2>3. list.end = w[n] /\ GetLast(list) = w[n]
    BY <1>2, <2>2, VisitsType DEF GetLast
  <2>4. /\ \A k \in 1 .. n : ~IsEntry(list.data[w[k]], p, a)
        /\ Unknown(tab, p, a)
    BY <1>1, <1>3, <2>1, SearchFacts DEF Unknown
  <2>5. PICK known \in BOOLEAN : known = FALSE
    OBVIOUS
  <2>6. PutFirst(list.data[w[n]], known, MoveToInit(list, w[n]), p, a, t, taken)
    BY <2>1, <2>3, <2>5 DEF MoveToInit
  <2> DEFINE c == Counted(entries[list.data[w[n]]].count, known, taken)
  <2>7. /\ PredictorInv'
        /\ LruOrder' = <<[proc |-> p, addr |-> a, target |-> t, count |-> c]>>
                       \o Without(LruOrder, n, n)
    BY <1>1, <1>2, <2>1, <2>2, <2>4, <2>6, MoveKeeps
  <2>8. Table!Leaning(tab, p, a, taken) = c
    <3>1. entries[list.data[w[n]]].count \in Counts
      BY <1>3, <2>2 DEF Entries
    <3> HIDE DEF tab
    <3>2. Table!Leaning(tab, p, a, taken) =
            Counted(entries[list.data[w[n]]].count, FALSE, taken)
      BY <2>4, <3>1, LeaningNew
    <3> QED BY <2>5, <3>2
  <2> HIDE DEF c, n
  <2>9. Table!Updated(tab, p, a, t, taken) =
          <<[proc |-> p, addr |-> a, target |-> t, count |-> c]>>
          \o Without(tab, n, n)
    BY <1>3, <2>2, <2>4, <2>8, UpdatedNew
  <2> QED BY <2>7, <2>9
<1> QED BY <1>5, <1>6, <1>7 DEF AddEntry

-----------------------------------------------------------------------------
\* The loop of flush.

\* A pointer goes from the table to the supply; the links of the deleted
\* element still lead to its successor.
LEMMA PoolMoved ==
    ASSUME NEW l, NEW w, NEW s, NEW v, Visits(l, w), Visits(s, v), Pool(l, w, s, v),
           NEW k \in 1 .. l.n
    PROVE  LET e == Del(l, w[k])
               r == Without(w, l.n, k)
               x == AddEnd(s, l.data[w[k]])
           IN /\ Visits(e, r) /\ e.n = l.n - 1
              /\ e.next[w[k]] = l.next[w[k]]
              /\ \A j \in 1 .. l.n - 1 : e.data[r[j]] = l.data[r[j]]
              /\ \E y : Visits(x, y) /\ Pool(e, r, x, y)
<1> DEFINE n == l.n
           m == s.n
           d == l.data[w[k]]
           e == Del(l, w[k])
           r == Without(w, n, k)
           x == AddEnd(s, d)
           i == AddedSlot(s)
<1>1. /\ n \in Nat /\ n <= Capacity /\ Capacity \in Nat
      /\ l.data \in [Slots -> Pointers \cup {NoData}]
      /\ \A j \in 1 .. n : w[j] \in Slots /\ l.data[w[j]] \in Pointers
      /\ \A j, h \in 1 .. n : w[j] = w[h] => j = h
  BY VisitsType
<1>2. /\ m \in Nat
      /\ s.data \in [Slots -> Pointers \cup {NoData}]
      /\ \A j \in 1 .. m : v[j] \in Slots
  BY VisitsType
<1>3. n + m = Capacity
  BY DEF Pool
<1>4. /\ Visits(e, r) /\ e.n = n - 1
      /\ e.data = [l.data EXCEPT ![w[k]] = NoData]
      /\ e.next[w[k]] = l.next[w[k]]
  BY DelFacts
<1>5. PICK o : Picks(o, r, n - 1, w, n) /\ \A j \in 1 .. n - 1 : o[j] # k
  BY <1>1, WithoutChosen
<1>6. /\ \A j \in 1 .. n - 1 : o[j] \in 1 .. n /\ o[j] # k /\ r[j] = w[o[j]]
      /\ \A j, h \in 1 .. n - 1 : o[j] = o[h] => j = h
  BY <1>5 DEF Picks, Injective
<1>7. d \in Pointers /\ m < Capacity
  BY <1>1, <1>2, <1>3
<1> HIDE DEF d
<1>8. /\ Visits(x, After(v, m, i)) /\ x.n = m + 1
      /\ x.data = [s.data EXCEPT ![i] = d]
  BY <1>7, AddEndFacts
<1>9. i \in Slots /\ \A j \in 1 .. m : v[j] # i
  BY <1>7, AddedFree
<1>10. PICK y : y = After(v, m, i)
  OBVIOUS
<1>16. k \in 1 .. n
  OBVIOUS
<1> HIDE DEF n, m, e, r, x, i
<1>11. ASSUME NEW j \in 1 .. n - 1
       PROVE  /\ e.data[r[j]] = l.data[r[j]]
              /\ e.data[r[j]] = l.data[w[o[j]]]
  <2>1. w[o[j]] \in Slots /\ w[o[j]] # w[k]
    BY <1>1, <1>6, <1>16
  <2> QED BY <1>1, <1>4, <1>6, <2>1
<1>12. \A j \in 1 .. m : y[j] = v[j] /\ x.data[y[j]] = s.data[v[j]]
  <2> TAKE j \in 1 .. m
  <2>1. y[j] = v[j]
    BY <1>2, <1>10 DEF After
  <2> QED BY <1>2, <1>8, <1>9, <2>1
<1>13. y[m + 1] = i /\ x.data[y[m + 1]] = d
  <2>1. y[m + 1] = i
    BY <1>2, <1>10 DEF After
  <2> QED BY <1>2, <1>8, <1>9, <2>1
<1>14. /\ \A j, h \in 1 .. n : l.data[w[j]] = l.data[w[h]] => j = h
       /\ \A j, h \in 1 .. m : s.data[v[j]] = s.data[v[h]] => j = h
       /\ \A j \in 1 .. n, h \in 1 .. m : l.data[w[j]] # s.data[v[h]]
  BY DEF Pool, n, m
<1>15. Pool(e, r, x, y)
  <2>1. e.n + x.n = Capacity
    BY <1>1, <1>2, <1>3, <1>4, <1>8
  <2>2. ASSUME NEW j \in 1 .. n - 1, NEW h \in 1 .. n - 1, e.data[r[j]] = e.data[r[h]]
        PROVE  j = h
    BY <1>6, <1>11, <1>14, <2>2
  <2>3. \A h \in 1 .. m : d # s.data[v[h]]
    BY <1>14, <1>16 DEF d
  <2>4. \A h \in 1 .. m + 1 : h = m + 1 \/ h \in 1 .. m
    BY <1>2
  <2>5. ASSUME NEW j \in 1 .. m + 1, NEW h \in 1 .. m + 1, x.data[y[j]] = x.data[y[h]]
        PROVE  j = h
    <3>1. CASE j = m + 1 /\ h = m + 1
      BY <3>1
    <3>2. CASE j = m + 1 /\ h # m + 1
      BY <1>12, <1>13, <2>3, <2>4, <2>5, <3>2
    <3>3. CASE j # m + 1 /\ h = m + 1
      BY <1>12, <1>13, <2>3, <2>4, <2>5, <3>3
    <3>4. CASE j # m + 1 /\ h # m + 1
      BY <1>12, <1>14, <2>4, <2>5, <3>4
    <3> QED BY <3>1, <3>2, <3>3, <3>4
  <2>6. ASSUME NEW j \in 1 .. n - 1, NEW h \in 1 .. m + 1
        PROVE  e.data[r[j]] # x.data[y[h]]
    <3>1. e.data[r[j]] = l.data[w[o[j]]] /\ o[j] \in 1 .. n /\ o[j] # k
      BY <1>6, <1>11
    <3>2. CASE h = m + 1
      BY <1>13, <1>14, <1>16, <3>1, <3>2 DEF d
    <3>3. CASE h # m + 1
      BY <1>12, <1>14, <2>4, <3>1, <3>3
    <3> QED BY <3>2, <3>3
  <2> QED BY <1>4, <1>8, <2>1, <2>2, <2>5, <2>6 DEF Pool
<1> QED BY <1>4, <1>8, <1>10, <1>11, <1>15 DEF n, e, r, x, d

\* The kept slots q[1], ..., q[c], then the slots of w behind the k-th.
Mixed(q, c, w, k, n) ==
    [j \in 1 .. c + (n - k) |-> IF j <= c THEN q[j] ELSE w[(j - c) + k]]

\* The pass x of the loop over the list l has decided on the first k elements
\* in w and kept those in q; a loop over the supply visits u.
Passed(l, w, x, k, q, u) ==
    LET n == l.n
        c == Len(q)
        r == Mixed(q, c, w, k, n)
    IN /\ q \in Seq(Slots)
       /\ Visits(x.list, r) /\ x.list.n = c + (n - k)
       /\ Visits(x.supplier, u)
       /\ Pool(x.list, r, x.supplier, u)
       /\ x.at = IF k = n THEN EndOfList ELSE w[k + 1]
       /\ \A j \in 1 .. c : \E i \in 1 .. k : q[j] = w[i]
       /\ \A j \in 1 .. c + (n - k) : x.list.data[r[j]] = l.data[r[j]]

\* One more element is kept, or goes to the supply.
LEMMA StepFacts ==
    ASSUME NEW l, NEW w, Visits(l, w), NEW p, NEW x, NEW k \in 1 .. l.n, NEW q, NEW u,
           Passed(l, w, x, k - 1, q, u)
    PROVE  LET next == FlushStep(x, p) IN
           /\ x.at # EndOfList
           /\ IF entries[l.data[w[k]]].proc = p
              THEN \E y : Passed(l, w, next, k, q, y)
              ELSE Passed(l, w, next, k, Append(q, w[k]), u)
<1> DEFINE n == l.n
           c == Len(q)
           m == c + (n - (k - 1))
           r == Mixed(q, c, w, k - 1, n)
           d == l.data[w[k]]
           next == FlushStep(x, p)
<1>1. /\ n \in Nat /\ w \in [1 .. n -> Slots]
  BY VisitsType
<1>2. /\ q \in Seq(Slots)
      /\ Visits(x.list, r) /\ x.list.n = m
      /\ Visits(x.supplier, u)
      /\ Pool(x.list, r, x.supplier, u)
      /\ x.at = IF k - 1 = n THEN EndOfList ELSE w[(k - 1) + 1]
      /\ \A j \in 1 .. c : \E i \in 1 .. k - 1 : q[j] = w[i]
      /\ \A j \in 1 .. m : x.list.data[r[j]] = l.data[r[j]]
  BY DEF Passed
<1>3. c \in Nat /\ q \in [1 .. c -> Slots]
  BY <1>2, LenProperties
<1>4. /\ k \in 1 .. n /\ k - 1 # n /\ (k - 1) + 1 = k
      /\ m \in Nat /\ c + 1 \in 1 .. m /\ m - 1 = c + (n - k)
  BY <1>1, <1>3, SMTT(30)
<1>5. x.at = w[k] /\ w[k] \in Slots
  BY <1>1, <1>2, <1>4
<1>6. \A j \in 1 .. m : r[j] = IF j <= c THEN q[j] ELSE w[(j - c) + (k - 1)]
  BY DEF Mixed
<1>7. r[c + 1] = w[k]
  <2>1. ~(c + 1 <= c) /\ ((c + 1) - c) + (k - 1) = k
    BY <1>3, <1>4
  <2> QED BY <1>4, <1>6, <2>1
<1>8. x.list.data[x.at] = d
  BY <1>2, <1>4, <1>5, <1>7
<1>9. x.at # EndOfList
  BY <1>5 DEF Slots, EndOfList
<1> HIDE DEF n, c, m, r, d
<1>10. x.list.next[w[k]] = IF c + 1 = m THEN EndOfList ELSE r[(c + 1) + 1]
  BY <1>2, <1>4, <1>7, VisitsType, SMTT(30)
<1>11. x.list.next[w[k]] = IF k = n THEN EndOfList ELSE w[k + 1]
  <2>1. CASE k = n
    <3>1. c + 1 = m
      BY <1>1, <1>3, <1>4, <2>1
    <3> QED BY <1>10, <2>1, <3>1
  <2>2. CASE k # n
    <3>1. /\ c + 1 # m /\ (c + 1) + 1 \in 1 .. m /\ ~((c + 1) + 1 <= c)
          /\ (((c + 1) + 1) - c) + (k - 1) = k + 1
      BY <1>1, <1>3, <1>4, <2>2
    <3> QED BY <1>6, <1>10, <2>2, <3>1
  <2> QED BY <2>1, <2>2
<1>12. CASE entries[d].proc = p
  <2> DEFINE e == Del(x.list, x.at)
             s == AddEnd(x.supplier, d)
             f == Without(r, m, c + 1)
  <2>1. next.list = e /\ next.at = e.next[x.at] /\ next.supplier = s
    BY <1>8, <1>12 DEF FlushStep, GetNext
  <2>2. /\ Visits(e, f) /\ e.n = m - 1
        /\ e.next[x.at] = x.list.next[x.at]
        /\ \A j \in 1 .. m - 1 : e.data[f[j]] = x.list.data[f[j]]
        /\ \E y : Visits(s, y) /\ Pool(e, f, s, y)
    BY <1>2, <1>4, <1>5, <1>7, <1>8, PoolMoved, SMTT(30)
  <2> HIDE DEF e, s, next
  <2>3. f = Mixed(q, c, w, k, n)
    <3>1. ASSUME NEW j \in 1 .. m - 1
          PROVE  (IF j < c + 1 THEN r[j] ELSE r[j + 1]) =
                 (IF j <= c THEN q[j] ELSE w[(j - c) + k])
      <4>1. j \in 1 .. m /\ j + 1 \in 1 .. m
        BY <1>4
      <4>2. CASE j <= c
        <5>1. j < c + 1
          BY <1>3, <4>2
        <5> QED BY <1>6, <4>1, <4>2, <5>1
      <4>3. CASE ~(j <= c)
        <5>1. ~(j < c + 1) /\ ~(j + 1 <= c) /\ ((j + 1) - c) + (k - 1) = (j - c) + k
          BY <1>3, <1>4, <4>3
        <5> QED BY <1>6, <4>1, <4>3, <5>1
      <4> QED BY <4>2, <4>3
    <3> QED BY <1>4, <3>1 DEF Without, Mixed
  <2>4. ASSUME NEW j \in 1 .. m - 1 PROVE e.data[f[j]] = l.data[f[j]]
    <3>1. PICK o : /\ Picks(o, f, m - 1, r, m)
                   /\ \A h \in 1 .. m - 1 : o[h] # c + 1
      BY <1>4, WithoutChosen
    <3>2. o[j] \in 1 .. m /\ f[j] = r[o[j]]
      BY <3>1 DEF Picks
    <3> QED BY <1>2, <2>2, <3>2
  <2> HIDE DEF f
  <2>5. \A j \in 1 .. c : \E i \in 1 .. k : q[j] = w[i]
    <3>1. \A i \in 1 .. k - 1 : i \in 1 .. k
      BY <1>4
    <3> QED BY <1>2, <3>1
  <2>6. PICK y : Visits(s, y) /\ Pool(e, f, s, y)
    BY <2>2
  <2>7. Passed(l, w, next, k, q, y)
    BY <1>2, <1>4, <1>5, <1>11, <2>1, <2>2, <2>3, <2>4, <2>5, <2>6 DEF Passed, n, c
  <2> QED BY <1>9, <1>12, <2>7 DEF next, d
<1>13. CASE entries[d].proc # p
  <2> DEFINE g == Append(q, w[k])
             f == Mixed(g, c + 1, w, k, n)
  <2>1. next.list = x.list /\ next.at = x.list.next[x.at] /\ next.supplier = x.supplier
    BY <1>8, <1>13 DEF FlushStep, GetNext
  <2> HIDE DEF next
  <2>2. /\ g \in Seq(Slots) /\ Len(g) = c + 1 /\ g[c + 1] = w[k]
        /\ \A j \in 1 .. c : g[j] = q[j]
    BY <1>2, <1>5, AppendProperties DEF c
  <2> HIDE DEF g
  <2>3. (c + 1) + (n - k) = m
    BY <1>1, <1>3, <1>4
  <2>4. f = r
    <3>1. ASSUME NEW j \in 1 .. m
          PROVE  (IF j <= c + 1 THEN g[j] ELSE w[(j - (c + 1)) + k]) =
                 (IF j <= c THEN q[j] ELSE w[(j - c) + (k - 1)])
      <4>1. CASE j <= c
        <5>1. j \in 1 .. c /\ j <= c + 1
          BY <1>3, <4>1
        <5> QED BY <2>2, <4>1, <5>1
      <4>2. CASE j = c + 1
        <5>1. ~(j <= c) /\ j <= c + 1 /\ (j - c) + (k - 1) = k
          BY <1>3, <1>4, <4>2
        <5> QED BY <2>2, <4>2, <5>1
      <4>3. CASE j > c + 1
        <5>1. ~(j <= c) /\ ~(j <= c + 1) /\ (j - (c + 1)) + k = (j - c) + (k - 1)
          BY <1>3, <1>4, <4>3
        <5> QED BY <5>1
      <4> QED BY <1>3, <4>1, <4>2, <4>3
    <3>2. r = [j \in 1 .. m |-> IF j <= c THEN q[j] ELSE w[(j - c) + (k - 1)]]
      BY DEF r, m, Mixed
    <3>3. f = [j \in 1 .. m |-> IF j <= c + 1 THEN g[j] ELSE w[(j - (c + 1)) + k]]
      BY <2>3 DEF Mixed
    <3> QED BY <3>1, <3>2, <3>3
  <2> HIDE DEF f
  <2>5. ASSUME NEW j \in 1 .. c + 1 PROVE \E i \in 1 .. k : g[j] = w[i]
    <3>1. CASE j = c + 1
      <4>1. k \in 1 .. k
        BY <1>4
      <4> QED BY <2>2, <3>1, <4>1
    <3>2. CASE j # c + 1
      <4>1. j \in 1 .. c
        BY <1>3, <3>2
      <4>2. PICK i \in 1 .. k - 1 : q[j] = w[i]
        BY <1>2, <4>1
      <4>3. i \in 1 .. k
        BY <1>4
      <4> QED BY <2>2, <4>1, <4>2, <4>3
    <3> QED BY <3>1, <3>2
  <2>6. Passed(l, w, next, k, g, u)
    <3>1. f = Mixed(g, Len(g), w, k, n)
      BY <2>2 DEF f
    <3> QED BY <1>2, <1>5, <1>11, <2>1, <2>2, <2>3, <2>4, <2>5, <3>1 DEF Passed, n
  <2> QED BY <1>9, <1>13, <2>6 DEF next, d, g
<1> QED BY <1>12, <1>13

\* All passes of the loop, as Flush defines them.
Start == [list |-> list, supplier |-> supplier, at |-> GetFirst(list)]

PassAfter(before, p) == IF before.at = EndOfList THEN before ELSE FlushStep(before, p)

Passes(p) ==
    LET pass[k \in 0 .. Capacity] ==
            IF k = 0 THEN [list |-> list, supplier |-> supplier,
                           at |-> GetFirst(list)]
            ELSE LET before == pass[k - 1]
                 IN  IF before.at = EndOfList THEN before
                     ELSE FlushStep(before, p)
    IN  pass

\* The values a pass may have after k steps.
PassType == [list : RawList, supplier : RawList, at : Links]

PassedOf(w, k) ==
    {x \in PassType : \E q, u :
        Passed(list, w, x, IF k < list.n THEN k ELSE list.n, q, u)}

\* A list without its first k elements, or without any kept ones.
LEMMA MixedIs ==
    ASSUME NEW n \in Nat, NEW c \in Nat, NEW q \in [1 .. c -> Slots],
           NEW w \in [1 .. n -> Slots]
    PROVE  Mixed(<<>>, 0, w, 0, n) = w /\ Mixed(q, c, w, n, n) = q
<1>1. c + (n - n) = c /\ 0 + (n - 0) = n
  OBVIOUS
<1>2. Mixed(q, c, w, n, n) = [j \in 1 .. c |-> IF j <= c THEN q[j] ELSE w[(j - c) + n]]
  BY <1>1 DEF Mixed
<1>3. Mixed(q, c, w, n, n) = [j \in 1 .. c |-> q[j]]
  BY <1>2
<1> DEFINE e == <<>>
<1> HIDE DEF e
<1>4. Mixed(e, 0, w, 0, n) = [j \in 1 .. n |-> IF j <= 0 THEN e[j] ELSE w[(j - 0) + 0]]
  BY <1>1 DEF Mixed
<1>5. Mixed(e, 0, w, 0, n) = [j \in 1 .. n |-> w[j]]
  BY <1>4
<1> QED BY <1>3, <1>5 DEF e

\* Before the first step nothing is decided.
LEMMA StartFacts ==
    ASSUME PredictorInv, NEW w, NEW v, Places(w, v)
    PROVE  Passed(list, w, Start, 0, <<>>, v) /\ Start \in PassedOf(w, 0)
<1>1. Visits(list, w) /\ Visits(supplier, v) /\ Pool(list, w, supplier, v)
  BY DEF Places
<1>2. /\ list.n \in Nat /\ w \in [1 .. list.n -> Slots]
      /\ list.n # 0 => list.begin = w[1]
      /\ \A k \in 1 .. list.n : w[k] \in Slots
  BY <1>1, VisitsType
<1>3. <<>> \in [1 .. 0 -> Slots]
  <2>1. [j \in 1 .. 0 |-> w[j]] \in [1 .. 0 -> Slots]
    OBVIOUS
  <2> QED BY <2>1, NoneLeft
<1>4. Mixed(<<>>, 0, w, 0, list.n) = w
  BY <1>2, <1>3, MixedIs
<1>5. <<>> \in Seq(Slots) /\ Len(<<>>) = 0
  OBVIOUS
<1> DEFINE e == <<>>
           x == Start
<1>6. /\ x.list = list /\ x.supplier = supplier
      /\ x.at = IF list.n = 0 THEN EndOfList ELSE w[1]
  BY <1>2 DEF Start, GetFirst
<1>7. x.at \in Links
  BY <1>2, <1>6 DEF Links
<1>8. list \in RawList /\ supplier \in RawList
  BY <1>1, VisitsType
<1>9. x \in PassType
  BY <1>6, <1>7, <1>8 DEF PassType, Start
<1> HIDE DEF e, x
<1>10. e \in Seq(Slots) /\ Len(e) = 0 /\ Mixed(e, 0, w, 0, list.n) = w
  BY <1>4, <1>5 DEF e
<1>11. Passed(list, w, x, 0, e, v)
  <2>1. 0 + (list.n - 0) = list.n /\ 0 + 1 = 1 /\ 1 .. 0 = {}
    BY <1>2
  <2> QED BY <1>1, <1>2, <1>6, <1>10, <2>1 DEF Passed
<1>12. (IF 0 < list.n THEN 0 ELSE list.n) = 0
  BY <1>2
<1>13. x \in PassedOf(w, 0)
  BY <1>9, <1>11, <1>12 DEF PassedOf
<1> QED BY <1>11, <1>13 DEF e, x

\* A step decides on the next element, if there is one left.
LEMMA PassFacts ==
    ASSUME PredictorInv, NEW w, NEW v, Places(w, v), NEW p,
           NEW k \in 1 .. Capacity, NEW x \in PassedOf(w, k - 1)
    PROVE  PassAfter(x, p) \in PassedOf(w, k)
<1> DEFINE n == list.n
           next == FlushStep(x, p)
<1>1. Visits(list, w)
  BY DEF Places
<1>2. n \in Nat /\ n <= Capacity /\ Capacity \in Nat /\ \A i \in 1 .. n : w[i] \in Slots
  BY <1>1, VisitsType
<1>3. CASE k <= n
  <2>1. k \in 1 .. n /\ (IF k - 1 < n THEN k - 1 ELSE n) = k - 1
        /\ (IF k < n THEN k ELSE n) = k
    BY <1>2, <1>3
  <2> HIDE DEF n
  <2>2. PICK q, u : Passed(list, w, x, k - 1, q, u)
    BY <2>1 DEF PassedOf, n
  <2>3. x.at # EndOfList /\ \E g, y : Passed(list, w, next, k, g, y)
    BY <1>1, <2>1, <2>2, StepFacts DEF n
  <2>4. PassAfter(x, p) = next
    BY <2>3 DEF PassAfter
  <2>5. PICK g, y : Passed(list, w, next, k, g, y)
    BY <2>3
  <2>6. next.list \in RawList /\ next.supplier \in RawList
    BY <2>5 DEF Passed, Visits
  <2>7. next.at \in Links
    <3>1. next.at = IF k = n THEN EndOfList ELSE w[k + 1]
      BY <2>5 DEF Passed, n
    <3>2. k # n => k + 1 \in 1 .. n
      BY <1>2, <2>1
    <3> QED BY <1>2, <3>1, <3>2 DEF Links
  <2>8. next \in PassType
    <3>1. next = [list |-> next.list, at |-> next.at, supplier |-> next.supplier]
      BY DEF FlushStep
    <3> HIDE DEF next
    <3> QED BY <2>6, <2>7, <3>1 DEF PassType
  <2> HIDE DEF next
  <2> QED BY <2>1, <2>4, <2>5, <2>8 DEF PassedOf, n
<1>4. CASE ~(k <= n)
  <2>1. (IF k - 1 < n THEN k - 1 ELSE n) = n /\ (IF k < n THEN k ELSE n) = n
    BY <1>2, <1>4
  <2> HIDE DEF n
  <2>2. PICK q, u : Passed(list, w, x, n, q, u)
    BY <2>1 DEF PassedOf, n
  <2>3. x.at = EndOfList
    BY <2>2 DEF Passed, n
  <2>4. PassAfter(x, p) = x
    BY <2>3 DEF PassAfter
  <2> QED BY <2>1, <2>2, <2>4 DEF PassedOf, n
<1> QED BY <1>3, <1>4

\* So the recursion of flush is well defined, and every pass decides.
LEMMA PassesFacts ==
    ASSUME PredictorInv, NEW w, NEW v, Places(w, v), NEW p
    PROVE  /\ Passes(p)[0] = Start
           /\ \A k \in 1 .. Capacity : Passes(p)[k] = PassAfter(Passes(p)[k - 1], p)
           /\ \A k \in 0 .. Capacity : Passes(p)[k] \in PassedOf(w, k)
<1> DEFINE N == 0 .. Capacity
           T == [k \in N |-> PassedOf(w, k)]
           F == [z \in N \X PassType |-> PassAfter(z[2], p)]
           pass[k \in 0 .. Capacity] ==
               IF k = 0 THEN [list |-> list, supplier |-> supplier,
                              at |-> GetFirst(list)]
               ELSE LET before == pass[k - 1]
                    IN  IF before.at = EndOfList THEN before
                        ELSE FlushStep(before, p)
<1>1. Capacity \in Nat
  BY CapacityAssumption
<1>2. \A k \in N : T[k] = PassedOf(w, k) /\ \A x \in T[k] : x \in PassType
  BY DEF PassedOf
<1>3. \A k \in N, x \in PassType : F[<<k, x>>] = PassAfter(x, p)
  OBVIOUS
<1>4. \A k \in 1 .. Capacity : k \in N /\ k - 1 \in N
  BY <1>1
<1>5. 0 \in N
  BY <1>1
<1> HIDE DEF N, T, F, pass
<1>6. ASSUME NEW k \in 1 .. Capacity, NEW x \in T[k - 1]
      PROVE  F[<<k, x>>] = PassAfter(x, p) /\ PassAfter(x, p) \in T[k]
  <2>1. k \in N /\ k - 1 \in N /\ x \in PassType /\ x \in PassedOf(w, k - 1)
    BY <1>2, <1>4
  <2>2. PassAfter(x, p) \in PassedOf(w, k)
    BY <2>1, PassFacts
  <2> QED BY <1>2, <1>3, <2>1, <2>2
<1>7. PICK g : Iterates(Capacity, T, Start, F, g)
  <2>1. Start \in T[0]
    BY <1>2, <1>5, StartFacts
  <2>2. Steppable(Capacity, T, Start, F)
    BY <1>1, <1>6, <2>1 DEF Steppable
  <2> QED BY <2>2, Iteration
<1>8. ASSUME NEW k \in 0 .. Capacity
      PROVE  g[k] = IF k = 0 THEN Start ELSE PassAfter(g[k - 1], p)
  <2>1. CASE k = 0
    BY <1>7, <2>1 DEF Iterates
  <2>2. CASE k # 0
    <3>1. k \in 1 .. Capacity /\ k - 1 \in 0 .. Capacity
      BY <1>1, <2>2
    <3>2. g[k - 1] \in T[k - 1] /\ g[k] = F[<<k, g[k - 1]>>]
      BY <1>7, <3>1 DEF Iterates
    <3> QED BY <1>6, <2>2, <3>1, <3>2
  <2> QED BY <2>1, <2>2
<1>9. g = [k \in 0 .. Capacity |->
             IF k = 0 THEN [list |-> list, supplier |-> supplier,
                            at |-> GetFirst(list)]
             ELSE LET before == g[k - 1]
                  IN  IF before.at = EndOfList THEN before
                      ELSE FlushStep(before, p)]
  <2>1. g = [k \in 0 .. Capacity |-> g[k]]
    BY <1>7 DEF Iterates
  <2>2. [k \in 0 .. Capacity |-> g[k]] =
          [k \in 0 .. Capacity |-> IF k = 0 THEN Start ELSE PassAfter(g[k - 1], p)]
    BY <1>8
  <2> QED BY <2>1, <2>2, Zenon DEF Start, PassAfter
<1>10. pass = [k \in 0 .. Capacity |->
                IF k = 0 THEN [list |-> list, supplier |-> supplier,
                               at |-> GetFirst(list)]
                ELSE LET before == pass[k - 1]
                     IN  IF before.at = EndOfList THEN before
                         ELSE FlushStep(before, p)]
  BY <1>9, Zenon DEF pass
<1>11. pass = [k \in 0 .. Capacity |->
                 IF k = 0 THEN Start ELSE PassAfter(pass[k - 1], p)]
  BY <1>10, Zenon DEF Start, PassAfter
<1>12. pass[0] = Start /\ \A k \in 1 .. Capacity : pass[k] = PassAfter(pass[k - 1], p)
  <2>1. 0 \in 0 .. Capacity /\ \A k \in 1 .. Capacity : k \in 0 .. Capacity /\ k # 0
    BY <1>1
  <2> DEFINE h(k) == IF k = 0 THEN Start ELSE PassAfter(pass[k - 1], p)
  <2>2. \A k \in 0 .. Capacity : pass[k] = h(k)
    BY <1>11
  <2> QED BY <2>1, <2>2
<1>13. 0 .. Capacity \subseteq {k \in 0 .. Capacity : pass[k] \in T[k]}
  <2> DEFINE R == {k \in 0 .. Capacity : pass[k] \in T[k]}
  <2>1. 0 \in R
    BY <1>1, <1>2, <1>5, <1>12, StartFacts
  <2>2. ASSUME NEW k \in 1 .. Capacity, k - 1 \in R PROVE k \in R
    <3>1. k \in 0 .. Capacity /\ pass[k - 1] \in T[k - 1]
      BY <1>1, <2>2
    <3>2. pass[k] \in T[k]
      BY <1>6, <1>12, <3>1
    <3> QED BY <3>1, <3>2
  <2> HIDE DEF R
  <2> QED BY <1>1, <2>1, <2>2, Inductive DEF R
<1>14. \A k \in 0 .. Capacity : pass[k] \in PassedOf(w, k)
  BY <1>2, <1>13 DEF N
<1>15. Passes(p) = pass
  BY DEF Passes, pass
<1> QED BY <1>12, <1>14, <1>15

\* After the loop the list holds what the abstract table keeps.
LEMMA LastPass ==
    ASSUME PredictorInv, NEW w, NEW v, Places(w, v), NEW p
    PROVE  \E q, u :
             /\ Passed(list, w, Passes(p)[Capacity], list.n, q, u)
             /\ Table!Forgotten(LruOrder, p) = Lined(entries, list, q, Len(q))
<1> DEFINE n == list.n
           tab == LruOrder
           S == {k \in DOMAIN tab : tab[k].proc # p}
           Kept(k, t) == \E q, u : /\ Passed(list, w, Passes(p)[k], k, q, u)
                                   /\ t = Lined(entries, list, q, Len(q))
           T == [k \in 0 .. n |-> {t \in Seq(Entries) : Kept(k, t)}]
<1>1. /\ Visits(list, w)
      /\ n \in Nat /\ n <= Capacity /\ Capacity \in Nat
      /\ tab = Lined(entries, list, w, n)
      /\ tab \in [1 .. n -> Entries] /\ Len(tab) = n
      /\ \A k \in 1 .. n : /\ w[k] \in Slots
                           /\ entries[list.data[w[k]]] \in Entries
  BY PlacesFacts DEF Places
<1>2. DOMAIN tab = 1 .. n /\ \A k \in 1 .. n : tab[k] = entries[list.data[w[k]]]
  BY <1>1 DEF Lined
<1>3. \A k \in 1 .. n : k \in S <=> entries[list.data[w[k]]].proc # p
  BY <1>2
<1>4. \A k \in 1 .. n : k \in 0 .. n /\ k - 1 \in 0 .. n /\ k \in 1 .. Capacity
  BY <1>1
<1>5. \A k \in 0 .. n : T[k] = {t \in Seq(Entries) : Kept(k, t)}
  OBVIOUS
<1>6. 0 \in 0 .. n
  BY <1>1
<1> HIDE DEF S, T, tab
<1>7. <<>> \in T[0]
  <2>1. Passed(list, w, Passes(p)[0], 0, <<>>, v)
    BY StartFacts, PassesFacts
  <2>2. Lined(entries, list, <<>>, 0) = <<>>
    <3> DEFINE e == <<>>
               f == [j \in 1 .. 0 |-> entries[list.data[e[j]]]]
    <3>1. f = [j \in 1 .. 0 |-> f[j]]
      OBVIOUS
    <3> HIDE DEF f
    <3>2. f = <<>>
      BY <3>1, NoneLeft
    <3> QED BY <3>2 DEF f, Lined
  <2>3. Len(<<>>) = 0 /\ <<>> \in Seq(Entries)
    OBVIOUS
  <2> DEFINE e == <<>>
  <2> HIDE DEF e
  <2>4. /\ Passed(list, w, Passes(p)[0], 0, e, v)
        /\ e = Lined(entries, list, e, Len(e)) /\ e \in Seq(Entries)
    BY <2>1, <2>2, <2>3 DEF e
  <2>5. Kept(0, e)
    BY <2>4
  <2> HIDE DEF Kept
  <2>6. e \in T[0]
    BY <1>5, <1>6, <2>4, <2>5
  <2> QED BY <2>6 DEF e
<1>8. ASSUME NEW k \in 1 .. n, NEW t \in T[k - 1]
      PROVE  (IF k \in S THEN Append(t, tab[k]) ELSE t) \in T[k]
  <2>1. t \in Seq(Entries) /\ Kept(k - 1, t)
    BY <1>4, <1>5
  <2>2. PICK q, u : /\ Passed(list, w, Passes(p)[k - 1], k - 1, q, u)
                    /\ t = Lined(entries, list, q, Len(q))
    BY <2>1
  <2> DEFINE x == Passes(p)[k - 1]
  <2>3. Passes(p)[k] = FlushStep(x, p)
    <3>1. x.at # EndOfList
      BY <1>1, <2>2, StepFacts
    <3>2. Passes(p)[k] = PassAfter(x, p)
      BY <1>4, PassesFacts
    <3> QED BY <3>1, <3>2 DEF PassAfter
  <2>4. CASE k \in S
    <3>1. Passed(list, w, Passes(p)[k], k, Append(q, w[k]), u)
      BY <1>1, <1>3, <2>2, <2>3, <2>4, StepFacts
    <3> DEFINE g == Append(q, w[k])
               c == Len(q)
               a == Append(t, tab[k])
    <3>2. q \in Seq(Slots) /\ w[k] \in Slots
      BY <1>1, <2>2 DEF Passed
    <3>3. /\ c \in Nat /\ Len(g) = c + 1 /\ g[c + 1] = w[k]
          /\ \A j \in 1 .. c : g[j] = q[j]
      BY <3>2, AppendProperties, LenProperties
    <3>4. tab[k] \in Entries
      BY <1>1, <1>2
    <3>5. t = [j \in 1 .. c |-> entries[list.data[q[j]]]]
      BY <2>2 DEF Lined
    <3>6. DOMAIN t = 1 .. c
      BY <3>5
    <3>7. Len(t) = c
      BY <2>1, <3>3, <3>6, LenProperties
    <3>8. /\ a \in Seq(Entries) /\ Len(a) = c + 1 /\ a[c + 1] = tab[k]
          /\ \A j \in 1 .. c : a[j] = t[j]
      BY <2>1, <3>4, <3>7, AppendProperties
    <3> HIDE DEF g, a, c
    <3>9. ASSUME NEW j \in 1 .. c + 1 PROVE a[j] = entries[list.data[g[j]]]
      <4>1. CASE j = c + 1
        BY <1>2, <3>3, <3>8, <4>1
      <4>2. CASE j # c + 1
        <5>1. j \in 1 .. c
          BY <3>3, <4>2
        <5> QED BY <3>3, <3>5, <3>8, <5>1
      <4> QED BY <4>1, <4>2
    <3>10. a = [j \in 1 .. c + 1 |-> a[j]]
      BY <3>8, LenProperties
    <3>11. a = Lined(entries, list, g, Len(g))
      BY <3>3, <3>9, <3>10 DEF Lined
    <3>12. Kept(k, a)
      BY <3>1, <3>11 DEF g
    <3> HIDE DEF Kept
    <3>13. a \in T[k]
      BY <1>4, <1>5, <3>8, <3>12
    <3> QED BY <2>4, <3>13 DEF a
  <2>5. CASE k \notin S
    <3>1. PICK y : Passed(list, w, Passes(p)[k], k, q, y)
      BY <1>1, <1>3, <2>2, <2>3, <2>5, StepFacts
    <3>2. Kept(k, t)
      BY <2>2, <3>1
    <3> HIDE DEF Kept
    <3> QED BY <1>4, <1>5, <2>1, <2>5, <3>2
  <2> QED BY <2>4, <2>5
<1>9. Table!Kept(tab, S) \in T[n]
  BY <1>1, <1>7, <1>8, KeptIn
<1>10. Table!Forgotten(tab, p) = Table!Kept(tab, S)
  BY DEF Table!Forgotten, S
<1>11. PICK q, u : /\ Passed(list, w, Passes(p)[n], n, q, u)
                   /\ Table!Forgotten(tab, p) = Lined(entries, list, q, Len(q))
  <2>1. n \in 0 .. n
    BY <1>1
  <2> QED BY <1>5, <1>9, <1>10, <2>1
<1>12. Passes(p)[Capacity] = Passes(p)[n]
  <2> DEFINE R == {k \in 0 .. Capacity : k >= n => Passes(p)[k] = Passes(p)[n]}
  <2>1. Passes(p)[n].at = EndOfList
    BY <1>11 DEF Passed
  <2>2. 0 \in R
    BY <1>1
  <2>3. ASSUME NEW k \in 1 .. Capacity, k - 1 \in R PROVE k \in R
    <3>1. CASE k <= n
      BY <1>1, <3>1
    <3>2. CASE ~(k <= n)
      <4>1. k - 1 >= n /\ k \in 0 .. Capacity
        BY <1>1, <3>2
      <4>2. Passes(p)[k - 1] = Passes(p)[n]
        BY <2>3, <4>1
      <4>3. Passes(p)[k] = PassAfter(Passes(p)[k - 1], p)
        BY PassesFacts
      <4> QED BY <2>1, <4>1, <4>2, <4>3 DEF PassAfter
    <3> QED BY <3>1, <3>2
  <2> HIDE DEF R
  <2>4. 0 .. Capacity \subseteq R
    BY <1>1, <2>2, <2>3, Inductive
  <2>5. Capacity \in 0 .. Capacity /\ Capacity >= n
    BY <1>1
  <2> QED BY <2>4, <2>5 DEF R
<1> QED BY <1>11, <1>12 DEF tab

\* flush keeps the invariant and makes the abstract table forget the processor.
LEMMA FlushFacts ==
    ASSUME PredictorInv, NEW p \in Processors, Flush(p)
    PROVE  PredictorInv' /\ LruOrder' = Table!Forgotten(LruOrder, p)
<1>1. PICK w, v : Places(w, v)
  BY DEF PredictorInv
<1>2. PICK q, u : /\ Passed(list, w, Passes(p)[Capacity], list.n, q, u)
                  /\ Table!Forgotten(LruOrder, p) = Lined(entries, list, q, Len(q))
  BY <1>1, LastPass
<1>3. PICK x : x = Passes(p)[Capacity]
  OBVIOUS
<1>4. /\ list' = Settled(x.list) /\ supplier' = Settled(x.supplier)
      /\ hash' = [c \in Cells |-> EndOfList]
      /\ UNCHANGED <<history, entries>>
  BY <1>3, Zenon DEF Flush, Passes
<1> DEFINE n == list.n
           c == Len(q)
<1>5. /\ n \in Nat /\ w \in [1 .. n -> Slots] /\ Visits(list, w)
      /\ entries \in [Pointers -> Entries]
      /\ \A j, k \in 1 .. n : w[j] = w[k] => j = k
  BY <1>1, PlacesFacts, VisitsType DEF Places
<1>6. q \in Seq(Slots) /\ c \in Nat /\ q \in [1 .. c -> Slots]
  BY <1>2, LenProperties DEF Passed
<1>7. /\ Mixed(q, c, w, n, n) = q /\ c + (n - n) = c
  BY <1>5, <1>6, MixedIs, SMTT(30)
<1>8. /\ Visits(x.list, q) /\ x.list.n = c
      /\ Visits(x.supplier, u)
      /\ Pool(x.list, q, x.supplier, u)
      /\ \A j \in 1 .. c : \E i \in 1 .. n : q[j] = w[i]
      /\ \A j \in 1 .. c : x.list.data[q[j]] = list.data[q[j]]
  BY <1>2, <1>3, <1>7 DEF Passed
<1> HIDE DEF n, c
<1>9. /\ Visits(list', q) /\ list' \in ListType(Pointers)
      /\ list'.n = c /\ list'.data = x.list.data
  BY <1>4, <1>8, SettledFacts
<1>10. /\ Visits(supplier', u) /\ supplier' \in ListType(Pointers)
       /\ supplier'.n = x.supplier.n /\ supplier'.data = x.supplier.data
  BY <1>4, <1>8, SettledFacts
<1>11. Pool(list', q, supplier', u)
  BY <1>8, <1>9, <1>10 DEF Pool
<1>12. \A j \in 1 .. c : entries'[list'.data[q[j]]] = entries[list.data[q[j]]]
  BY <1>4, <1>8, <1>9
<1>13. OneEach(list', q, entries')
  <2> SUFFICES ASSUME NEW j \in 1 .. c, NEW k \in 1 .. c,
                      entries[list.data[q[j]]].proc = entries[list.data[q[k]]].proc,
                      entries[list.data[q[j]]].addr = entries[list.data[q[k]]].addr
               PROVE  j = k
    BY <1>9, <1>12 DEF OneEach
  <2>1. PICK i \in 1 .. n : q[j] = w[i]
    BY <1>8
  <2>2. PICK h \in 1 .. n : q[k] = w[h]
    BY <1>8
  <2>3. i = h
    BY <1>1, <2>1, <2>2 DEF Places, OneEach, n
  <2>4. q[j] = q[k]
    BY <2>1, <2>2, <2>3
  <2> QED BY <1>8, <2>4, VisitsType, SMTT(30)
<1>14. Hashed(hash', list', q) /\ Unhashed(hash', list')
  BY <1>4 DEF Hashed, Unhashed
<1>15. /\ history' \in BOOLEAN /\ entries' \in [Pointers -> Entries]
       /\ hash' \in [Cells -> Links] /\ Uncounted'
  BY <1>4, <1>5 DEF PredictorInv, PredictorTypeOK, Uncounted, Links
<1>16. PredictorInv'
  BY <1>9, <1>10, <1>11, <1>13, <1>14, <1>15, InvFrom
<1>17. LruOrder' = Lined(entries', list', q, c)
  BY <1>9, OrderIs
<1>18. Lined(entries', list', q, c) = Lined(entries, list, q, c)
  BY <1>12 DEF Lined
<1> QED BY <1>2, <1>16, <1>17, <1>18 DEF c

-----------------------------------------------------------------------------
\* The invariant holds.

\* A list that can be looped over has the fields it is declared with.
LEMMA TypeOfList ==
    ASSUME NEW l, NEW w, Visits(l, w)
    PROVE  l \in ListType(Pointers)
<1>1. l \in RawList /\ l.n \in 0 .. Capacity
  BY DEF Visits, Linked
<1>2. l.empty \in UNION {[1 .. k -> Slots] : k \in 0 .. Capacity}
  <2>1. Capacity - l.n \in 0 .. Capacity
    BY <1>1, CapacityAssumption
  <2>2. l.empty \in [1 .. Capacity - l.n -> Slots]
    BY DEF Visits, Chained
  <2> QED BY <2>1, <2>2
<1> QED BY <1>1, <1>2 DEF RawList, ListType

\* The list l holds the pointers 1, ..., k in this order.
Supplies(k) ==
    {l \in RawList : \E v : /\ Visits(l, v) /\ l.n = k
                            /\ \A j \in 1 .. k : l.data[v[j]] = j}

\* One more pointer is added to the supply.
LEMMA SupplyFacts ==
    ASSUME NEW k \in 1 .. Capacity, NEW l \in Supplies(k - 1)
    PROVE  AddEnd(l, k) \in Supplies(k)
<1>1. PICK v : /\ Visits(l, v) /\ l.n = k - 1
               /\ \A j \in 1 .. k - 1 : l.data[v[j]] = j
  BY DEF Supplies
<1> DEFINE u == AddEnd(l, k)
           i == AddedSlot(l)
<1>2. l.n < Capacity /\ k \in Pointers /\ Capacity \in Nat
  BY <1>1, CapacityAssumption DEF Pointers
<1>3. /\ Visits(u, After(v, l.n, i)) /\ u.n = l.n + 1
      /\ u.data = [l.data EXCEPT ![i] = k]
  BY <1>1, <1>2, AddEndFacts
<1>4. i \in Slots /\ \A j \in 1 .. l.n : v[j] # i
  BY <1>1, <1>2, AddedFree
<1>5. /\ l.data \in [Slots -> Pointers \cup {NoData}]
      /\ \A j \in 1 .. l.n : v[j] \in Slots
  BY <1>1, VisitsType
<1>6. PICK y : y = After(v, l.n, i)
  OBVIOUS
<1> HIDE DEF u, i
<1>7. ASSUME NEW j \in 1 .. k PROVE u.data[y[j]] = j
  <2>1. CASE j = k
    <3>1. y[j] = i
      BY <1>1, <1>6, <2>1 DEF After
    <3> QED BY <1>3, <1>4, <1>5, <2>1, <3>1
  <2>2. CASE j # k
    <3>1. j \in 1 .. k - 1 /\ y[j] = v[j]
      BY <1>1, <1>6, <2>2 DEF After
    <3> QED BY <1>1, <1>3, <1>4, <1>5, <3>1
  <2> QED BY <2>1, <2>2
<1>8. u.n = k /\ Visits(u, y) /\ u \in RawList
  BY <1>1, <1>3, <1>6 DEF Visits
<1> QED BY <1>7, <1>8 DEF Supplies, u

\* The constructor fills the supply with all pointers.
LEMMA FilledSupply == PredictorInit => supplier \in Supplies(Capacity)
<1> DEFINE N == 0 .. Capacity
           T == [k \in N |-> Supplies(k)]
           F == [z \in N \X RawList |-> AddEnd(z[2], z[1])]
           fill[d \in 0 .. Capacity] ==
               IF d = 0 THEN EmptyList ELSE AddEnd(fill[d - 1], d)
<1>1. Capacity \in Nat
  BY CapacityAssumption
<1>2. \A k \in N : T[k] = Supplies(k) /\ \A x \in T[k] : x \in RawList
  BY DEF Supplies
<1>3. \A k \in N, x \in RawList : F[<<k, x>>] = AddEnd(x, k)
  OBVIOUS
<1>4. 0 \in N /\ \A k \in 1 .. Capacity : k \in N /\ k - 1 \in N
  BY <1>1
<1> HIDE DEF N, T, F, fill
<1>5. EmptyList \in T[0]
  <2>1. Visits(EmptyList, <<>>) /\ EmptyList \in RawList
    BY EmptyVisits DEF Visits
  <2>2. EmptyList.n = 0
    BY DEF EmptyList
  <2>3. EmptyList \in Supplies(0)
    BY <2>1, <2>2 DEF Supplies
  <2> QED BY <1>2, <1>4, <2>3
<1>6. ASSUME NEW k \in 1 .. Capacity, NEW x \in T[k - 1]
      PROVE  F[<<k, x>>] = AddEnd(x, k) /\ AddEnd(x, k) \in T[k]
  <2>1. k \in N /\ x \in RawList /\ x \in Supplies(k - 1)
    BY <1>2, <1>4
  <2>2. AddEnd(x, k) \in Supplies(k)
    BY <2>1, SupplyFacts
  <2> QED BY <1>2, <1>3, <2>1, <2>2
<1>7. PICK g : Iterates(Capacity, T, EmptyList, F, g)
  <2>1. Steppable(Capacity, T, EmptyList, F)
    BY <1>1, <1>5, <1>6 DEF Steppable
  <2> QED BY <2>1, Iteration
<1>8. ASSUME NEW d \in 0 .. Capacity
      PROVE  g[d] = IF d = 0 THEN EmptyList ELSE AddEnd(g[d - 1], d)
  <2>1. CASE d = 0
    BY <1>7, <2>1 DEF Iterates
  <2>2. CASE d # 0
    <3>1. d \in 1 .. Capacity /\ d - 1 \in 0 .. Capacity
      BY <1>1, <2>2
    <3>2. g[d - 1] \in T[d - 1] /\ g[d] = F[<<d, g[d - 1]>>]
      BY <1>7, <3>1 DEF Iterates
    <3> QED BY <1>6, <2>2, <3>1, <3>2
  <2> QED BY <2>1, <2>2
<1>9. g = [d \in 0 .. Capacity |->
             IF d = 0 THEN EmptyList ELSE AddEnd(g[d - 1], d)]
  <2>1. g = [d \in 0 .. Capacity |-> g[d]]
    BY <1>7 DEF Iterates
  <2>2. [d \in 0 .. Capacity |-> g[d]] =
          [d \in 0 .. Capacity |-> IF d = 0 THEN EmptyList ELSE AddEnd(g[d - 1], d)]
    BY <1>8
  <2> QED BY <2>1, <2>2, Zenon
<1>10. fill = [d \in 0 .. Capacity |->
                 IF d = 0 THEN EmptyList ELSE AddEnd(fill[d - 1], d)]
  BY <1>9, Zenon DEF fill
<1>11. /\ fill[0] = EmptyList
       /\ \A d \in 1 .. Capacity : fill[d] = AddEnd(fill[d - 1], d)
  <2>1. 0 \in 0 .. Capacity /\ \A d \in 1 .. Capacity : d \in 0 .. Capacity /\ d # 0
    BY <1>1
  <2> DEFINE h(d) == IF d = 0 THEN EmptyList ELSE AddEnd(fill[d - 1], d)
  <2>2. \A d \in 0 .. Capacity : fill[d] = h(d)
    BY <1>10
  <2> QED BY <2>1, <2>2
<1>12. 0 .. Capacity \subseteq {d \in 0 .. Capacity : fill[d] \in T[d]}
  <2> DEFINE R == {d \in 0 .. Capacity : fill[d] \in T[d]}
  <2>1. 0 \in R
    BY <1>1, <1>5, <1>11
  <2>2. ASSUME NEW d \in 1 .. Capacity, d - 1 \in R PROVE d \in R
    <3>1. d \in 0 .. Capacity /\ fill[d - 1] \in T[d - 1]
      BY <1>1, <2>2
    <3>2. fill[d] \in T[d]
      BY <1>6, <1>11, <3>1
    <3> QED BY <3>1, <3>2
  <2> HIDE DEF R
  <2> QED BY <1>1, <2>1, <2>2, Inductive DEF R
<1>13. fill[Capacity] \in Supplies(Capacity)
  <2>1. Capacity \in 0 .. Capacity /\ Capacity \in N
    BY <1>1 DEF N
  <2> QED BY <1>2, <1>12, <2>1
<1>14. PredictorInit => supplier = fill[Capacity]
  BY DEF PredictorInit, fill
<1> QED BY <1>13, <1>14

\* It holds at the start, when the abstract table is empty.
LEMMA InitPredictorInv == PredictorInit => PredictorInv /\ Table!TableInit
<1> SUFFICES ASSUME PredictorInit PROVE PredictorInv /\ Table!TableInit
  OBVIOUS
<1>1. /\ history \in BOOLEAN /\ entries = [d \in Pointers |-> NoEntry]
      /\ list = EmptyList /\ hash = [c \in Cells |-> EndOfList]
  BY DEF PredictorInit
<1>2. Visits(list, <<>>) /\ list.n = 0 /\ list \in ListType(Pointers)
  BY <1>1, EmptyVisits DEF EmptyList
<1>3. PICK v : /\ Visits(supplier, v) /\ supplier.n = Capacity
               /\ \A j \in 1 .. Capacity : supplier.data[v[j]] = j
  BY FilledSupply DEF Supplies
<1>4. supplier \in ListType(Pointers)
  BY <1>3, TypeOfList
<1>5. NoEntry \in Entries /\ NoEntry.count = 0
  BY DEF NoEntry, Entries, Counts
<1> HIDE DEF NoEntry
<1>6. PredictorTypeOK
  BY <1>1, <1>2, <1>4, <1>5 DEF PredictorTypeOK, Entries, Links
<1>7. Uncounted
  BY <1>1, <1>5 DEF Uncounted
<1>8. Unhashed(hash, list)
  BY <1>1 DEF Unhashed
<1>9. PICK w : w = <<>>
  OBVIOUS
<1>10. Capacity \in Nat /\ 0 + Capacity = Capacity /\ 1 .. 0 = {}
  BY CapacityAssumption
<1>11. Pool(list, w, supplier, v)
  BY <1>2, <1>3, <1>10 DEF Pool
<1>12. OneEach(list, w, entries)
  BY <1>2, <1>10 DEF OneEach
<1>13. Hashed(hash, list, w)
  BY <1>1 DEF Hashed
<1>14. Places(w, v)
  BY <1>2, <1>3, <1>9, <1>11, <1>12, <1>13 DEF Places
<1>15. PredictorInv
  BY <1>6, <1>7, <1>8, <1>14 DEF PredictorInv
<1>16. LruOrder = <<>>
  <2>1. LruOrder = Lined(entries, list, w, 0)
    BY <1>2, <1>9, OrderIs
  <2> DEFINE f == [j \in 1 .. 0 |-> entries[list.data[w[j]]]]
  <2>2. f = [j \in 1 .. 0 |-> f[j]]
    OBVIOUS
  <2> HIDE DEF f
  <2>3. f = <<>>
    BY <2>2, NoneLeft
  <2> QED BY <2>1, <2>3 DEF f, Lined
<1> QED BY <1>1, <1>15, <1>16 DEF Table!TableInit

\* Every step keeps it, and is one of the abstract table.
LEMMA NextPredictorInv ==
    PredictorInv /\ [PredictorNext]_predictorVars
    => PredictorInv' /\ [Table!TableNext]_<<history, LruOrder>>
<1> SUFFICES ASSUME PredictorInv, [PredictorNext]_predictorVars
             PROVE  PredictorInv' /\ [Table!TableNext]_<<history, LruOrder>>
  OBVIOUS
<1>1. ASSUME NEW p \in Processors, Flush(p)
      PROVE  PredictorInv' /\ Table!TableNext
  <2>1. PredictorInv' /\ LruOrder' = Table!Forgotten(LruOrder, p)
    BY <1>1, FlushFacts
  <2>2. Table!Follows(LruOrder, LruOrder')
    BY <2>1 DEF Table!Follows
  <2>3. UNCHANGED history
    BY <1>1 DEF Flush
  <2> QED BY <2>1, <2>2, <2>3 DEF Table!TableNext
<1>2. ASSUME NEW p \in Processors, NEW a \in Addrs, NEW t \in Targets,
             NEW taken \in BOOLEAN, AddEntry(p, a, t, taken)
      PROVE  PredictorInv' /\ Table!TableNext
  <2>1. PredictorInv' /\ LruOrder' = Table!Updated(LruOrder, p, a, t, taken)
    BY <1>2, AddEntryFacts
  <2>2. Table!Follows(LruOrder, LruOrder')
    BY <2>1 DEF Table!Follows
  <2>3. UNCHANGED history
    BY <1>2 DEF AddEntry
  <2> QED BY <2>1, <2>2, <2>3 DEF Table!TableNext
<1>3. CASE UNCHANGED predictorVars
  <2>1. /\ history' = history /\ entries' = entries /\ list' = list
        /\ supplier' = supplier /\ hash' = hash
    BY <1>3 DEF predictorVars
  <2>2. LruOrder' = LruOrder
    BY <2>1 DEF LruOrder
  <2>3. PICK w, v : Places(w, v)
    BY DEF PredictorInv
  <2>4. Places(w, v)'
    BY <2>1, <2>3 DEF Places
  <2>5. PredictorTypeOK' /\ Uncounted' /\ Unhashed(hash, list)'
    BY <2>1 DEF PredictorInv, PredictorTypeOK, Uncounted
  <2>6. PredictorInv'
    BY <2>4, <2>5 DEF PredictorInv
  <2> QED BY <2>1, <2>2, <2>6
<1> QED BY <1>1, <1>2, <1>3 DEF PredictorNext

\* The inductive invariant holds in every behaviour.
LEMMA PredictorInvHolds == PredictorSpec => []PredictorInv
<1>1. PredictorInit => PredictorInv
  BY InitPredictorInv
<1>2. PredictorInv /\ [PredictorNext]_predictorVars => PredictorInv'
  BY NextPredictorInv
<1> QED BY <1>1, <1>2, PTL DEF PredictorSpec

\* Entries, lists and hash hold what their declarations allow, for every
\* capacity of the tables and size of the hash: no counter leaves its bits and
\* no list loses a slot.
THEOREM PredictorTypeCorrect == PredictorSpec => []PredictorTypeOK
<1>1. PredictorInv => PredictorTypeOK
  BY DEF PredictorInv
<1> QED BY <1>1, PredictorInvHolds, PTL

\* A cell of the hash that is set always points to an element of the table
\* (branch_pred.cpp:190).
THEOREM HashCorrect == PredictorSpec => []HashPointsToElements
BY HashFacts, PredictorInvHolds, PTL

\* A check finds the entry of the branch if the table has one, and no other
\* (branch_pred.cpp:181).
THEOREM CheckCorrect == PredictorSpec => []CheckIsLookup
BY CheckFacts, PredictorInvHolds, PTL

\* The lists, the array and the hash implement one table that forgets the entry
\* that was not updated for the longest time (branch_pred.cpp:104).
THEOREM PredictorImplementsLru == PredictorSpec => ImplementsLru
<1>1. PredictorInit => Table!TableInit
  BY InitPredictorInv
<1>2. PredictorInv /\ [PredictorNext]_predictorVars
      => [Table!TableNext]_<<history, LruOrder>>
  BY NextPredictorInv
<1> QED BY <1>1, <1>2, PredictorInvHolds, PTL
    DEF PredictorSpec, ImplementsLru, Table!TableSpec

-----------------------------------------------------------------------------
\* Both tables of the front end, as one run of TLC checks them.

\* Neither of them sees that the other one is there.
LEMMA TablesFacts == TablesSpec => PredictorSpec /\ CacheSpec
<1>1. TablesInit => PredictorInit /\ CacheInit
  BY DEF TablesInit
<1>2. [TablesNext]_<<unit, predictorVars, cacheVars>>
      => [PredictorNext]_predictorVars /\ [CacheNext]_cacheVars
  BY DEF TablesNext
<1> QED BY <1>1, <1>2, PTL DEF TablesSpec, PredictorSpec, CacheSpec

\* The predictor and the caches keep to their types.
THEOREM TablesTypeCorrect == TablesSpec => []TablesTypeOK
<1>1. PredictorTypeOK /\ CacheTypeOK => TablesTypeOK
  BY DEF TablesTypeOK
<1> QED BY <1>1, TablesFacts, PredictorTypeCorrect, TypeCorrect, PTL

=============================================================================
