----------------------- MODULE Pipeline_flight_proofs -----------------------
(***************************************************************************)
(* Theorems about the uops of Pipeline that are in flight, for every       *)
(* number of slots, registers, units and templates: their order, their     *)
(* queues and units, what they wait for, and the path they are on.         *)
(***************************************************************************)
EXTENDS Pipeline_proofs

\* No instruction reads the registers of another one while a branch may flush
\* at its write-back.
NoStaleLinks == DetectOnWb => NumRegs = 0

\* s is in q before t.
Precedes(q, s, t) ==
    \E i, j \in 1 .. Len(q) : i < j /\ q[i] = s /\ q[j] = t

\* No element is twice in q.
Once(q) == \A i, j \in 1 .. Len(q) : q[i] = q[j] => i = j

\* s is older than t.
Before(s, t) == Precedes(ProgramOrder, s, t)

Unfinished == {"WAIT_DEP", "DEP_READY", "EXECUTING"}

\* What has been decoded: the reorder buffer, and what waits to be dispatched.
Decoded ==
    RangeOf(rob) \cup (IF dec.state = "dispatch" THEN Held ELSE {})

LinksTo(s) == {l \in links : l.dst = s}

-----------------------------------------------------------------------------
\* What a free slot holds, and how far each place lets a uop be.
StatusInv ==
    /\ \A s \in RangeOf(supply) : uop[s] = FreeUop
    /\ \A s \in RangeOf(rob) : uop[s].status \in Unfinished \cup {"READY"}
    /\ dec.state = "dispatch" =>
         \A s \in Held : uop[s].status \in {"DECODING", "DEP_READY"}
    /\ dec.state = "allocate" =>
         \A s \in Held : uop[s] = [FreeUop EXCEPT !.status = "DECODING"]

\* The queues hold the unfinished uops of their types in the list; a uop without
\* a unit is finished when it is dispatched.
QueueInv ==
    /\ rsq = {s \in RangeOf(rob) : /\ uop[s].type \in {"ALU", "BRANCH"}
                                   /\ uop[s].status \in Unfinished}
    /\ lsq = {s \in RangeOf(rob) : /\ uop[s].type \in {"LOAD", "STORE"}
                                   /\ uop[s].status \in Unfinished}
    /\ \A s \in RangeOf(rob) : uop[s].type = "NONE" => uop[s].status = "READY"

\* A unit and the uop that executes in it belong to each other.
UnitInv ==
    /\ \A u \in 1 .. Units : fu[u] # NoSlot =>
         fu[u] \in RangeOf(rob) /\ uop[fu[u]].status = "EXECUTING"
    /\ \A s \in Slots : uop[s].status = "EXECUTING" => \E u \in 1 .. Units : fu[u] = s
    /\ \A u, v \in 1 .. Units : fu[u] = fu[v] /\ fu[u] # NoSlot => u = v

\* A link leads from an unfinished uop to a younger one that waits, and what a uop
\* still misses are its links.
LinkInv ==
    /\ \A l \in links :
         /\ {l.src, l.dst} \subseteq Decoded
         /\ Before(l.src, l.dst)
         /\ uop[l.src].type # "NONE" /\ uop[l.dst].type # "NONE"
         /\ uop[l.src].status # "READY"
         /\ uop[l.dst].status \in {"DECODING", "WAIT_DEP"}
    /\ \A s \in Decoded :
         /\ uop[s].depN = uop[s].resolved + Cardinality(LinksTo(s))
         /\ uop[s].status = "WAIT_DEP" => LinksTo(s) # {}
         /\ \A l \in uop[s].ins : l.dst = s

\* Without registers no dependence crosses a branch.
CrossInv ==
    NumRegs = 0 =>
      \A l \in links, t \in Decoded : uop[t].type = "BRANCH" =>
        Before(t, l.src) \/ Before(l.dst, t)

\* dep_vector names unfinished uops only.
RegInv ==
    \A r \in Regs : regs[r] # NoSlot =>
      /\ regs[r] \in Decoded
      /\ uop[regs[r]].status # "READY" /\ uop[regs[r]].type # "NONE"

\* What the program makes a uop wait for has a link to it.
NeedInv ==
    /\ ~mis => writer = regs
    /\ \A s \in Decoded : uop[s].needs \subseteq {l.src : l \in LinksTo(s)}

\* A store is allowed to execute, and executes, at the head only.
StoreInv ==
    /\ writeReady => /\ rob # <<>>
                     /\ uop[Head(rob)].type = "STORE"
                     /\ uop[Head(rob)].status = "DEP_READY"
    /\ \A s \in RangeOf(rob) :
         uop[s].type = "STORE" /\ uop[s].status = "EXECUTING" => s = Head(rob)

-----------------------------------------------------------------------------
\* s was executed and discards what follows it when it commits or is written back.
Diverts(s) == Executed(s) /\ Flushing(s)

\* Execution is disabled exactly while one executed uop is going to flush, and what
\* was decoded without being executed is younger than it.
PathInv ==
    /\ mis <=> \E s \in Decoded : Diverts(s)
    /\ \A s, t \in Decoded : Diverts(s) /\ Diverts(t) => s = t
    /\ \A s \in Decoded : uop[s].pstate = "INVALID" =>
         \E t \in Decoded : Diverts(t) /\ Before(t, s)
    /\ \A s, t \in Decoded : Diverts(t) /\ uop[t].event # "exception" /\ Before(t, s)
         => uop[s].pstate = "INVALID"
    /\ \A s \in Decoded :
         /\ uop[s].pstate # "UNSET"
         /\ uop[s].pstate = "CAN_FLUSH" => uop[s].type = "BRANCH" /\ uop[s].event = "none"
    /\ dec.state = "dispatch" =>
         \A s \in Held : uop[s].pstate = "CAN_FLUSH" => ~uop[s].foresight

\* What is to be dispatched has the types of its template.
TypesInv ==
    dec.state = "dispatch" =>
      \A j \in dec.sent + 1 .. Len(dec.buf) : uop[dec.buf[j]].type = dec.tmpl.types[j]

\* The uop remembered by the write-back is a branch that was predicted wrongly.
FlusherInv ==
    wbFlusher # NoSlot =>
      /\ wbFlusher \in Decoded
      /\ uop[wbFlusher].pstate = "CAN_FLUSH"
      /\ ~uop[wbFlusher].foresight

\* The executed branches that num_of_branches has to count: dispatched, or in
\* the decoder after a failed attempt.
Counted ==
    {s \in Decoded : /\ uop[s].type = "BRANCH" /\ Executed(s)
                     /\ uop[s].status # "READY"
                     /\ \/ s \in RangeOf(rob)
                        \/ phase # "decode"
                        \/ s = wbFlusher
                        \/ uop[s].status # "DECODING"}

\* num_of_branches covers those branches.
CountInv == numBranches >= Cardinality(Counted)

\* The inductive invariant, together with TypeInv and ConsInv.
FlightInv ==
    /\ StatusInv /\ QueueInv /\ UnitInv /\ LinkInv /\ CrossInv /\ RegInv
    /\ NeedInv /\ StoreInv /\ PathInv /\ TypesInv /\ FlusherInv /\ CountInv

-----------------------------------------------------------------------------
\* Lemmas about the order of a sequence.

\* A sequence without repetition orders its elements.
LEMMA OrderFacts ==
    ASSUME NEW S, NEW q \in Seq(S), Once(q)
    PROVE  /\ \A s, t : Precedes(q, s, t) => s \in RangeOf(q) /\ t \in RangeOf(q)
           /\ \A s, t : Precedes(q, s, t) => ~Precedes(q, t, s)
           /\ \A s, t, u : Precedes(q, s, t) /\ Precedes(q, t, u) => Precedes(q, s, u)
           /\ \A s, t \in RangeOf(q) : s # t => Precedes(q, s, t) \/ Precedes(q, t, s)
<1>1. RangeOf(q) = {q[i] : i \in 1 .. Len(q)} /\ Len(q) \in Nat
  BY RangeOfSequence, LenProperties
<1>2. \A s, t : Precedes(q, s, t) => s \in RangeOf(q) /\ t \in RangeOf(q)
  BY <1>1 DEF Precedes
<1>3. \A s, t : Precedes(q, s, t) => ~Precedes(q, t, s)
  BY <1>1 DEF Precedes, Once
<1>4. ASSUME NEW s, NEW t, NEW u, Precedes(q, s, t), Precedes(q, t, u)
      PROVE  Precedes(q, s, u)
  <2>1. PICK i \in 1 .. Len(q), j \in 1 .. Len(q) : i < j /\ q[i] = s /\ q[j] = t
    BY <1>4 DEF Precedes
  <2>2. PICK k \in 1 .. Len(q), l \in 1 .. Len(q) : k < l /\ q[k] = t /\ q[l] = u
    BY <1>4 DEF Precedes
  <2>3. j = k
    BY <2>1, <2>2 DEF Once
  <2>4. i < l
    BY <1>1, <2>1, <2>2, <2>3
  <2> QED BY <2>1, <2>2, <2>4 DEF Precedes
<1>5. ASSUME NEW s \in RangeOf(q), NEW t \in RangeOf(q), s # t
      PROVE  Precedes(q, s, t) \/ Precedes(q, t, s)
  <2>1. PICK i \in 1 .. Len(q), j \in 1 .. Len(q) : q[i] = s /\ q[j] = t
    BY <1>1
  <2>2. i < j \/ j < i
    BY <1>1, <1>5, <2>1
  <2> QED BY <2>1, <2>2 DEF Precedes
<1> QED BY <1>2, <1>3, <1>4, <1>5

\* The head precedes all others, and the tail keeps their order.
LEMMA OrderOfTail ==
    ASSUME NEW S, NEW q \in Seq(S), q # <<>>, Once(q)
    PROVE  /\ \A s \in RangeOf(q) : s # Head(q) => Precedes(q, Head(q), s)
           /\ \A s, t : Precedes(Tail(q), s, t) <=> Precedes(q, s, t) /\ s # Head(q)
           /\ RangeOf(Tail(q)) = RangeOf(q) \ {Head(q)}
<1> DEFINE p == Tail(q)
           n == Len(q)
<1>1. /\ n \in Nat /\ n > 0 /\ Len(p) = n - 1 /\ Head(q) = q[1]
      /\ \A i \in 1 .. n - 1 : p[i] = q[i + 1]
      /\ p \in Seq(S)
  BY HeadTailProperties, LenProperties, EmptySeq
<1>2. RangeOf(q) = {q[i] : i \in 1 .. n} /\ RangeOf(p) = {p[i] : i \in 1 .. n - 1}
  BY <1>1, RangeOfSequence
<1> HIDE DEF p
<1>3. ASSUME NEW s \in RangeOf(q), s # Head(q)
      PROVE  Precedes(q, Head(q), s)
  <2>1. PICK i \in 1 .. n : q[i] = s
    BY <1>2
  <2>2. 1 \in 1 .. n /\ 1 < i
    BY <1>1, <1>3, <2>1
  <2> QED BY <1>1, <2>1, <2>2 DEF Precedes
<1>4. ASSUME NEW s, NEW t, Precedes(p, s, t)
      PROVE  Precedes(q, s, t) /\ s # Head(q)
  <2>1. PICK i \in 1 .. n - 1, j \in 1 .. n - 1 : i < j /\ p[i] = s /\ p[j] = t
    BY <1>1, <1>4 DEF Precedes
  <2>2. /\ i + 1 \in 1 .. n /\ j + 1 \in 1 .. n /\ i + 1 < j + 1
        /\ q[i + 1] = s /\ q[j + 1] = t /\ 1 \in 1 .. n /\ i + 1 # 1
    BY <1>1, <2>1
  <2> QED BY <1>1, <2>2 DEF Precedes, Once
<1>5. ASSUME NEW s, NEW t, Precedes(q, s, t), s # Head(q)
      PROVE  Precedes(p, s, t)
  <2>1. PICK i \in 1 .. n, j \in 1 .. n : i < j /\ q[i] = s /\ q[j] = t
    BY <1>5 DEF Precedes
  <2>2. i # 1
    BY <1>1, <1>5, <2>1
  <2>3. /\ i - 1 \in 1 .. n - 1 /\ j - 1 \in 1 .. n - 1 /\ i - 1 < j - 1
        /\ (i - 1) + 1 = i /\ (j - 1) + 1 = j
    BY <1>1, <2>1, <2>2
  <2>4. p[i - 1] = s /\ p[j - 1] = t
    BY <1>1, <2>1, <2>3
  <2> QED BY <1>1, <2>3, <2>4 DEF Precedes
<1>6. RangeOf(p) \subseteq RangeOf(q) \ {Head(q)}
  <2> SUFFICES ASSUME NEW i \in 1 .. n - 1 PROVE p[i] \in RangeOf(q) \ {Head(q)}
    BY <1>2
  <2>1. i + 1 \in 1 .. n /\ p[i] = q[i + 1] /\ 1 \in 1 .. n /\ i + 1 # 1
    BY <1>1
  <2> QED BY <1>1, <1>2, <2>1 DEF Once
<1>7. RangeOf(q) \ {Head(q)} \subseteq RangeOf(p)
  BY RangeHeadTail DEF p
<1> QED BY <1>3, <1>4, <1>5, <1>6, <1>7 DEF p

\* A new element comes after all others.
LEMMA OrderOfAppend ==
    ASSUME NEW S, NEW q \in Seq(S), NEW e \in S, e \notin RangeOf(q)
    PROVE  \A s, t : Precedes(Append(q, e), s, t) <=>
                       Precedes(q, s, t) \/ (s \in RangeOf(q) /\ t = e)
<1> DEFINE p == Append(q, e)
           n == Len(q)
<1>1. /\ n \in Nat /\ Len(p) = n + 1 /\ p[n + 1] = e
      /\ \A i \in 1 .. n : p[i] = q[i]
  BY AppendProperties, LenProperties
<1>2. RangeOf(q) = {q[i] : i \in 1 .. n}
  BY RangeOfSequence
<1> HIDE DEF p
<1>3. \A i \in 1 .. n : i \in 1 .. n + 1 /\ i < n + 1
  BY <1>1
<1>4. n + 1 \in 1 .. n + 1 /\ \A i \in 1 .. n + 1 : i # n + 1 => i \in 1 .. n
  BY <1>1
<1>5. ASSUME NEW s, NEW t, Precedes(p, s, t)
      PROVE  Precedes(q, s, t) \/ (s \in RangeOf(q) /\ t = e)
  <2>1. PICK i \in 1 .. n + 1, j \in 1 .. n + 1 : i < j /\ p[i] = s /\ p[j] = t
    BY <1>1, <1>5 DEF Precedes
  <2>2. i \in 1 .. n /\ q[i] = s
    BY <1>1, <2>1
  <2>3. CASE j = n + 1
    BY <1>1, <1>2, <2>1, <2>2, <2>3
  <2>4. CASE j # n + 1
    <3>1. j \in 1 .. n /\ q[j] = t
      BY <1>1, <1>4, <2>1, <2>4
    <3> QED BY <2>1, <2>2, <3>1 DEF Precedes
  <2> QED BY <2>3, <2>4
<1>6. ASSUME NEW s, NEW t, Precedes(q, s, t)
      PROVE  Precedes(p, s, t)
  <2>1. PICK i \in 1 .. n, j \in 1 .. n : i < j /\ q[i] = s /\ q[j] = t
    BY <1>6 DEF Precedes
  <2> QED BY <1>1, <1>3, <2>1 DEF Precedes
<1>7. ASSUME NEW s \in RangeOf(q)
      PROVE  Precedes(p, s, e)
  <2>1. PICK i \in 1 .. n : q[i] = s
    BY <1>2
  <2> QED BY <1>1, <1>3, <1>4, <2>1 DEF Precedes
<1> QED BY <1>5, <1>6, <1>7 DEF p

\* The first k elements are those that the k-th does not precede.
LEMMA OrderOfFront ==
    ASSUME NEW S, NEW q \in Seq(S), Once(q), NEW k \in 1 .. Len(q)
    PROVE  LET p == SubSeq(q, 1, k) IN
           /\ RangeOf(p) = {s \in RangeOf(q) : ~Precedes(q, q[k], s)}
           /\ \A s, t : Precedes(p, s, t) <=>
                          Precedes(q, s, t) /\ ~Precedes(q, q[k], t)
<1> DEFINE p == SubSeq(q, 1, k)
           n == Len(q)
<1>1. /\ n \in Nat /\ k \in Nat /\ Len(p) = k /\ p \in Seq(S)
      /\ \A i \in 1 .. k : p[i] = q[i]
  <2>1. n \in Nat /\ \A i \in 1 .. n : q[i] \in S
    BY LenProperties, ElementOfSeq
  <2> QED BY <2>1, SubSeqProperties
<1>2. /\ RangeOf(q) = {q[i] : i \in 1 .. n}
      /\ RangeOf(p) = {p[i] : i \in 1 .. k}
  BY <1>1, RangeOfSequence
<1> HIDE DEF p
<1>3. \A j \in 1 .. n : Precedes(q, q[k], q[j]) <=> k < j
  <2> SUFFICES ASSUME NEW j \in 1 .. n PROVE Precedes(q, q[k], q[j]) <=> k < j
    OBVIOUS
  <2>1. Precedes(q, q[k], q[j]) => k < j
    BY DEF Precedes, Once
  <2>2. k < j => Precedes(q, q[k], q[j])
    BY DEF Precedes
  <2> QED BY <2>1, <2>2
<1>4. \A j \in 1 .. n : j \in 1 .. k <=> ~Precedes(q, q[k], q[j])
  BY <1>1, <1>3
<1>5. RangeOf(p) = {s \in RangeOf(q) : ~Precedes(q, q[k], s)}
  <2>1. \A j \in 1 .. k : j \in 1 .. n
    BY <1>1
  <2> QED BY <1>1, <1>2, <1>4, <2>1
<1>6. ASSUME NEW s, NEW t, Precedes(p, s, t)
      PROVE  Precedes(q, s, t) /\ ~Precedes(q, q[k], t)
  <2>1. PICK i \in 1 .. k, j \in 1 .. k : i < j /\ p[i] = s /\ p[j] = t
    BY <1>1, <1>6 DEF Precedes
  <2>2. i \in 1 .. n /\ j \in 1 .. n /\ q[i] = s /\ q[j] = t
    BY <1>1, <2>1
  <2> QED BY <1>4, <2>1, <2>2 DEF Precedes
<1>7. ASSUME NEW s, NEW t, Precedes(q, s, t), ~Precedes(q, q[k], t)
      PROVE  Precedes(p, s, t)
  <2>1. PICK i \in 1 .. n, j \in 1 .. n : i < j /\ q[i] = s /\ q[j] = t
    BY <1>7 DEF Precedes
  <2>2. j \in 1 .. k
    BY <1>4, <1>7, <2>1
  <2>3. i \in 1 .. k
    BY <1>1, <2>1, <2>2
  <2> QED BY <1>1, <2>1, <2>2, <2>3 DEF Precedes
<1> QED BY <1>5, <1>6, <1>7 DEF p
-----------------------------------------------------------------------------
\* Lemmas about the program order.

\* The elements of a sequence cut in two.
LEMMA SplitElements ==
    ASSUME NEW q \in Seq(Slots), NEW k \in 0 .. Len(q)
    PROVE  LET front == SubSeq(q, 1, k)
               rear == SubSeq(q, k + 1, Len(q))
           IN  /\ front \in Seq(Slots) /\ Len(front) = k
               /\ \A i \in 1 .. k : front[i] = q[i]
               /\ rear \in Seq(Slots) /\ Len(rear) = Len(q) - k
               /\ \A i \in 1 .. Len(q) - k : rear[i] = q[k + i]
<1>1. Len(q) \in Nat /\ \A i \in 1 .. Len(q) : q[i] \in Slots
  BY LenProperties, ElementOfSeq
<1> QED BY <1>1, SubSeqProperties

\* A sequence, then what another one has left after its first k elements.
LEMMA ConcatRear ==
    ASSUME NEW r \in Seq(Slots), NEW b \in Seq(Slots), NEW k \in 0 .. Len(b)
    PROVE  LET p == r \o SubSeq(b, k + 1, Len(b)) IN
           /\ p \in Seq(Slots) /\ Len(p) = Len(r) + (Len(b) - k)
           /\ \A i \in 1 .. Len(p) :
                p[i] = IF i <= Len(r) THEN r[i] ELSE b[k + (i - Len(r))]
<1> DEFINE m == Len(r)
           n == Len(b)
           h == SubSeq(b, k + 1, Len(b))
           p == r \o h
<1>1. n \in Nat /\ m \in Nat /\ \A i \in 1 .. n : b[i] \in Slots
  BY LenProperties, ElementOfSeq
<1>2. /\ h \in Seq(Slots) /\ Len(h) = n - k
      /\ \A i \in 1 .. n - k : h[i] = b[k + i]
  BY <1>1, SplitElements
<1> HIDE DEF h, m, n
<1>3. /\ p \in Seq(Slots) /\ Len(p) = m + (n - k)
      /\ \A i \in 1 .. m + (n - k) : p[i] = IF i <= m THEN r[i] ELSE h[i - m]
  BY <1>2, ConcatProperties DEF m
<1>4. \A i \in 1 .. m + (n - k) : ~(i <= m) => i - m \in 1 .. n - k
  BY <1>1 DEF n
<1>5. \A i \in 1 .. m + (n - k) : p[i] = IF i <= m THEN r[i] ELSE b[k + (i - m)]
  BY <1>2, <1>3, <1>4
<1> QED BY <1>3, <1>5 DEF h, m, n

\* The reorder buffer, then what the decoder holds.
LEMMA OrderIs ==
    ASSUME TypeInv
    PROVE  /\ rob \in Seq(Slots) /\ Len(rob) \in Nat
           /\ Len(dec.buf) \in Nat /\ dec.sent \in 0 .. Len(dec.buf)
           /\ dec.buf \in Seq(Slots)
           /\ ProgramOrder \in Seq(Slots)
           /\ Len(ProgramOrder) = Len(rob) + (Len(dec.buf) - dec.sent)
           /\ \A i \in 1 .. Len(ProgramOrder) : ProgramOrder[i] =
                IF i <= Len(rob) THEN rob[i] ELSE dec.buf[dec.sent + (i - Len(rob))]
<1>1. /\ rob \in Seq(Slots) /\ dec.buf \in Seq(Slots) /\ dec.sent \in 0 .. Len(dec.buf)
      /\ Len(rob) \in Nat /\ Len(dec.buf) \in Nat
  BY LenProperties DEF TypeInv, TypeOK
<1>2. LET p == rob \o SubSeq(dec.buf, dec.sent + 1, Len(dec.buf)) IN
      /\ p \in Seq(Slots) /\ Len(p) = Len(rob) + (Len(dec.buf) - dec.sent)
      /\ \A i \in 1 .. Len(p) : p[i] =
           IF i <= Len(rob) THEN rob[i] ELSE dec.buf[dec.sent + (i - Len(rob))]
  BY <1>1, ConcatRear
<1> QED BY <1>1, <1>2 DEF ProgramOrder

\* The same after a step.
LEMMA OrderNext ==
    ASSUME TypeInv'
    PROVE  /\ rob' \in Seq(Slots) /\ Len(rob') \in Nat
           /\ Len(dec.buf)' \in Nat /\ dec.sent' \in 0 .. Len(dec.buf)'
           /\ dec.buf' \in Seq(Slots)
           /\ ProgramOrder' \in Seq(Slots)
           /\ Len(ProgramOrder') = Len(rob') + (Len(dec.buf)' - dec.sent')
           /\ \A i \in 1 .. Len(ProgramOrder') : ProgramOrder'[i] =
                IF i <= Len(rob') THEN rob'[i]
                ELSE dec.buf'[dec.sent' + (i - Len(rob'))]
<1>1. /\ rob' \in Seq(Slots) /\ dec.buf' \in Seq(Slots)
      /\ dec.sent' \in 0 .. Len(dec.buf')
      /\ Len(rob') \in Nat /\ Len(dec.buf') \in Nat
  BY LenProperties DEF TypeInv, TypeOK
<1>2. LET p == rob' \o SubSeq(dec'.buf, dec'.sent + 1, Len(dec'.buf)) IN
      /\ p \in Seq(Slots) /\ Len(p) = Len(rob') + (Len(dec'.buf) - dec'.sent)
      /\ \A i \in 1 .. Len(p) : p[i] =
           IF i <= Len(rob') THEN rob'[i] ELSE dec'.buf[dec'.sent + (i - Len(rob'))]
  BY <1>1, ConcatRear
<1> QED BY <1>1, <1>2 DEF ProgramOrder

\* A function on 1 .. n onto n things takes none of them twice.
LEMMA OntoIsOnce ==
    ASSUME NEW S, NEW q \in Seq(S), Len(q) = Cardinality(S), RangeOf(q) = S
    PROVE  Once(q)
<1>1. q \in [1 .. Len(q) -> S] /\ Len(q) \in Nat /\ DOMAIN q = 1 .. Len(q)
  BY LenProperties
<1>2. \A x \in S : \E i \in 1 .. Len(q) : q[i] = x
  BY <1>1 DEF RangeOf
<1>3. q \in Surjection(1 .. Len(q), S)
  BY <1>1, <1>2 DEF Surjection
<1>4. IsFiniteSet(1 .. Len(q)) /\ Cardinality(1 .. Len(q)) = Len(q)
  BY <1>1, FS_Interval
<1>5. q \in Injection(1 .. Len(q), S)
  BY <1>3, <1>4, FS_SurjSameCardinalityImpliesInj
<1> QED BY <1>1, <1>5 DEF Injection, IsInjective, Once

\* Every slot has one place.
LEMMA OnePlace ==
    ASSUME TypeInv, ConsInv
    PROVE  /\ Once(supply) /\ Once(ProgramOrder)
           /\ RangeOf(ProgramOrder) = RangeOf(rob) \cup Held
           /\ RangeOf(supply) \cap RangeOf(ProgramOrder) = {}
           /\ RangeOf(rob) \cap Held = {}
<1> DEFINE q == supply \o ProgramOrder
           m == Len(supply)
           n == Len(ProgramOrder)
           r == Len(rob)
<1>1. /\ supply \in Seq(Slots) /\ m \in Nat
      /\ ProgramOrder \in Seq(Slots) /\ n \in Nat
  BY OrderIs, LenProperties DEF TypeInv, TypeOK
<1>2. m + n = Cardinality(Slots) /\ RangeOf(supply) \cup InFlight = Slots
  BY ConsImplies DEF SlotConservation
<1>3. /\ n = r + (Len(dec.buf) - dec.sent) /\ r \in Nat
      /\ Len(dec.buf) \in Nat /\ dec.sent \in 0 .. Len(dec.buf)
      /\ rob \in Seq(Slots)
      /\ \A i \in 1 .. n : ProgramOrder[i] =
           IF i <= r THEN rob[i] ELSE dec.buf[dec.sent + (i - r)]
  BY OrderIs
<1>4. RangeOf(rob) = {ProgramOrder[i] : i \in 1 .. r}
  <2>1. RangeOf(rob) = {rob[i] : i \in 1 .. r}
    BY <1>3, RangeOfSequence
  <2>2. \A i \in 1 .. r : ProgramOrder[i] = rob[i]
    BY <1>3
  <2> QED BY <2>1, <2>2
<1>5. Held = {ProgramOrder[i] : i \in r + 1 .. n}
  <2> DEFINE k == dec.sent
             l == Len(dec.buf)
  <2>1. \A i \in r + 1 .. n : i - r + k \in k + 1 .. l
                              /\ ProgramOrder[i] = dec.buf[i - r + k]
    <3>1. \A i \in r + 1 .. n : ~(i <= r) /\ i \in 1 .. n /\ k + (i - r) = i - r + k
                                /\ i - r + k \in k + 1 .. l
      BY <1>3
    <3> QED BY <1>3, <3>1
  <2>2. \A j \in k + 1 .. l : j - k + r \in r + 1 .. n
                              /\ (j - k + r) - r + k = j
    BY <1>3
  <2> HIDE DEF k, l, n, r
  <2>3. \A j \in k + 1 .. l : ProgramOrder[j - k + r] = dec.buf[j]
    BY <2>1, <2>2
  <2>4. Held = {dec.buf[j] : j \in k + 1 .. l}
    BY DEF Held, k, l
  <2> QED BY <2>1, <2>2, <2>3, <2>4
<1>6. RangeOf(ProgramOrder) = {ProgramOrder[i] : i \in 1 .. n}
  BY <1>1, RangeOfSequence
<1>7. RangeOf(ProgramOrder) = RangeOf(rob) \cup Held
  <2>1. \A i : i \in 1 .. n <=> i \in 1 .. r \/ i \in r + 1 .. n
    BY <1>3
  <2> QED BY <1>4, <1>5, <1>6, <2>1
<1>8. Once(q)
  <2>1. q \in Seq(Slots) /\ Len(q) = m + n
        /\ RangeOf(q) = RangeOf(supply) \cup RangeOf(ProgramOrder)
    BY <1>1, RangeConcat
  <2>2. RangeOf(q) = Slots
    BY <1>2, <1>7, <2>1, BufferedRange DEF InFlight
  <2> QED BY <1>2, <2>1, <2>2, OntoIsOnce
<1>9. /\ Len(q) = m + n
      /\ \A i \in 1 .. m + n : q[i] = IF i <= m THEN supply[i] ELSE ProgramOrder[i - m]
  BY <1>1, ConcatProperties
<1> HIDE DEF q
<1>10. \A i \in 1 .. m : i \in 1 .. m + n /\ q[i] = supply[i]
  BY <1>1, <1>9
<1>11. \A i \in 1 .. n : i + m \in 1 .. m + n /\ q[i + m] = ProgramOrder[i]
  <2>1. \A i \in 1 .. n : i + m \in 1 .. m + n /\ ~(i + m <= m) /\ (i + m) - m = i
    BY <1>1
  <2> QED BY <1>9, <2>1
<1>12. \A i, j \in 1 .. m + n : q[i] = q[j] => i = j
  BY <1>8, <1>9 DEF Once
<1>13. Once(supply)
  BY <1>10, <1>12 DEF Once
<1>14. \A i, j \in 1 .. n : ProgramOrder[i] = ProgramOrder[j] => i = j
  <2> SUFFICES ASSUME NEW i \in 1 .. n, NEW j \in 1 .. n,
                      ProgramOrder[i] = ProgramOrder[j]
               PROVE  i = j
    OBVIOUS
  <2>1. i + m = j + m
    BY <1>11, <1>12
  <2> QED BY <1>1, <2>1
<1>15. RangeOf(supply) \cap RangeOf(ProgramOrder) = {}
  <2> SUFFICES ASSUME NEW i \in 1 .. m, NEW j \in 1 .. n,
                      supply[i] = ProgramOrder[j]
               PROVE  FALSE
    BY <1>1, <1>6, RangeOfSequence
  <2>1. i = j + m
    BY <1>10, <1>11, <1>12
  <2> QED BY <1>1, <2>1
<1>16. RangeOf(rob) \cap Held = {}
  <2> SUFFICES ASSUME NEW i \in 1 .. r, NEW j \in r + 1 .. n,
                      ProgramOrder[i] = ProgramOrder[j]
               PROVE  FALSE
    BY <1>4, <1>5
  <2>1. i \in 1 .. n /\ j \in 1 .. n /\ i # j
    BY <1>1, <1>3
  <2> QED BY <1>14, <2>1
<1> QED BY <1>7, <1>13, <1>14, <1>15, <1>16 DEF Once

\* The same after a step.
LEMMA OnePlaceNext ==
    TypeInv' /\ ConsInv' =>
      /\ RangeOf(ProgramOrder') = RangeOf(rob') \cup Held'
      /\ RangeOf(supply') \cap (RangeOf(rob') \cup Held') = {}
      /\ RangeOf(rob') \cap Held' = {}
<1> DEFINE F == /\ RangeOf(ProgramOrder) = RangeOf(rob) \cup Held
                /\ RangeOf(supply) \cap (RangeOf(rob) \cup Held) = {}
                /\ RangeOf(rob) \cap Held = {}
<1>1. TypeInv /\ ConsInv => F
  BY OnePlace
<1> HIDE DEF F
<1>2. TypeInv' /\ ConsInv' => F'
  BY <1>1, PTL
<1> QED BY <1>2 DEF F
-----------------------------------------------------------------------------
\* Where a step puts the slots, and what it makes of their order.

\* Age orders what is in flight, and the reorder buffer holds the oldest.
LEMMA Order ==
    ASSUME TypeInv, ConsInv
    PROVE  LET P == RangeOf(rob) \cup Held IN
           /\ P \subseteq Slots
           /\ \A s, t : Before(s, t) => s \in P /\ t \in P /\ ~Before(t, s)
           /\ \A s, t, u : Before(s, t) /\ Before(t, u) => Before(s, u)
           /\ \A s, t \in P : s # t => Before(s, t) \/ Before(t, s)
           /\ \A s \in RangeOf(rob), t \in Held : Before(s, t)
           /\ rob # <<>> => /\ Head(rob) \in RangeOf(rob)
                            /\ \A s : ~Before(s, Head(rob))
<1> DEFINE P == RangeOf(rob) \cup Held
           q == ProgramOrder
           r == Len(rob)
           n == Len(q)
<1>1. q \in Seq(Slots) /\ Once(q) /\ RangeOf(q) = P
  BY OrderIs, OnePlace
<1>2. /\ r \in Nat /\ n \in Nat /\ r <= n /\ rob \in Seq(Slots)
      /\ n = r + (Len(dec.buf) - dec.sent)
      /\ Len(dec.buf) \in Nat /\ dec.sent \in 0 .. Len(dec.buf)
      /\ \A i \in 1 .. n : q[i] = IF i <= r THEN rob[i] ELSE dec.buf[dec.sent + (i - r)]
  BY OrderIs
<1>3. P \subseteq Slots
  BY <1>1, RangeOfSequence
<1>4. /\ \A s, t : Before(s, t) => s \in P /\ t \in P /\ ~Before(t, s)
      /\ \A s, t, u : Before(s, t) /\ Before(t, u) => Before(s, u)
      /\ \A s, t \in P : s # t => Before(s, t) \/ Before(t, s)
  BY <1>1, OrderFacts DEF Before
<1>5. \A i \in 1 .. r : i \in 1 .. n /\ q[i] = rob[i]
  BY <1>2
<1>6. RangeOf(rob) = {rob[i] : i \in 1 .. r}
  BY <1>2, RangeOfSequence
<1>7. ASSUME NEW s \in RangeOf(rob), NEW t \in Held
      PROVE  Before(s, t)
  <2>1. PICK i \in 1 .. r : rob[i] = s
    BY <1>6
  <2>2. PICK k \in dec.sent + 1 .. Len(dec.buf) : dec.buf[k] = t
    BY DEF Held
  <2>3. /\ r + (k - dec.sent) \in 1 .. n /\ ~(r + (k - dec.sent) <= r)
        /\ dec.sent + ((r + (k - dec.sent)) - r) = k /\ i < r + (k - dec.sent)
    BY <1>2
  <2>4. q[r + (k - dec.sent)] = t
    BY <1>2, <2>2, <2>3
  <2> QED BY <1>5, <2>1, <2>3, <2>4 DEF Before, Precedes
<1>8. ASSUME rob # <<>>
      PROVE  Head(rob) \in RangeOf(rob) /\ \A s : ~Before(s, Head(rob))
  <2>1. r > 0 /\ Head(rob) = rob[1] /\ 1 \in 1 .. r
    BY <1>2, <1>8, EmptySeq
  <2>2. Head(rob) \in RangeOf(rob) /\ q[1] = Head(rob) /\ 1 \in 1 .. n
    BY <1>5, <1>6, <2>1
  <2>3. ASSUME NEW s, Before(s, Head(rob)) PROVE FALSE
    <3>1. PICK i, j \in 1 .. n : i < j /\ q[i] = s /\ q[j] = Head(rob)
      BY <2>3 DEF Before, Precedes
    <3>2. j = 1
      BY <1>1, <2>2, <3>1 DEF Once
    <3> QED BY <3>1, <3>2
  <2> QED BY <2>2, <2>3
<1> QED BY <1>3, <1>4, <1>7, <1>8

\* What is decoded is in flight; what is in the decoder is younger.
LEMMA DecodedPlace ==
    /\ RangeOf(rob) \subseteq Decoded
    /\ Decoded \subseteq RangeOf(rob) \cup Held
    /\ dec.state = "dispatch" => Decoded = RangeOf(rob) \cup Held
    /\ dec.state # "dispatch" => Decoded = RangeOf(rob)
BY DEF Decoded

\* A flush of the whole pipeline leaves nothing in flight.
LEMMA FlushFrame ==
    ASSUME TypeInv, ConsInv, FlushPipeline, TypeInv', ConsInv'
    PROVE  /\ RangeOf(rob') = {} /\ Held' = {} /\ Decoded' = {}
           /\ RangeOf(supply') = Slots
           /\ dec' = IdleDecoder /\ rob' = <<>>
<1>1. rob' = <<>> /\ dec' = IdleDecoder
  BY DEF FlushPipeline
<1>2. RangeOf(rob') = {}
  BY <1>1, EmptyHeld
<1>3. Held' = {} /\ dec'.state = "idle"
  BY <1>1 DEF Held, IdleDecoder
<1>4. Decoded' = {}
  BY <1>2, <1>3 DEF Decoded
<1>5. RangeOf(supply') = Slots
  BY <1>2, <1>3 DEF ConsInv
<1> QED BY <1>1, <1>2, <1>3, <1>4, <1>5

\* A commit removes the oldest uop.
LEMMA CommitFrame ==
    ASSUME TypeInv, ConsInv, Commit, TypeInv', ConsInv'
    PROVE  LET h == Head(rob) IN
           /\ h \in RangeOf(rob) /\ h \notin Held
           /\ RangeOf(rob') = RangeOf(rob) \ {h} /\ Held' = Held
           /\ Decoded' = Decoded \ {h}
           /\ RangeOf(supply') = RangeOf(supply) \cup {h}
           /\ \A s, t : Before(s, t)' <=> Before(s, t) /\ s # h
<1> DEFINE h == Head(rob)
           q == ProgramOrder
           r == Len(rob)
           k == Len(dec.buf) - dec.sent
<1>1. /\ rob # <<>> /\ rob' = Tail(rob) /\ dec' = dec
      /\ supply' = Append(supply, h)
  BY DEF Commit, HeadIs
<1>2. /\ q \in Seq(Slots) /\ Once(q) /\ Len(q) = r + k /\ r \in Nat /\ k \in Nat
      /\ rob \in Seq(Slots) /\ RangeOf(rob) \cap Held = {}
      /\ \A i \in 1 .. r + k : q[i] = IF i <= r THEN rob[i] ELSE dec.buf[dec.sent + (i - r)]
  BY OrderIs, OnePlace
<1>3. /\ q' \in Seq(Slots) /\ Len(q') = Len(rob') + k
      /\ \A i \in 1 .. Len(rob') + k : q'[i] =
           IF i <= Len(rob') THEN rob'[i] ELSE dec.buf[dec.sent + (i - Len(rob'))]
  BY <1>1, OrderNext
<1>4. /\ r > 0 /\ Len(rob') = r - 1 /\ h = rob[1]
      /\ \A i \in 1 .. r - 1 : rob'[i] = rob[i + 1]
  BY <1>1, <1>2, HeadTailProperties, EmptySeq
<1>5. q # <<>> /\ Head(q) = h
  <2>1. 1 \in 1 .. r + k /\ 1 <= r /\ Len(q) > 0
    BY <1>2, <1>4
  <2>2. q[1] = rob[1]
    BY <1>2, <2>1
  <2>3. q # <<>>
    BY <2>1, EmptySeq, LenProperties
  <2> QED BY <1>4, <2>2, <2>3
<1>6. q' = Tail(q)
  <2>1. /\ Tail(q) \in Seq(Slots) /\ Len(Tail(q)) = (r + k) - 1
        /\ \A i \in 1 .. (r + k) - 1 : Tail(q)[i] = q[i + 1]
    BY <1>2, <1>5, HeadTailProperties
  <2>2. Len(q') = (r + k) - 1
    BY <1>2, <1>3, <1>4
  <2>3. ASSUME NEW i \in 1 .. (r + k) - 1 PROVE q'[i] = q[i + 1]
    <3>1. /\ i + 1 \in 1 .. r + k /\ i \in 1 .. (r - 1) + k
          /\ (i + 1 <= r <=> i <= r - 1) /\ (i <= r - 1 => i \in 1 .. r - 1)
          /\ (i + 1) - r = i - (r - 1)
      BY <1>2, <1>4
    <3>2. q[i + 1] = IF i + 1 <= r THEN rob[i + 1] ELSE dec.buf[dec.sent + ((i + 1) - r)]
      BY <1>2, <3>1
    <3>3. q'[i] = IF i <= r - 1 THEN rob'[i] ELSE dec.buf[dec.sent + (i - (r - 1))]
      BY <1>3, <1>4, <3>1
    <3> QED BY <1>4, <3>1, <3>2, <3>3
  <2> QED BY <1>3, <2>1, <2>2, <2>3, SeqEqual
<1>7. \A s, t : Before(s, t)' <=> Before(s, t) /\ s # h
  BY <1>2, <1>5, <1>6, OrderOfTail DEF Before
<1>8. Held' = Held
  BY <1>1 DEF Held
<1>9. h \in RangeOf(rob) /\ h \notin Held /\ RangeOf(rob') = RangeOf(rob) \ {h}
  <2>1. RangeOf(rob) = {h} \cup RangeOf(rob')
    BY <1>1, <1>2, RangeHeadTail
  <2>2. h \notin RangeOf(rob')
    <3>1. Once(rob)
      <4>1. \A i \in 1 .. r : i \in 1 .. r + k /\ q[i] = rob[i]
        BY <1>2
      <4> QED BY <1>2, <4>1 DEF Once
    <3> QED BY <1>1, <1>2, <3>1, OrderOfTail
  <2> QED BY <1>2, <2>1, <2>2
<1>10. Decoded' = Decoded \ {h}
  BY <1>1, <1>8, <1>9 DEF Decoded
<1>11. RangeOf(supply') = RangeOf(supply) \cup {h}
  BY <1>1, <1>2, <1>9, RangeAppend, RangeOfSequence DEF TypeInv, TypeOK
<1> QED BY <1>7, <1>8, <1>9, <1>10, <1>11

\* A flush on write-back whose branch is in the reorder buffer removes what is
\* younger than the branch.
LEMMA WbFlushFrame ==
    ASSUME TypeInv, ConsInv, FlushOnWriteBack, TypeInv', ConsInv',
           wbFlusher \in RangeOf(rob), uop[wbFlusher].status # "DECODING"
    PROVE  LET f == wbFlusher
               squashed == {s \in RangeOf(rob) \cup Held : Before(f, s)}
           IN
           /\ RangeOf(rob') = RangeOf(rob) \ squashed
           /\ Held' = {} /\ Decoded' = RangeOf(rob')
           /\ Held \subseteq squashed
           /\ dec' = IdleDecoder /\ rob' # <<>> /\ Head(rob') = Head(rob) /\ rob # <<>>
           /\ RangeOf(supply') = RangeOf(supply) \cup squashed
           /\ \A s, t : Before(s, t)' <=> Before(s, t) /\ ~Before(f, t)
           /\ uop' = [s \in Slots |->
                       IF s \in squashed THEN FreeUop
                       ELSE IF s = f THEN [uop[s] EXCEPT !.foresight = TRUE]
                       ELSE uop[s]]
           /\ links' = {l \in links \ UNION {uop[s].ins : s \in squashed \ Held} :
                           l.src \notin squashed}
           /\ regs' = [r \in Regs |-> IF regs[r] \in squashed THEN NoSlot ELSE regs[r]]
           /\ rsq' = rsq \ squashed /\ lsq' = lsq \ squashed
           /\ fu' = [u \in 1 .. Units |-> IF fu[u] \in squashed THEN NoSlot ELSE fu[u]]
           /\ mis' = FALSE
<1> DEFINE f == wbFlusher
           k == Kept(f)
           younger == SubSeq(rob, k + 1, Len(rob))
           q == ProgramOrder
           r == Len(rob)
           H == Held
           P == RangeOf(rob) \cup H
           S == {s \in P : Before(f, s)}
<1>1. /\ q \in Seq(Slots) /\ Once(q) /\ r \in Nat /\ rob \in Seq(Slots)
      /\ Len(q) = r + (Len(dec.buf) - dec.sent)
      /\ Len(dec.buf) \in Nat /\ dec.sent \in 0 .. Len(dec.buf)
      /\ RangeOf(q) = P
      /\ \A i \in 1 .. Len(q) : q[i] = IF i <= r THEN rob[i]
                                       ELSE dec.buf[dec.sent + (i - r)]
  BY OrderIs, OnePlace
<1>2. k \in 1 .. r /\ rob[k] = f
  <2>1. \E i \in DOMAIN rob : rob[i] = f
    BY DEF RangeOf
  <2>2. PositionOf(f) \in DOMAIN rob /\ rob[PositionOf(f)] = f
    BY <2>1 DEF PositionOf
  <2>3. DOMAIN rob = 1 .. r
    BY <1>1, LenProperties
  <2> QED BY <2>2, <2>3 DEF Kept
<1>3. /\ rob' = SubSeq(rob, 1, k) /\ dec' = IdleDecoder
      /\ RangeOf(Buffered) = H
  BY BufferedRange DEF FlushOnWriteBack
<1> HIDE DEF k, H
<1>4. k \in 1 .. Len(q) /\ q[k] = f
  BY <1>1, <1>2
<1>5. q' = SubSeq(q, 1, k)
  <2>1. /\ SubSeq(q, 1, k) \in Seq(Slots) /\ Len(SubSeq(q, 1, k)) = k
        /\ \A i \in 1 .. k : SubSeq(q, 1, k)[i] = q[i]
    <3>1. \A i \in 1 .. Len(q) : q[i] \in Slots
      BY <1>1, ElementOfSeq
    <3>2. Len(q) \in Nat
      BY <1>1
    <3> HIDE DEF q
    <3> QED BY <1>1, <1>4, <3>1, <3>2, SubSeqProperties
  <2>2. /\ rob' \in Seq(Slots) /\ Len(rob') = k
        /\ \A i \in 1 .. k : rob'[i] = rob[i]
    <3>1. \A i \in 1 .. r : rob[i] \in Slots
      BY <1>1, ElementOfSeq
    <3> QED BY <1>1, <1>2, <1>3, <3>1, SubSeqProperties
  <2>3. Len(dec.buf)' = 0 /\ dec.sent' = 0
    BY <1>3 DEF IdleDecoder
  <2>4. /\ q' \in Seq(Slots) /\ Len(q') = k
        /\ \A i \in 1 .. k : q'[i] = rob'[i]
    <3>1. /\ q' \in Seq(Slots) /\ Len(q') = Len(rob') + (0 - 0)
          /\ \A i \in 1 .. Len(q') : i <= Len(rob') => q'[i] = rob'[i]
      BY <2>3, OrderNext
    <3>2. k + (0 - 0) = k /\ \A i \in 1 .. k : i <= k
      BY <1>2
    <3>3. Len(q') = k
      BY <2>2, <3>1, <3>2
    <3> QED BY <2>2, <3>1, <3>2, <3>3
  <2>5. \A i \in 1 .. k : i \in 1 .. Len(q) /\ i <= r
    BY <1>1, <1>2
  <2>6. \A i \in 1 .. k : q'[i] = SubSeq(q, 1, k)[i]
    BY <1>1, <2>1, <2>2, <2>4, <2>5, Zenon
  <2> QED BY <2>1, <2>4, <2>6, SeqEqual
<1>6. /\ RangeOf(q') = {s \in P : ~Before(f, s)}
      /\ \A s, t : Before(s, t)' <=> Before(s, t) /\ ~Before(f, t)
  BY <1>1, <1>4, <1>5, OrderOfFront DEF Before
<1>7. /\ Held' = {} /\ Decoded' = RangeOf(rob') /\ RangeOf(q') = RangeOf(rob')
  <2>1. Held' = {} /\ dec'.state = "idle"
    BY <1>3 DEF Held, IdleDecoder
  <2>2. RangeOf(q') = RangeOf(rob') \cup Held'
    BY OnePlaceNext
  <2> QED BY <2>1, <2>2 DEF Decoded
<1>8. H \subseteq S /\ \A s \in H : s \notin RangeOf(rob)
  BY Order, OnePlace DEF H
<1>9. RangeOf(rob') = RangeOf(rob) \ S
  BY <1>6, <1>7, <1>8
<1>10. RangeOf(younger) = S \ H
  <2>1. /\ Len(younger) = r - k /\ younger \in Seq(Slots)
        /\ \A i \in 1 .. r - k : younger[i] = rob[k + i]
    <3>1. k \in 0 .. Len(rob)
      BY <1>1, <1>2
    <3> QED BY <1>1, <3>1, SplitElements
  <2> HIDE DEF younger
  <2>2. RangeOf(younger) = {younger[i] : i \in 1 .. r - k}
    BY <2>1, RangeOfSequence
  <2>3. \A j \in 1 .. Len(q) : Before(f, q[j]) <=> k < j
    <3> SUFFICES ASSUME NEW j \in 1 .. Len(q) PROVE Before(f, q[j]) <=> k < j
      OBVIOUS
    <3>1. Before(f, q[j]) => k < j
      BY <1>1, <1>4 DEF Before, Precedes, Once
    <3>2. k < j => Before(f, q[j])
      BY <1>1, <1>4 DEF Before, Precedes
    <3> QED BY <3>1, <3>2
  <2>4. \A i \in 1 .. r : i \in 1 .. Len(q) /\ q[i] = rob[i]
    BY <1>1
  <2>5. RangeOf(rob) = {rob[i] : i \in 1 .. r}
    BY <1>1, RangeOfSequence
  <2>6. ASSUME NEW i \in 1 .. r - k PROVE younger[i] \in S \ H
    <3>1. k + i \in 1 .. r /\ k < k + i
      BY <1>1, <1>2
    <3>2. rob[k + i] \in RangeOf(rob) /\ Before(f, rob[k + i])
      BY <2>3, <2>4, <2>5, <3>1
    <3> QED BY <1>8, <2>1, <3>2
  <2>7. ASSUME NEW s \in S \ H PROVE s \in RangeOf(younger)
    <3>1. PICK i \in 1 .. r : rob[i] = s
      BY <2>5
    <3>2. k < i
      BY <2>3, <2>4, <3>1
    <3>3. i - k \in 1 .. r - k /\ k + (i - k) = i
      BY <1>1, <1>2, <3>2
    <3>4. younger[i - k] = s
      BY <2>1, <3>1, <3>3
    <3> QED BY <2>2, <3>3, <3>4
  <2> QED BY <2>2, <2>6, <2>7
<1>11. /\ rob' # <<>> /\ Head(rob') = Head(rob) /\ rob # <<>>
  <2>1. /\ rob' \in Seq(Slots) /\ Len(rob') = k /\ rob'[1] = rob[1]
    <3>1. \A i \in 1 .. r : rob[i] \in Slots
      BY <1>1, ElementOfSeq
    <3>2. /\ rob' \in Seq(Slots) /\ Len(rob') = k
          /\ \A i \in 1 .. k : rob'[i] = rob[i]
      BY <1>1, <1>2, <1>3, <3>1, SubSeqProperties
    <3>3. 1 \in 1 .. k
      BY <1>2
    <3> QED BY <3>2, <3>3
  <2>2. k > 0 /\ r > 0
    BY <1>2, <1>1
  <2>3. rob' # <<>> /\ rob # <<>>
    BY <1>1, <2>1, <2>2, EmptySeq
  <2> QED BY <1>1, <2>1, <2>3
<1> DEFINE squashed == RangeOf(younger) \cup RangeOf(Buffered)
<1>12. squashed = S
  BY <1>3, <1>8, <1>10
<1>13. /\ uop' = [s \in Slots |->
                    IF s \in squashed THEN FreeUop
                    ELSE IF s = f THEN [uop[s] EXCEPT !.foresight = TRUE]
                    ELSE uop[s]]
       /\ links' = {l \in links \ UNION {uop[s].ins : s \in RangeOf(younger)} :
                      l.src \notin squashed}
       /\ regs' = [x \in Regs |-> IF regs[x] \in squashed THEN NoSlot ELSE regs[x]]
       /\ rsq' = rsq \ squashed /\ lsq' = lsq \ squashed
       /\ fu' = [u \in 1 .. Units |-> IF fu[u] \in squashed THEN NoSlot ELSE fu[u]]
       /\ mis' = FALSE
  BY DEF FlushOnWriteBack, k
<1>14. RangeOf(supply') = RangeOf(supply) \cup S
  <2>1. supply \in Seq(Slots) /\ Buffered \in Seq(Slots) /\ younger \in Seq(Slots)
    <3>1. k \in 0 .. Len(rob)
      BY <1>1, <1>2
    <3>2. younger \in Seq(Slots)
      BY <1>1, <3>1, SplitElements
    <3> QED BY <3>2, BufferedType DEF TypeInv, TypeOK
  <2>2. supply' = (supply \o Buffered) \o younger
    BY DEF FlushOnWriteBack, k
  <2> HIDE DEF younger
  <2> DEFINE front == supply \o Buffered
  <2>3. /\ front \in Seq(Slots) /\ supply' = front \o younger
        /\ RangeOf(front) = RangeOf(supply) \cup RangeOf(Buffered)
    BY <2>1, <2>2, RangeConcat
  <2> HIDE DEF front
  <2>4. RangeOf(front \o younger) = RangeOf(front) \cup RangeOf(younger)
    BY <2>1, <2>3, RangeConcat
  <2> QED BY <1>12, <2>3, <2>4
<1> HIDE DEF squashed, younger, S
<1> SUFFICES
      /\ RangeOf(rob') = RangeOf(rob) \ S
      /\ Held' = {} /\ Decoded' = RangeOf(rob')
      /\ Held \subseteq S
      /\ dec' = IdleDecoder /\ rob' # <<>> /\ Head(rob') = Head(rob) /\ rob # <<>>
      /\ RangeOf(supply') = RangeOf(supply) \cup S
      /\ \A s, t : Before(s, t)' <=> Before(s, t) /\ ~Before(f, t)
      /\ uop' = [s \in Slots |->
                  IF s \in S THEN FreeUop
                  ELSE IF s = f THEN [uop[s] EXCEPT !.foresight = TRUE]
                  ELSE uop[s]]
      /\ links' = {l \in links \ UNION {uop[s].ins : s \in S \ Held} : l.src \notin S}
      /\ regs' = [x \in Regs |-> IF regs[x] \in S THEN NoSlot ELSE regs[x]]
      /\ rsq' = rsq \ S /\ lsq' = lsq \ S
      /\ fu' = [u \in 1 .. Units |-> IF fu[u] \in S THEN NoSlot ELSE fu[u]]
      /\ mis' = FALSE
  BY Zenon DEF S, H
<1> QED BY <1>3, <1>6, <1>7, <1>8, <1>9, <1>10, <1>11, <1>12, <1>13, <1>14 DEF H

\* A step that changes neither buffer moves nothing.
LEMMA SameOrder ==
    ASSUME rob' = rob, dec'.buf = dec.buf, dec'.sent = dec.sent
    PROVE  /\ RangeOf(rob') = RangeOf(rob) /\ Held' = Held
           /\ \A s, t : Before(s, t)' <=> Before(s, t)
           /\ dec'.state = dec.state => Decoded' = Decoded
<1>1. ProgramOrder' = ProgramOrder /\ Held' = Held
  BY DEF ProgramOrder, Held
<1>2. \A s, t : Before(s, t)' <=> Before(s, t)
  BY <1>1 DEF Before
<1> QED BY <1>1, <1>2 DEF Decoded

\* Allocation puts a free slot behind everything in flight.
LEMMA AllocateFrame ==
    ASSUME TypeInv, ConsInv, Allocate, TypeInv', ConsInv'
    PROVE  LET h == Head(supply) IN
           /\ h \in RangeOf(supply) /\ h \notin RangeOf(rob) \cup Held
           /\ rob' = rob /\ Held' = Held \cup {h}
           /\ Decoded = RangeOf(rob) /\ Decoded' = Decoded
           /\ dec'.state = "allocate"
           /\ RangeOf(supply') \subseteq RangeOf(supply) \ {h}
           /\ \A s, t : Before(s, t)' <=> Before(s, t) \/ (s \in RangeOf(rob) \cup Held /\ t = h)
<1> DEFINE h == Head(supply)
           q == ProgramOrder
           r == Len(rob)
           n == Len(dec.buf)
<1>1. /\ supply # <<>> /\ supply' = Tail(supply) /\ rob' = rob
      /\ dec.state = "allocate" /\ dec.sent = 0
      /\ dec' = [dec EXCEPT !.buf = Append(dec.buf, h)]
  BY DEF Allocate, TypeInv, DecoderConsistent
<1>2. /\ dec'.state = "allocate" /\ dec'.sent = 0
      /\ dec'.buf = Append(dec.buf, h)
  BY <1>1 DEF TypeInv, TypeOK
<1>3. /\ h \in Slots /\ h \in RangeOf(supply) /\ RangeOf(supply') \subseteq RangeOf(supply)
      /\ supply \in Seq(Slots)
  BY <1>1, RangeHeadTail DEF TypeInv, TypeOK
<1> HIDE DEF h
<1>4. /\ q \in Seq(Slots) /\ r \in Nat /\ n \in Nat /\ Len(q) = r + n
      /\ rob \in Seq(Slots) /\ dec.buf \in Seq(Slots)
      /\ \A i \in 1 .. r + n : q[i] = IF i <= r THEN rob[i] ELSE dec.buf[0 + (i - r)]
      /\ RangeOf(q) = RangeOf(rob) \cup Held
      /\ RangeOf(supply) \cap RangeOf(q) = {}
      /\ Once(supply)
  <2>1. /\ q \in Seq(Slots) /\ r \in Nat /\ n \in Nat /\ Len(q) = r + (n - dec.sent)
        /\ rob \in Seq(Slots) /\ dec.buf \in Seq(Slots)
        /\ \A i \in 1 .. Len(q) : q[i] = IF i <= r THEN rob[i] ELSE dec.buf[dec.sent + (i - r)]
    BY OrderIs
  <2>2. r + (n - dec.sent) = r + n
    BY <1>1, <2>1
  <2> QED BY <1>1, <2>1, <2>2, OnePlace
<1>5. /\ Len(dec'.buf) = n + 1 /\ dec'.buf[n + 1] = h
      /\ \A i \in 1 .. n : dec'.buf[i] = dec.buf[i]
      /\ dec'.buf \in Seq(Slots)
  BY <1>2, <1>3, <1>4, AppendProperties
<1>6. /\ q' \in Seq(Slots) /\ Len(q') = r + (n + 1)
      /\ \A i \in 1 .. r + (n + 1) : q'[i] =
           IF i <= r THEN rob[i] ELSE dec'.buf[0 + (i - r)]
  <2>1. /\ q' \in Seq(Slots) /\ Len(q') = Len(rob') + (Len(dec.buf)' - dec.sent')
        /\ \A i \in 1 .. Len(q') : q'[i] =
             IF i <= Len(rob') THEN rob'[i] ELSE dec.buf'[dec.sent' + (i - Len(rob'))]
    BY OrderNext
  <2>2. Len(rob') + (Len(dec.buf)' - dec.sent') = r + (n + 1)
    BY <1>1, <1>2, <1>4, <1>5
  <2> QED BY <1>1, <1>2, <2>1, <2>2
<1>7. q' = Append(q, h)
  <2>1. /\ Append(q, h) \in Seq(Slots) /\ Len(Append(q, h)) = (r + n) + 1
        /\ \A i \in 1 .. r + n : Append(q, h)[i] = q[i]
        /\ Append(q, h)[(r + n) + 1] = h
    BY <1>3, <1>4, AppendProperties
  <2>2. r + (n + 1) = (r + n) + 1
    BY <1>4
  <2>3. ASSUME NEW i \in 1 .. (r + n) + 1 PROVE q'[i] = Append(q, h)[i]
    <3>1. CASE i = (r + n) + 1
      <4>1. ~(i <= r) /\ 0 + (i - r) = n + 1
        BY <1>4, <3>1
      <4> QED BY <1>5, <1>6, <2>1, <2>2, <3>1, <4>1
    <3>2. CASE i # (r + n) + 1
      <4>1. i \in 1 .. r + n /\ (~(i <= r) => 0 + (i - r) \in 1 .. n)
        BY <1>4, <3>2
      <4>2. Append(q, h)[i] = q[i]
        BY <2>1, <4>1
      <4>3. q'[i] = IF i <= r THEN rob[i] ELSE dec'.buf[0 + (i - r)]
        BY <1>6, <2>2
      <4> QED BY <1>4, <1>5, <4>1, <4>2, <4>3
    <3> QED BY <3>1, <3>2
  <2> QED BY <1>6, <2>1, <2>2, <2>3, SeqEqual
<1>8. \A s, t : Before(s, t)' <=> Before(s, t) \/ (s \in RangeOf(rob) \cup Held /\ t = h)
  BY <1>3, <1>4, <1>7, OrderOfAppend DEF Before
<1>9. Held = RangeOf(dec.buf) /\ Held' = RangeOf(dec'.buf)
  <2>1. Held = RangeOf(dec.buf)
    BY <1>1, <1>4, RangeOfSequence DEF Held
  <2>2. Held' = {dec'.buf[j] : j \in 1 .. Len(dec'.buf)}
    BY <1>2 DEF Held
  <2>3. RangeOf(dec'.buf) = {dec'.buf[j] : j \in 1 .. Len(dec'.buf)}
    BY <1>5, RangeOfSequence
  <2> QED BY <2>1, <2>2, <2>3
<1>10. Held' = Held \cup {h}
  BY <1>2, <1>3, <1>4, <1>9, RangeAppend
<1>11. h \notin RangeOf(supply')
  BY <1>1, <1>3, <1>4, OrderOfTail DEF h
<1>12. Decoded = RangeOf(rob) /\ Decoded' = Decoded
  BY <1>1, <1>2 DEF Decoded
<1> QED BY <1>1, <1>2, <1>3, <1>4, <1>8, <1>10, <1>11, <1>12 DEF h

\* Dispatch moves the boundary between the reorder buffer and the decoder.
LEMMA DispatchFrame ==
    ASSUME TypeInv, ConsInv, Dispatch, TypeInv', ConsInv'
    PROVE  LET s == NextUop IN
           /\ s \in Held /\ s \notin RangeOf(rob) /\ s \in Decoded
           /\ RangeOf(rob') = RangeOf(rob) \cup {s} /\ Held' = Held \ {s}
           /\ Decoded' = Decoded
           /\ rob' # <<>> /\ (rob # <<>> => Head(rob') = Head(rob))
           /\ \A x, y : Before(x, y)' <=> Before(x, y)
<1> DEFINE s == NextUop
           q == ProgramOrder
           r == Len(rob)
           n == Len(dec.buf)
           k == dec.sent
<1>1. /\ rob' = Append(rob, s) /\ s = dec.buf[k + 1]
      /\ dec.state = "dispatch" /\ k < n /\ n = Required /\ s \in Slots
  BY NextUopType DEF Dispatch, NextUop, TypeInv, DecoderConsistent
<1> HIDE DEF s
<1>2. /\ q \in Seq(Slots) /\ r \in Nat /\ n \in Nat /\ k \in Nat
      /\ Len(q) = r + (n - k) /\ rob \in Seq(Slots) /\ dec.buf \in Seq(Slots)
      /\ \A i \in 1 .. r + (n - k) : q[i] = IF i <= r THEN rob[i] ELSE dec.buf[k + (i - r)]
      /\ RangeOf(q) = RangeOf(rob) \cup Held
      /\ RangeOf(rob) \cap Held = {}
      /\ Once(q)
  BY OrderIs, OnePlace
<1>3. /\ rob' \in Seq(Slots) /\ Len(rob') = r + 1 /\ rob'[r + 1] = s
      /\ \A i \in 1 .. r : rob'[i] = rob[i]
      /\ RangeOf(rob') = RangeOf(rob) \cup {s}
  BY <1>1, <1>2, AppendProperties, RangeAppend
<1>4. \/ k + 1 = n /\ dec' = IdleDecoder
      \/ /\ k + 1 < n /\ dec'.buf = dec.buf /\ dec'.sent = k + 1
         /\ dec'.state = "dispatch"
  <2>1. CASE k + 1 = Required
    BY <1>1, <2>1 DEF Dispatch
  <2>2. CASE k + 1 # Required
    <3>1. dec' = [dec EXCEPT !.sent = k + 1]
      BY <2>2 DEF Dispatch
    <3>2. dec'.buf = dec.buf /\ dec'.sent = k + 1 /\ dec'.state = "dispatch"
      BY <1>1, <3>1 DEF TypeInv, TypeOK
    <3> QED BY <1>1, <1>2, <2>2, <3>2
  <2> QED BY <2>1, <2>2
<1>5. /\ q' \in Seq(Slots) /\ Len(q') = r + (n - k)
      /\ \A i \in 1 .. r + (n - k) : q'[i] = q[i]
  <2>1. /\ q' \in Seq(Slots) /\ Len(q') = Len(rob') + (Len(dec.buf)' - dec.sent')
        /\ \A i \in 1 .. Len(q') : q'[i] =
             IF i <= Len(rob') THEN rob'[i] ELSE dec.buf'[dec.sent' + (i - Len(rob'))]
    BY OrderNext
  <2>2. Len(rob') + (Len(dec.buf)' - dec.sent') = r + (n - k)
    <3>1. CASE k + 1 = n /\ dec' = IdleDecoder
      <4>1. Len(dec.buf)' = 0 /\ dec.sent' = 0
        BY <3>1 DEF IdleDecoder
      <4>2. Len(rob') + (0 - 0) = r + (n - k)
        BY <1>2, <1>3, <3>1
      <4> QED BY <4>1, <4>2
    <3>2. CASE k + 1 < n /\ dec'.buf = dec.buf /\ dec'.sent = k + 1
      <4>1. (r + 1) + (n - (k + 1)) = r + (n - k)
        BY <1>2
      <4> QED BY <1>3, <3>2, <4>1
    <3> QED BY <1>4, <3>1, <3>2
  <2>3. ASSUME NEW i \in 1 .. r + (n - k) PROVE q'[i] = q[i]
    <3>1. q[i] = IF i <= r THEN rob[i] ELSE dec.buf[k + (i - r)]
      BY <1>2
    <3>2. q'[i] = IF i <= r + 1 THEN rob'[i]
                  ELSE dec.buf'[dec.sent' + (i - (r + 1))]
      BY <1>3, <2>1, <2>2
    <3>3. CASE i <= r
      <4>1. i \in 1 .. r /\ i <= r + 1
        BY <1>2, <3>3
      <4> QED BY <1>3, <3>1, <3>2, <3>3, <4>1
    <3>4. CASE i = r + 1
      <4>1. ~(i <= r) /\ i <= r + 1 /\ k + (i - r) = k + 1
        BY <1>2, <3>4
      <4> QED BY <1>1, <1>3, <3>1, <3>2, <3>4, <4>1
    <3>5. CASE i > r + 1
      <4>1. ~(i <= r) /\ ~(i <= r + 1) /\ k + 1 # n /\ (k + 1) + (i - (r + 1)) = k + (i - r)
        <5>1. r \in Int /\ n \in Int /\ k \in Int /\ i \in Int /\ i <= r + (n - k)
          BY <1>2
        <5> HIDE DEF r, n, k, q
        <5> QED BY <3>5, <5>1
      <4> QED BY <1>4, <3>1, <3>2, <4>1
    <3>6. i <= r \/ i = r + 1 \/ i > r + 1
      <4>1. r \in Int /\ i \in Int
        BY <1>2
      <4> HIDE DEF r, n, k, q
      <4> QED BY <4>1
    <3> QED BY <3>3, <3>4, <3>5, <3>6
  <2> QED BY <2>1, <2>2, <2>3
<1>6. q' = q
  BY <1>2, <1>5, SeqEqual
<1>7. \A x, y : Before(x, y)' <=> Before(x, y)
  BY <1>6 DEF Before
<1>8. s \in Held
  <2>1. k + 1 \in k + 1 .. n
    BY <1>1, <1>2
  <2> QED BY <1>1, <2>1 DEF Held
<1>9. Held' = Held \ {s}
  <2>1. RangeOf(q') = RangeOf(rob') \cup Held' /\ RangeOf(rob') \cap Held' = {}
    BY OnePlaceNext
  <2> QED BY <1>2, <1>3, <1>6, <1>8, <2>1
<1>10. Decoded' = Decoded
  <2>1. Decoded = RangeOf(rob) \cup Held
    BY <1>1 DEF Decoded
  <2>2. CASE dec' = IdleDecoder
    <3>1. dec'.state # "dispatch" /\ Held' = {}
      BY <2>2 DEF IdleDecoder, Held
    <3> QED BY <1>3, <1>8, <1>9, <2>1, <3>1 DEF Decoded
  <2>3. CASE dec'.state = "dispatch"
    BY <1>3, <1>8, <1>9, <2>1, <2>3 DEF Decoded
  <2> QED BY <1>4, <2>2, <2>3
<1>11. rob' # <<>> /\ (rob # <<>> => Head(rob') = Head(rob))
  <2>1. rob' # <<>>
    BY <1>2, <1>3, EmptySeq
  <2>2. ASSUME rob # <<>> PROVE Head(rob') = Head(rob)
    <3>1. 1 \in 1 .. r
      BY <1>2, <2>2, EmptySeq
    <3> QED BY <1>2, <1>3, <2>1, <2>2, <3>1
  <2> QED BY <2>1, <2>2
<1>12. s \in Decoded
  BY <1>1, <1>8 DEF Decoded
<1> QED BY <1>2, <1>3, <1>7, <1>8, <1>9, <1>10, <1>11, <1>12 DEF s

\* The slots of the instruction in the decoder are in program order.
LEMMA DecodeFrame ==
    ASSUME TypeInv, ConsInv, dec.state = "allocate", Len(dec.buf) = Required
    PROVE  /\ Decoded = RangeOf(rob) /\ dec.sent = 0
           /\ Required \in Nat /\ Required > 0
           /\ Held = {dec.buf[i] : i \in 1 .. Required}
           /\ RangeOf(dec.buf) = Held
           /\ \A i, j \in 1 .. Required :
                /\ dec.buf[i] = dec.buf[j] => i = j
                /\ i < j => Before(dec.buf[i], dec.buf[j])
<1> DEFINE b == dec.buf
           n == Required
           q == ProgramOrder
           r == Len(rob)
<1>1. dec.sent = 0 /\ b \in Seq(Slots) /\ n \in Nat /\ n > 0 /\ Len(b) = n
  BY TemplateAssumption, LenProperties
  DEF TypeInv, TypeOK, DecoderConsistent, IsTemplate, Required
<1>2. Decoded = RangeOf(rob)
  BY DEF Decoded
<1>3. Held = {b[i] : i \in 1 .. n} /\ RangeOf(b) = Held
  <2>1. 0 + 1 .. n = 1 .. n
    OBVIOUS
  <2> QED BY <1>1, <2>1, RangeOfSequence DEF Held
<1> HIDE DEF n
<1>4. /\ r \in Nat /\ Len(q) = r + (n - 0)
      /\ \A i \in 1 .. Len(q) : q[i] = IF i <= r THEN rob[i] ELSE b[0 + (i - r)]
      /\ Once(q)
  BY <1>1, OrderIs, OnePlace
<1>5. ASSUME NEW i \in 1 .. n PROVE r + i \in 1 .. Len(q) /\ q[r + i] = b[i]
  <2>1. r + i \in 1 .. Len(q) /\ ~(r + i <= r) /\ 0 + ((r + i) - r) = i
    BY <1>1, <1>4
  <2> QED BY <1>4, <2>1
<1>6. \A i, j \in 1 .. n : b[i] = b[j] => i = j
  <2> SUFFICES ASSUME NEW i \in 1 .. n, NEW j \in 1 .. n, b[i] = b[j] PROVE i = j
    OBVIOUS
  <2>1. r + i = r + j
    BY <1>4, <1>5 DEF Once
  <2> QED BY <1>1, <1>4, <2>1
<1>7. \A i, j \in 1 .. n : i < j => Before(b[i], b[j])
  <2> SUFFICES ASSUME NEW i \in 1 .. n, NEW j \in 1 .. n, i < j PROVE Before(b[i], b[j])
    OBVIOUS
  <2>1. r + i < r + j
    BY <1>1, <1>4
  <2> QED BY <1>5, <2>1 DEF Before, Precedes
<1> QED BY <1>1, <1>2, <1>3, <1>6, <1>7 DEF n
-----------------------------------------------------------------------------
\* What a step keeps when it changes little.

\* Counted is a set of slots.
LEMMA CountedFinite ==
    TypeInv /\ ConsInv =>
      /\ Counted \subseteq Slots
      /\ IsFiniteSet(Counted) /\ Cardinality(Counted) \in Nat
      /\ Cardinality(Counted) <= Cardinality(Slots)
      /\ Cardinality(Slots) \in Nat
<1> SUFFICES ASSUME TypeInv, ConsInv
             PROVE  /\ Counted \subseteq Slots
                    /\ IsFiniteSet(Counted) /\ Cardinality(Counted) \in Nat
                    /\ Cardinality(Counted) <= Cardinality(Slots)
                    /\ Cardinality(Slots) \in Nat
  OBVIOUS
<1>1. Counted \subseteq Slots
  BY Order, DecodedPlace DEF Counted
<1> QED BY <1>1, SlotAssumption, FS_Subset, FS_CardinalityType

\* The same after a step.
LEMMA CountedFiniteNext ==
    TypeInv' /\ ConsInv' =>
      /\ Counted' \subseteq Slots
      /\ IsFiniteSet(Counted') /\ Cardinality(Counted') \in Nat
      /\ Cardinality(Counted') <= Cardinality(Slots)
<1> DEFINE F == /\ Counted \subseteq Slots
                /\ IsFiniteSet(Counted) /\ Cardinality(Counted) \in Nat
                /\ Cardinality(Counted) <= Cardinality(Slots)
<1>1. TypeInv /\ ConsInv => F
  BY CountedFinite
<1> HIDE DEF F
<1>2. TypeInv' /\ ConsInv' => F'
  BY <1>1, PTL
<1> QED BY <1>2 DEF F

\* Nothing new to count.
LEMMA CountSame ==
    ASSUME TypeInv, ConsInv, TypeInv', ConsInv', CountInv,
           Counted' \subseteq Counted, numBranches' = numBranches
    PROVE  CountInv'
<1>1. /\ IsFiniteSet(Counted) /\ Cardinality(Counted) \in Nat
      /\ Cardinality(Counted') \in Nat /\ numBranches \in Nat
  BY CountedFinite, CountedFiniteNext DEF TypeInv, TypeOK
<1>2. Cardinality(Counted') <= Cardinality(Counted)
  BY <1>1, FS_Subset
<1> QED BY <1>1, <1>2 DEF CountInv

\* Nothing new on or off the path.
LEMMA PathSame ==
    ASSUME PathInv, mis' = mis, Decoded' = Decoded,
           \A s, t \in Decoded : Before(s, t)' <=> Before(s, t),
           dec'.state = "dispatch" =>
             dec.state = "dispatch" /\ Held' \subseteq Held /\ Held \subseteq Decoded,
           \A s \in Decoded : /\ uop'[s].pstate = uop[s].pstate
                              /\ uop'[s].event = uop[s].event
                              /\ uop'[s].foresight = uop[s].foresight
                              /\ uop'[s].type = uop[s].type
    PROVE  PathInv'
<1>1. \A s \in Decoded : Diverts(s)' <=> Diverts(s)
  BY DEF Diverts, Executed, Flushing
<1>2. (mis <=> \E s \in Decoded : Diverts(s))'
  BY <1>1 DEF PathInv
<1>3. (\A s, t \in Decoded : Diverts(s) /\ Diverts(t) => s = t)'
  BY <1>1 DEF PathInv
<1>4. (\A s \in Decoded : uop[s].pstate = "INVALID" =>
         \E t \in Decoded : Diverts(t) /\ Before(t, s))'
  BY <1>1 DEF PathInv
<1>5. (\A s, t \in Decoded : Diverts(t) /\ uop[t].event # "exception" /\ Before(t, s)
         => uop[s].pstate = "INVALID")'
  BY <1>1 DEF PathInv
<1>6. (\A s \in Decoded :
         /\ uop[s].pstate # "UNSET"
         /\ uop[s].pstate = "CAN_FLUSH" => uop[s].type = "BRANCH" /\ uop[s].event = "none")'
  BY DEF PathInv
<1>7. (dec.state = "dispatch" => \A s \in Held :
         uop[s].pstate = "CAN_FLUSH" => ~uop[s].foresight)'
  BY DEF PathInv
<1> QED BY <1>2, <1>3, <1>4, <1>5, <1>6, <1>7 DEF PathInv

\* No dependence made or resolved.
LEMMA DataSame ==
    ASSUME LinkInv, CrossInv, RegInv, NeedInv,
           links' = links, regs' = regs, writer' = writer, mis' = mis,
           Decoded' = Decoded,
           \A s, t \in Decoded : Before(s, t)' <=> Before(s, t),
           \A s \in Decoded :
             /\ uop'[s].type = uop[s].type /\ uop'[s].depN = uop[s].depN
             /\ uop'[s].resolved = uop[s].resolved
             /\ uop'[s].ins = uop[s].ins /\ uop'[s].needs = uop[s].needs
             /\ uop'[s].status = "READY" => uop[s].status = "READY" \/ uop[s].type = "NONE"
             /\ LinksTo(s) # {} => uop'[s].status \in {"DECODING", "WAIT_DEP"}
             /\ uop'[s].status = "WAIT_DEP" => LinksTo(s) # {}
    PROVE  LinkInv' /\ CrossInv' /\ RegInv' /\ NeedInv'
<1>1. \A s : LinksTo(s)' = LinksTo(s)
  BY DEF LinksTo
<1>2. \A l \in links : /\ {l.src, l.dst} \subseteq Decoded /\ LinksTo(l.dst) # {}
                       /\ Before(l.src, l.dst)'
  BY DEF LinkInv, LinksTo
<1>3. LinkInv'
  <2>1. (\A l \in links :
           /\ {l.src, l.dst} \subseteq Decoded
           /\ Before(l.src, l.dst)
           /\ uop[l.src].type # "NONE" /\ uop[l.dst].type # "NONE"
           /\ uop[l.src].status # "READY"
           /\ uop[l.dst].status \in {"DECODING", "WAIT_DEP"})'
    BY <1>2 DEF LinkInv
  <2>2. (\A s \in Decoded :
           /\ uop[s].depN = uop[s].resolved + Cardinality(LinksTo(s))
           /\ uop[s].status = "WAIT_DEP" => LinksTo(s) # {}
           /\ \A l \in uop[s].ins : l.dst = s)'
    BY <1>1 DEF LinkInv
  <2> QED BY <2>1, <2>2 DEF LinkInv
<1>4. CrossInv'
  BY <1>2 DEF CrossInv
<1>5. RegInv'
  BY DEF RegInv
<1>6. NeedInv'
  BY <1>1 DEF NeedInv
<1> QED BY <1>3, <1>4, <1>5, <1>6

\* A step of a uop from one status to another changes no other field.
LEMMA StatusChange ==
    ASSUME TypeInv, NEW s \in Slots, NEW st,
           uop' = [uop EXCEPT ![s].status = st]
    PROVE  /\ \A d \in Slots :
                /\ uop'[d].status = IF d = s THEN st ELSE uop[d].status
                /\ uop'[d].type = uop[d].type /\ uop'[d].depN = uop[d].depN
                /\ uop'[d].resolved = uop[d].resolved
                /\ uop'[d].ins = uop[d].ins /\ uop'[d].needs = uop[d].needs
                /\ uop'[d].pstate = uop[d].pstate /\ uop'[d].event = uop[d].event
                /\ uop'[d].foresight = uop[d].foresight
           /\ \A d \in Slots : d # s => uop'[d] = uop[d]
<1>1. uop \in [Slots -> Uop]
  BY DEF TypeInv, TypeOK
<1> DEFINE v == [uop[s] EXCEPT !.status = st]
<1>2. uop'[s] = v /\ \A d \in Slots : d # s => uop'[d] = uop[d]
  BY <1>1
<1>3. uop[s] \in Uop
  BY <1>1
<1>4. /\ v.status = st
      /\ v.type = uop[s].type /\ v.depN = uop[s].depN /\ v.resolved = uop[s].resolved
      /\ v.ins = uop[s].ins /\ v.needs = uop[s].needs
      /\ v.pstate = uop[s].pstate /\ v.event = uop[s].event
      /\ v.foresight = uop[s].foresight
  BY <1>3 DEF Uop
<1> HIDE DEF v
<1> QED BY <1>2, <1>4

-----------------------------------------------------------------------------
\* The initial states, and the steps that change little.

\* Initially nothing is in flight.
LEMMA FlightInit == Init => FlightInv
<1> SUFFICES ASSUME Init PROVE FlightInv
  OBVIOUS
<1>1. RangeOf(rob) = {} /\ Held = {} /\ Decoded = {} /\ dec.state = "idle"
  BY EmptyHeld DEF Init, Decoded, IdleDecoder
<1>2. RangeOf(supply) \subseteq Slots
  BY DEF Init
<1>3. /\ links = {} /\ rsq = {} /\ lsq = {} /\ ~mis /\ numBranches = 0
      /\ wbFlusher = NoSlot /\ ~writeReady
      /\ \A s \in Slots : uop[s] = FreeUop
      /\ \A u \in 1 .. Units : fu[u] = NoSlot
      /\ \A r \in Regs : regs[r] = NoSlot
      /\ writer = regs
  BY DEF Init, NoSlots
<1>4. StatusInv
  BY <1>1, <1>2, <1>3 DEF StatusInv
<1>5. QueueInv
  BY <1>1, <1>3 DEF QueueInv
<1>6. UnitInv
  BY <1>3 DEF UnitInv, FreeUop
<1>7. LinkInv /\ CrossInv /\ RegInv /\ NeedInv /\ StoreInv
  BY <1>1, <1>3 DEF LinkInv, CrossInv, RegInv, NeedInv, StoreInv
<1>8. PathInv /\ TypesInv /\ FlusherInv
  BY <1>1, <1>3 DEF PathInv, TypesInv, FlusherInv
<1>9. CountInv
  <2>1. Counted = {}
    BY <1>1 DEF Counted
  <2> QED BY <1>3, <2>1, FS_EmptySet DEF CountInv
<1> QED BY <1>4, <1>5, <1>6, <1>7, <1>8, <1>9 DEF FlightInv

\* A flush of the whole pipeline.
LEMMA FlightFlush ==
    ASSUME TypeInv, ConsInv, FlushPipeline, TypeInv', ConsInv'
    PROVE  FlightInv'
<1>1. /\ RangeOf(rob') = {} /\ Held' = {} /\ Decoded' = {} /\ dec'.state = "idle"
      /\ RangeOf(supply') \subseteq Slots
  BY FlushFrame DEF IdleDecoder
<1>2. /\ links' = {} /\ rsq' = {} /\ lsq' = {} /\ ~mis' /\ numBranches' = 0
      /\ wbFlusher' = NoSlot /\ ~writeReady'
      /\ \A s \in Slots : uop'[s] = FreeUop
      /\ \A u \in 1 .. Units : fu'[u] = NoSlot
      /\ \A r \in Regs : regs'[r] = NoSlot
      /\ writer' = regs'
  BY DEF FlushPipeline, UnitsFlushed, NoSlots
<1>3. StatusInv'
  BY <1>1, <1>2 DEF StatusInv
<1>4. QueueInv'
  BY <1>1, <1>2 DEF QueueInv
<1>5. UnitInv'
  BY <1>2 DEF UnitInv, FreeUop
<1>6. LinkInv' /\ CrossInv' /\ RegInv' /\ NeedInv' /\ StoreInv'
  BY <1>1, <1>2 DEF LinkInv, CrossInv, RegInv, NeedInv, StoreInv
<1>7. PathInv' /\ TypesInv' /\ FlusherInv'
  BY <1>1, <1>2 DEF PathInv, TypesInv, FlusherInv
<1>8. CountInv'
  <2>1. Counted' = {}
    BY <1>1 DEF Counted
  <2> QED BY <1>2, <2>1, FS_EmptySet DEF CountInv
<1> QED BY <1>3, <1>4, <1>5, <1>6, <1>7, <1>8 DEF FlightInv

\* The steps that only move the stage, a counter of cycles or the machine; a
\* step that leaves the decoding stage has decided about every branch.
LEMMA FlightStill ==
    ASSUME TypeInv, ConsInv, FlightInv, TypeInv', ConsInv',
           UNCHANGED <<uop, links, regs, supply, rob, rsq, lsq, fu, writeReady,
                       mis, numBranches, wbFlusher, writer>>,
           dec' = dec \/ (dec.state = "idle" /\ dec'.state = "allocate"
                          /\ dec'.buf = dec.buf /\ dec'.sent = dec.sent),
           phase = "decode" => phase' = "decode" \/ dec.state # "dispatch"
    PROVE  FlightInv'
<1>1. dec'.buf = dec.buf /\ dec'.sent = dec.sent
  OBVIOUS
<1>2. dec'.state = "dispatch" <=> dec.state = "dispatch"
  OBVIOUS
<1>3. /\ RangeOf(rob') = RangeOf(rob) /\ Held' = Held
      /\ \A s, t : Before(s, t)' <=> Before(s, t)
  BY <1>1, SameOrder
<1>4. Decoded' = Decoded
  BY <1>2, <1>3 DEF Decoded
<1>5. dec'.state = "allocate" => dec.state = "allocate" \/ Held = {}
  <2>1. dec.state = "idle" => Held = {}
    BY EmptyHeld DEF TypeInv, DecoderConsistent
  <2> QED BY <2>1
<1>6. StatusInv'
  BY <1>2, <1>3, <1>5 DEF FlightInv, StatusInv
<1>7. QueueInv'
  BY <1>3 DEF FlightInv, QueueInv
<1>8. UnitInv'
  BY <1>3 DEF FlightInv, UnitInv
<1>9. LinkInv' /\ CrossInv' /\ RegInv' /\ NeedInv'
  <2>1. \A s \in Decoded :
          /\ LinksTo(s) # {} => uop[s].status \in {"DECODING", "WAIT_DEP"}
          /\ uop[s].status = "WAIT_DEP" => LinksTo(s) # {}
    BY DEF FlightInv, LinkInv, LinksTo
  <2> QED BY <1>3, <1>4, <2>1, DataSame DEF FlightInv
<1>10. StoreInv'
  BY <1>3 DEF FlightInv, StoreInv
<1>11. PathInv'
  <2>1. dec.state = "dispatch" => Held \subseteq Decoded
    BY DecodedPlace
  <2> QED BY <1>2, <1>3, <1>4, <2>1, PathSame DEF FlightInv
<1>12. TypesInv'
  BY <1>2 DEF FlightInv, TypesInv
<1>13. FlusherInv'
  BY <1>4 DEF FlightInv, FlusherInv
<1>14. CountInv'
  <2>1. Counted' \subseteq Counted
    <3> SUFFICES ASSUME NEW s \in Counted' PROVE s \in Counted
      OBVIOUS
    <3>1. /\ s \in Decoded /\ uop[s].type = "BRANCH" /\ Executed(s)
          /\ uop[s].status # "READY"
          /\ \/ s \in RangeOf(rob)
             \/ phase' # "decode"
             \/ s = wbFlusher
             \/ uop[s].status # "DECODING"
      BY <1>3, <1>4 DEF Counted, Executed
    <3>2. dec.state # "dispatch" => s \in RangeOf(rob)
      BY <3>1, DecodedPlace
    <3> QED BY <3>1, <3>2 DEF Counted
  <2> QED BY <2>1, CountSame DEF FlightInv
<1> QED BY <1>6, <1>7, <1>8, <1>9, <1>10, <1>11, <1>12, <1>13, <1>14 DEF FlightInv

\* A store at the head of the reorder buffer is told to issue.
LEMMA FlightCommitStops ==
    ASSUME TypeInv, ConsInv, FlightInv, CommitStops, TypeInv', ConsInv'
    PROVE  FlightInv'
<1>1. /\ UNCHANGED <<uop, links, regs, supply, rob, rsq, lsq, fu, dec, mis,
                     numBranches, wbFlusher, writer>>
      /\ phase = "commit" /\ phase' = "exec"
      /\ writeReady' = (writeReady \/ ArmsStore)
  BY DEF CommitStops, recovery
<1>2. /\ RangeOf(rob') = RangeOf(rob) /\ Held' = Held /\ Decoded' = Decoded
      /\ \A s, t : Before(s, t)' <=> Before(s, t)
  BY <1>1, SameOrder
<1>3. StatusInv' /\ QueueInv' /\ UnitInv' /\ TypesInv' /\ FlusherInv'
  BY <1>1, <1>2 DEF FlightInv, StatusInv, QueueInv, UnitInv, TypesInv, FlusherInv
<1>4. LinkInv' /\ CrossInv' /\ RegInv' /\ NeedInv'
  <2>1. \A s \in Decoded :
          /\ LinksTo(s) # {} => uop[s].status \in {"DECODING", "WAIT_DEP"}
          /\ uop[s].status = "WAIT_DEP" => LinksTo(s) # {}
    BY DEF FlightInv, LinkInv, LinksTo
  <2> QED BY <1>1, <1>2, <2>1, DataSame DEF FlightInv
<1>5. StoreInv'
  BY <1>1, <1>2 DEF FlightInv, StoreInv, ArmsStore, HeadIs
<1>6. PathInv'
  BY <1>1, <1>2, DecodedPlace, PathSame DEF FlightInv
<1>7. CountInv'
  <2>1. Counted' \subseteq Counted
    BY <1>1, <1>2 DEF Counted, Executed
  <2> QED BY <1>1, <2>1, CountSame DEF FlightInv
<1> QED BY <1>3, <1>4, <1>5, <1>6, <1>7 DEF FlightInv

\* The oldest uop leaves.  It has finished, so nothing waits for it and nothing
\* points to it.
LEMMA FlightCommit ==
    ASSUME TypeInv, ConsInv, FlightInv, Commit, TypeInv', ConsInv'
    PROVE  FlightInv'
<1> DEFINE h == Head(rob)
<1>1. /\ h \in RangeOf(rob) /\ h \notin Held /\ h \in Decoded
      /\ RangeOf(rob') = RangeOf(rob) \ {h} /\ Held' = Held
      /\ Decoded' = Decoded \ {h}
      /\ RangeOf(supply') = RangeOf(supply) \cup {h}
      /\ \A s, t : Before(s, t)' <=> Before(s, t) /\ s # h
      /\ \A s : ~Before(s, h)
      /\ RangeOf(rob) \cup Held \subseteq Slots
      /\ RangeOf(supply) \cap (RangeOf(rob) \cup Held) = {}
      /\ RangeOf(supply) \subseteq Slots
  <2>1. rob # <<>>
    BY DEF Commit, HeadIs
  <2>2. RangeOf(supply) \subseteq Slots
    BY RangeOfSequence DEF TypeInv, TypeOK
  <2> QED BY <2>1, <2>2, CommitFrame, Order, OnePlace, DecodedPlace
<1>2. /\ uop[h].status = "READY" /\ ~Flushing(h)
      /\ UNCHANGED <<phase, regs, rsq, lsq, fu, left, writeReady, dec, mis,
                     numBranches, wbFlusher, writer>>
      /\ links' = {l \in links : l.src # h}
      /\ uop' = [uop EXCEPT ![h] = FreeUop]
  BY DEF Commit, HeadIs, queues, recovery
<1> HIDE DEF h
<1>3. /\ \A s \in Slots : s # h => uop'[s] = uop[s]
      /\ uop'[h] = FreeUop
  BY <1>1, <1>2 DEF TypeInv, TypeOK
<1>4. links' = links /\ \A l \in links : l.src # h /\ l.dst # h
  BY <1>2 DEF FlightInv, LinkInv
<1>5. \A s \in Decoded' : s \in Decoded /\ s \in Slots /\ s # h /\ uop'[s] = uop[s]
  BY <1>1, <1>3, DecodedPlace
<1>6. StatusInv'
  <2>1. \A s \in RangeOf(supply') : uop'[s] = FreeUop
    BY <1>1, <1>3 DEF FlightInv, StatusInv
  <2>2. \A s \in RangeOf(rob') \cup Held' : uop'[s] = uop[s]
    BY <1>1, <1>3
  <2> QED BY <1>1, <1>2, <2>1, <2>2 DEF FlightInv, StatusInv
<1>7. QueueInv'
  BY <1>1, <1>2, <1>3 DEF FlightInv, QueueInv, Unfinished
<1>8. UnitInv'
  BY <1>1, <1>2, <1>3 DEF FlightInv, UnitInv, FreeUop
<1>9. LinkInv'
  <2>1. \A s : LinksTo(s)' = LinksTo(s)
    BY <1>4 DEF LinksTo
  <2>2. (\A l \in links :
           /\ {l.src, l.dst} \subseteq Decoded
           /\ Before(l.src, l.dst)
           /\ uop[l.src].type # "NONE" /\ uop[l.dst].type # "NONE"
           /\ uop[l.src].status # "READY"
           /\ uop[l.dst].status \in {"DECODING", "WAIT_DEP"})'
    <3> SUFFICES ASSUME NEW l \in links
                 PROVE  /\ {l.src, l.dst} \subseteq Decoded'
                        /\ Before(l.src, l.dst)'
                        /\ uop'[l.src].type # "NONE" /\ uop'[l.dst].type # "NONE"
                        /\ uop'[l.src].status # "READY"
                        /\ uop'[l.dst].status \in {"DECODING", "WAIT_DEP"}
      BY <1>4
    <3>1. l.src \in Decoded' /\ l.dst \in Decoded'
      BY <1>1, <1>4 DEF FlightInv, LinkInv
    <3> QED BY <1>1, <1>4, <1>5, <3>1 DEF FlightInv, LinkInv
  <2>3. (\A s \in Decoded :
           /\ uop[s].depN = uop[s].resolved + Cardinality(LinksTo(s))
           /\ uop[s].status = "WAIT_DEP" => LinksTo(s) # {}
           /\ \A l \in uop[s].ins : l.dst = s)'
    BY <1>5, <2>1 DEF FlightInv, LinkInv
  <2> QED BY <2>2, <2>3 DEF LinkInv
<1>10. CrossInv'
  BY <1>1, <1>4, <1>5 DEF FlightInv, CrossInv
<1>11. RegInv'
  BY <1>1, <1>2, <1>5 DEF FlightInv, RegInv
<1>12. NeedInv'
  <2>1. \A s : LinksTo(s)' = LinksTo(s)
    BY <1>4 DEF LinksTo
  <2> QED BY <1>2, <1>5, <2>1 DEF FlightInv, NeedInv
<1>13. StoreInv'
  <2>1. ~writeReady'
    BY <1>2 DEF FlightInv, StoreInv, h
  <2>2. \A s \in RangeOf(rob') : ~(uop'[s].type = "STORE" /\ uop'[s].status = "EXECUTING")
    BY <1>1, <1>3 DEF FlightInv, StoreInv, h
  <2> QED BY <2>1, <2>2 DEF StoreInv
<1>14. ~Diverts(h) /\ \A s \in Decoded' : Diverts(s)' <=> Diverts(s)
  BY <1>2, <1>5 DEF Diverts, Executed, Flushing
<1>15. PathInv'
  <2>1. (mis <=> \E s \in Decoded : Diverts(s))'
    BY <1>1, <1>2, <1>14 DEF FlightInv, PathInv
  <2>2. (\A s, t \in Decoded : Diverts(s) /\ Diverts(t) => s = t)'
    BY <1>5, <1>14 DEF FlightInv, PathInv
  <2>3. (\A s \in Decoded : uop[s].pstate = "INVALID" =>
           \E t \in Decoded : Diverts(t) /\ Before(t, s))'
    <3> SUFFICES ASSUME NEW s \in Decoded', uop'[s].pstate = "INVALID"
                 PROVE  \E t \in Decoded' : Diverts(t)' /\ Before(t, s)'
      OBVIOUS
    <3>1. PICK t \in Decoded : Diverts(t) /\ Before(t, s)
      BY <1>5 DEF FlightInv, PathInv
    <3>2. t # h /\ t \in Decoded'
      BY <1>1, <1>14, <3>1
    <3> QED BY <1>1, <1>14, <3>1, <3>2
  <2>4. (\A s, t \in Decoded : Diverts(t) /\ uop[t].event # "exception" /\ Before(t, s)
           => uop[s].pstate = "INVALID")'
    BY <1>1, <1>5, <1>14 DEF FlightInv, PathInv
  <2>5. (\A s \in Decoded :
           /\ uop[s].pstate # "UNSET"
           /\ uop[s].pstate = "CAN_FLUSH" =>
                uop[s].type = "BRANCH" /\ uop[s].event = "none")'
    BY <1>5 DEF FlightInv, PathInv
  <2>6. (dec.state = "dispatch" => \A s \in Held :
           uop[s].pstate = "CAN_FLUSH" => ~uop[s].foresight)'
    BY <1>1, <1>2, <1>3 DEF FlightInv, PathInv
  <2> QED BY <2>1, <2>2, <2>3, <2>4, <2>5, <2>6 DEF PathInv
<1>16. TypesInv'
  <2>1. dec.state = "dispatch" => \A j \in dec.sent + 1 .. Len(dec.buf) :
          dec.buf[j] \in Held
    BY DEF Held
  <2>2. dec.state = "dispatch" => \A j \in dec.sent + 1 .. Len(dec.buf) :
          uop'[dec.buf[j]] = uop[dec.buf[j]]
    BY <1>1, <1>3, <2>1
  <2> QED BY <1>2, <2>2 DEF FlightInv, TypesInv
<1>17. FlusherInv'
  <2>1. wbFlusher # NoSlot => wbFlusher # h
    BY <1>2 DEF FlightInv, FlusherInv, Flushing
  <2> QED BY <1>1, <1>2, <1>5, <2>1 DEF FlightInv, FlusherInv
<1>18. CountInv'
  <2>1. Counted' \subseteq Counted
    <3> SUFFICES ASSUME NEW s \in Counted' PROVE s \in Counted
      OBVIOUS
    <3>1. s \in Decoded' /\ uop'[s] = uop[s]
      BY <1>5 DEF Counted
    <3> QED BY <1>1, <1>2, <3>1 DEF Counted, Executed
  <2> QED BY <1>2, <2>1, CountSame DEF FlightInv
<1> QED BY <1>6, <1>7, <1>8, <1>9, <1>10, <1>11, <1>12, <1>13, <1>15, <1>16, <1>17,
           <1>18 DEF FlightInv

\* A uop in a queue is dispatched.
LEMMA QueuedPlace ==
    ASSUME TypeInv, ConsInv, FlightInv, NEW s \in rsq \cup lsq
    PROVE  /\ s \in RangeOf(rob) /\ s \in Slots /\ s \in Decoded
           /\ s \notin Held /\ s \notin RangeOf(supply)
           /\ s # NoSlot /\ uop[s].type # "NONE" /\ uop[s].status \in Unfinished
<1>1. s \in RangeOf(rob) /\ uop[s].status \in Unfinished /\ uop[s].type # "NONE"
  BY DEF FlightInv, QueueInv
<1> QED BY <1>1, Order, OnePlace, DecodedPlace, SlotAssumption

\* A uop whose operands have arrived goes to a unit.
LEMMA FlightIssue ==
    ASSUME TypeInv, ConsInv, FlightInv, TypeInv', ConsInv',
           NEW s \in rsq \cup lsq, uop[s].status = "DEP_READY", IssueTo(s), StoreInv'
    PROVE  FlightInv'
<1>1. PICK u \in 1 .. Units : fu[u] = NoSlot /\ fu' = [fu EXCEPT ![u] = s]
  BY DEF IssueTo, FreeUnits
<1>2. /\ uop' = [uop EXCEPT ![s].status = "EXECUTING"]
      /\ UNCHANGED <<phase, links, regs, supply, rob, rsq, lsq, dec, mis,
                     numBranches, wbFlusher, writer>>
  BY DEF IssueTo, recovery
<1>3. /\ s \in RangeOf(rob) /\ s \in Slots /\ s \in Decoded
      /\ s \notin Held /\ s \notin RangeOf(supply)
      /\ s # NoSlot /\ uop[s].type # "NONE"
  BY QueuedPlace
<1>4. /\ \A d \in Slots :
           /\ uop'[d].status = IF d = s THEN "EXECUTING" ELSE uop[d].status
           /\ uop'[d].type = uop[d].type /\ uop'[d].depN = uop[d].depN
           /\ uop'[d].resolved = uop[d].resolved
           /\ uop'[d].ins = uop[d].ins /\ uop'[d].needs = uop[d].needs
           /\ uop'[d].pstate = uop[d].pstate /\ uop'[d].event = uop[d].event
           /\ uop'[d].foresight = uop[d].foresight
      /\ \A d \in Slots : d # s => uop'[d] = uop[d]
  BY <1>2, <1>3, StatusChange
<1>5. /\ RangeOf(rob') = RangeOf(rob) /\ Held' = Held /\ Decoded' = Decoded
      /\ \A x, y : Before(x, y)' <=> Before(x, y)
  BY <1>2, SameOrder
<1>6. /\ RangeOf(rob) \cup Held \subseteq Slots /\ Decoded \subseteq Slots
      /\ RangeOf(supply) \subseteq Slots
  BY Order, DecodedPlace, RangeOfSequence DEF TypeInv, TypeOK
<1>7. StatusInv'
  <2>1. \A d \in RangeOf(supply) \cup Held : uop'[d] = uop[d]
    BY <1>3, <1>4, <1>6
  <2>2. \A d \in RangeOf(rob) : uop'[d].status \in Unfinished \cup {"READY"}
    BY <1>4, <1>6 DEF FlightInv, StatusInv, Unfinished
  <2>3. dec' = dec /\ RangeOf(supply') = RangeOf(supply)
    BY <1>2
  <2>4. FreeUop' = FreeUop
    BY DEF FreeUop
  <2>5. \A d \in RangeOf(supply') : uop'[d] = FreeUop'
    BY <2>1, <2>3, <2>4 DEF FlightInv, StatusInv
  <2>6. dec'.state = "dispatch" =>
          \A d \in Held' : uop'[d].status \in {"DECODING", "DEP_READY"}
    BY <1>5, <2>1, <2>3 DEF FlightInv, StatusInv
  <2>7. dec'.state = "allocate" =>
          \A d \in Held' : uop'[d] = [FreeUop EXCEPT !.status = "DECODING"]
    BY <1>5, <2>1, <2>3 DEF FlightInv, StatusInv
  <2> QED BY <1>5, <2>2, <2>4, <2>5, <2>6, <2>7 DEF StatusInv, Unfinished
<1>8. QueueInv'
  <2>1. \A d \in RangeOf(rob) :
          /\ uop'[d].type = uop[d].type
          /\ uop'[d].status \in Unfinished <=> uop[d].status \in Unfinished
          /\ d # s => uop'[d].status = uop[d].status
    BY <1>4, <1>6, QueuedPlace DEF Unfinished
  <2> QED BY <1>2, <1>3, <1>5, <2>1 DEF FlightInv, QueueInv
<1>9. UnitInv'
  <2>1. \A v \in 1 .. Units : fu'[v] = IF v = u THEN s ELSE fu[v]
    BY <1>1 DEF TypeInv, TypeOK
  <2>2. \A v \in 1 .. Units : fu[v] # s
    BY <1>3 DEF FlightInv, UnitInv
  <2>3. \A v \in 1 .. Units : fu[v] # NoSlot => fu[v] \in Slots
    BY <1>6 DEF FlightInv, UnitInv
  <2>4. \A v \in 1 .. Units : fu'[v] # NoSlot =>
          fu'[v] \in RangeOf(rob') /\ uop'[fu'[v]].status = "EXECUTING"
    BY <1>3, <1>4, <1>5, <2>1, <2>3 DEF FlightInv, UnitInv
  <2>5. \A d \in Slots : uop'[d].status = "EXECUTING" => \E v \in 1 .. Units : fu'[v] = d
    <3> SUFFICES ASSUME NEW d \in Slots, uop'[d].status = "EXECUTING"
                 PROVE  \E v \in 1 .. Units : fu'[v] = d
      OBVIOUS
    <3>1. CASE d = s
      BY <2>1, <3>1
    <3>2. CASE d # s
      <4>1. PICK v \in 1 .. Units : fu[v] = d
        BY <1>4, <3>2 DEF FlightInv, UnitInv
      <4>2. v # u
        BY <1>1, <1>6, <4>1, SlotAssumption
      <4> QED BY <2>1, <4>1, <4>2
    <3> QED BY <3>1, <3>2
  <2>6. \A v, w \in 1 .. Units : fu'[v] = fu'[w] /\ fu'[v] # NoSlot => v = w
    BY <2>1, <2>2 DEF FlightInv, UnitInv
  <2> QED BY <2>4, <2>5, <2>6 DEF UnitInv
<1>10. LinkInv' /\ CrossInv' /\ RegInv' /\ NeedInv'
  <2>1. \A d \in Decoded :
          /\ LinksTo(d) # {} => uop[d].status \in {"DECODING", "WAIT_DEP"}
          /\ uop[d].status = "WAIT_DEP" => LinksTo(d) # {}
    BY DEF FlightInv, LinkInv, LinksTo
  <2>2. \A d \in Decoded :
          /\ uop'[d].type = uop[d].type /\ uop'[d].depN = uop[d].depN
          /\ uop'[d].resolved = uop[d].resolved
          /\ uop'[d].ins = uop[d].ins /\ uop'[d].needs = uop[d].needs
          /\ uop'[d].status = "READY" => uop[d].status = "READY" \/ uop[d].type = "NONE"
          /\ LinksTo(d) # {} => uop'[d].status \in {"DECODING", "WAIT_DEP"}
          /\ uop'[d].status = "WAIT_DEP" => LinksTo(d) # {}
    BY <1>4, <1>6, <2>1
  <2> QED BY <1>2, <1>5, <2>2, DataSame DEF FlightInv
<1>11. PathInv'
  BY <1>2, <1>4, <1>5, <1>6, DecodedPlace, PathSame DEF FlightInv
<1>12. TypesInv'
  <2>1. dec.state = "dispatch" =>
          \A j \in dec.sent + 1 .. Len(dec.buf) : dec.buf[j] \in Slots
    BY <1>6 DEF Held
  <2> QED BY <1>2, <1>4, <2>1 DEF FlightInv, TypesInv
<1>13. FlusherInv'
  BY <1>2, <1>4, <1>5, <1>6 DEF FlightInv, FlusherInv
<1>14. CountInv'
  <2>1. Counted' \subseteq Counted
    <3> SUFFICES ASSUME NEW d \in Counted' PROVE d \in Counted
      OBVIOUS
    <3>1. d \in Decoded /\ d \in Slots
      BY <1>5, <1>6 DEF Counted
    <3> QED BY <1>2, <1>3, <1>4, <1>5, <3>1 DEF Counted, Executed
  <2> QED BY <1>2, <2>1, CountSame DEF FlightInv
<1> QED BY <1>7, <1>8, <1>9, <1>10, <1>11, <1>12, <1>13, <1>14 DEF FlightInv

\* A uop of the reservation-station queue is no store.
LEMMA FlightIssueRs ==
    ASSUME TypeInv, ConsInv, FlightInv, IssueRs, TypeInv', ConsInv'
    PROVE  FlightInv'
<1>1. PICK s \in rsq : uop[s].status = "DEP_READY" /\ IssueTo(s)
  BY DEF IssueRs, RsCandidates
<1>2. uop' = [uop EXCEPT ![s].status = "EXECUTING"] /\ rob' = rob /\ writeReady' = writeReady
  BY <1>1 DEF IssueTo, IssueRs
<1>3. s \in Slots /\ uop[s].type # "STORE"
  BY <1>1, QueuedPlace DEF FlightInv, QueueInv
<1>4. \A d \in Slots : uop'[d].type = uop[d].type /\ (d # s => uop'[d] = uop[d])
  BY <1>2, <1>3, StatusChange
<1>5. /\ RangeOf(rob) \subseteq Slots
      /\ rob # <<>> => Head(rob) \in Slots
  BY Order
<1>6. StoreInv'
  BY <1>2, <1>3, <1>4, <1>5 DEF FlightInv, StoreInv
<1> QED BY <1>1, <1>6, FlightIssue

\* A store issues only when the commit stage has found it at the head of the
\* reorder buffer.
LEMMA FlightIssueLs ==
    ASSUME TypeInv, ConsInv, FlightInv, IssueLs, TypeInv', ConsInv'
    PROVE  FlightInv'
<1>1. PICK s \in LsCandidates : IsOldest(s, LsCandidates) /\ IssueTo(s)
  BY DEF IssueLs
<1>2. /\ s \in lsq /\ uop[s].status = "DEP_READY"
      /\ uop[s].type = "STORE" => writeReady
  BY <1>1 DEF LsCandidates
<1>3. uop' = [uop EXCEPT ![s].status = "EXECUTING"] /\ rob' = rob /\ ~writeReady'
  BY <1>1 DEF IssueTo, IssueLs
<1>4. s \in RangeOf(rob) /\ s \in Slots /\ RangeOf(rob) \subseteq Slots
  BY <1>2, QueuedPlace, Order
<1>5. \A d \in Slots : uop'[d].type = uop[d].type /\ (d # s => uop'[d] = uop[d])
  BY <1>3, <1>4, StatusChange
<1>6. uop[s].type = "STORE" => s = Head(rob)
  <2> SUFFICES ASSUME uop[s].type = "STORE" PROVE s = Head(rob)
    OBVIOUS
  <2>1. rob # <<>> /\ uop[Head(rob)].type = "STORE" /\ uop[Head(rob)].status = "DEP_READY"
    BY <1>2 DEF FlightInv, StoreInv
  <2>2. Head(rob) \in RangeOf(rob)
    BY <2>1, Order
  <2>3. Head(rob) \in LsCandidates
    BY <1>2, <2>1, <2>2 DEF FlightInv, QueueInv, Unfinished, LsCandidates
  <2>4. Head(rob) = s \/ PositionOf(s) < PositionOf(Head(rob))
    BY <1>1, <2>3 DEF IsOldest
  <2>5. /\ rob \in Seq(Slots) /\ Len(rob) \in Nat /\ DOMAIN rob = 1 .. Len(rob)
        /\ Once(rob) /\ Head(rob) = rob[1] /\ Len(rob) > 0
    <3>1. /\ rob \in Seq(Slots) /\ Len(rob) \in Nat /\ DOMAIN rob = 1 .. Len(rob)
          /\ Head(rob) = rob[1] /\ Len(rob) > 0
      BY <2>1, LenProperties, EmptySeq DEF TypeInv, TypeOK
    <3>2. /\ Len(ProgramOrder) = Len(rob) + (Len(dec.buf) - dec.sent)
          /\ Len(dec.buf) - dec.sent \in Nat /\ Once(ProgramOrder)
          /\ \A i \in 1 .. Len(ProgramOrder) : i <= Len(rob) => ProgramOrder[i] = rob[i]
      BY OrderIs, OnePlace
    <3>3. \A i \in 1 .. Len(rob) : i \in 1 .. Len(ProgramOrder) /\ ProgramOrder[i] = rob[i]
      BY <3>1, <3>2
    <3>4. Once(rob)
      BY <3>2, <3>3 DEF Once
    <3> QED BY <3>1, <3>4
  <2>6. PositionOf(Head(rob)) = 1
    <3>1. 1 \in DOMAIN rob
      BY <2>5
    <3>2. PositionOf(Head(rob)) \in DOMAIN rob /\ rob[PositionOf(Head(rob))] = rob[1]
      BY <2>5, <3>1 DEF PositionOf
    <3> QED BY <2>5, <3>1, <3>2 DEF Once
  <2>7. PositionOf(s) \in DOMAIN rob
    <3>1. \E i \in DOMAIN rob : rob[i] = s
      BY <1>4 DEF RangeOf
    <3> QED BY <3>1 DEF PositionOf
  <2>8. ~(PositionOf(s) < 1)
    BY <2>5, <2>7
  <2> QED BY <2>4, <2>6, <2>8
<1>7. StoreInv'
  BY <1>3, <1>4, <1>5, <1>6 DEF FlightInv, StoreInv
<1> QED BY <1>1, <1>2, <1>7, FlightIssue

\* A slot from the supply, not decoded yet, is behind everything decoded.
LEMMA FlightAllocate ==
    ASSUME TypeInv, ConsInv, FlightInv, Allocate, TypeInv', ConsInv'
    PROVE  FlightInv'
<1> DEFINE h == Head(supply)
<1>1. /\ h \in RangeOf(supply) /\ h \notin RangeOf(rob) \cup Held
      /\ rob' = rob /\ Held' = Held \cup {h}
      /\ Decoded = RangeOf(rob) /\ Decoded' = Decoded
      /\ dec'.state = "allocate"
      /\ RangeOf(supply') \subseteq RangeOf(supply) \ {h}
      /\ \A s, t : Before(s, t)' <=> Before(s, t) \/ (s \in RangeOf(rob) \cup Held /\ t = h)
  BY AllocateFrame
<1>2. /\ UNCHANGED <<phase, links, regs, rsq, lsq, fu, writeReady, mis, numBranches,
                     wbFlusher, writer>>
      /\ uop' = [uop EXCEPT ![h].status = "DECODING"]
      /\ dec.state = "allocate"
  BY DEF Allocate, queues, recovery
<1>3. /\ RangeOf(rob) \cup Held \subseteq Slots /\ RangeOf(supply) \subseteq Slots
      /\ RangeOf(supply) \cap (RangeOf(rob) \cup Held) = {}
  BY Order, OnePlace, RangeOfSequence DEF TypeInv, TypeOK
<1> HIDE DEF h
<1>4. /\ \A d \in Slots : d # h => uop'[d] = uop[d]
      /\ uop'[h] = [FreeUop EXCEPT !.status = "DECODING"]
  <2>1. uop[h] = FreeUop /\ h \in Slots
    BY <1>1, <1>3 DEF FlightInv, StatusInv
  <2> QED BY <1>2, <2>1 DEF TypeInv, TypeOK
<1>5. \A d \in Decoded : d \in Slots /\ d # h /\ uop'[d] = uop[d]
  BY <1>1, <1>3, <1>4
<1>6. \A s, t \in Decoded : Before(s, t)' <=> Before(s, t)
  BY <1>1, <1>5
<1>7. StatusInv'
  <2>1. \A d \in RangeOf(supply') \cup RangeOf(rob) \cup Held : uop'[d] = uop[d]
    BY <1>1, <1>3, <1>4
  <2> QED BY <1>1, <1>2, <1>4, <2>1 DEF FlightInv, StatusInv
<1>8. QueueInv'
  BY <1>1, <1>2, <1>5 DEF FlightInv, QueueInv
<1>9. UnitInv'
  <2>1. uop'[h].status = "DECODING"
    BY <1>4 DEF FreeUop
  <2> QED BY <1>1, <1>2, <1>4, <1>5, <2>1 DEF FlightInv, UnitInv
<1>10. LinkInv' /\ CrossInv' /\ RegInv' /\ NeedInv'
  <2>1. \A d \in Decoded :
          /\ LinksTo(d) # {} => uop[d].status \in {"DECODING", "WAIT_DEP"}
          /\ uop[d].status = "WAIT_DEP" => LinksTo(d) # {}
    BY DEF FlightInv, LinkInv, LinksTo
  <2> QED BY <1>1, <1>2, <1>5, <1>6, <2>1, DataSame DEF FlightInv
<1>11. StoreInv'
  <2>1. rob # <<>> => Head(rob) \in Decoded
    BY <1>1, Order
  <2> QED BY <1>1, <1>2, <1>5, <2>1 DEF FlightInv, StoreInv
<1>12. PathInv'
  BY <1>1, <1>2, <1>5, <1>6, PathSame DEF FlightInv
<1>13. TypesInv' /\ FlusherInv'
  BY <1>1, <1>2, <1>5 DEF FlightInv, TypesInv, FlusherInv
<1>14. CountInv'
  <2>1. Counted' \subseteq Counted
    <3> SUFFICES ASSUME NEW d \in Counted' PROVE d \in Counted
      OBVIOUS
    <3>1. d \in Decoded /\ uop'[d] = uop[d]
      BY <1>1, <1>5 DEF Counted
    <3> QED BY <1>1, <1>2, <3>1 DEF Counted, Executed
  <2> QED BY <1>2, <2>1, CountSame DEF FlightInv
<1> QED BY <1>7, <1>8, <1>9, <1>10, <1>11, <1>12, <1>13, <1>14 DEF FlightInv

\* A branch is alone in the decoder.
LEMMA BranchAlone ==
    ASSUME TypeInv, FlightInv, dec.state = "dispatch",
           NEW x \in Held, uop[x].type = "BRANCH"
    PROVE  Held = {NextUop} /\ x = NextUop
<1>1. /\ dec.tmpl \in Templates /\ dec.sent < Len(dec.buf) /\ Len(dec.buf) = Required
      /\ dec.sent \in Nat /\ Len(dec.buf) \in Nat
      /\ dec.tmpl.types \in Seq(UopTypes)
  BY TemplateAssumption, LenProperties
  DEF TypeInv, TypeOK, DecoderConsistent, IsTemplate
<1>2. PICK j \in dec.sent + 1 .. Len(dec.buf) : x = dec.buf[j]
  BY DEF Held
<1>3. dec.tmpl.types[j] = "BRANCH"
  BY <1>2 DEF FlightInv, TypesInv
<1>4. j \in DOMAIN dec.tmpl.types
  BY <1>1, <1>2 DEF Required
<1>5. Required = 1
  BY <1>1, <1>3, <1>4, TemplateAssumption DEF Required
<1>6. Len(dec.buf) = 1 /\ dec.sent = 0
  BY <1>1, <1>5
<1>7. Held = {dec.buf[i] : i \in 1 .. 1} /\ NextUop = dec.buf[1]
  BY <1>6 DEF Held, NextUop
<1> QED BY <1>7

\* An attempt to dispatch a branch counts it, unless a mispredicted branch is
\* remembered: then it is that branch, which is counted already, or it was
\* decoded on the wrong path.
LEMMA CountAttempt ==
    ASSUME TypeInv, ConsInv, FlightInv, TypeInv', ConsInv',
           dec.state = "dispatch", phase = "decode", CountBranch(NextUop),
           NextUop \in Held,
           \A x \in Counted' : x \in Counted \/ (/\ x = NextUop /\ Executed(NextUop)
                                                 /\ uop[NextUop].type = "BRANCH")
    PROVE  CountInv'
<1> DEFINE s == NextUop
           f == wbFlusher
<1>1. /\ IsFiniteSet(Counted) /\ Cardinality(Counted) \in Nat
      /\ Cardinality(Counted') \in Nat /\ Cardinality(Slots) \in Nat
      /\ Cardinality(Counted') <= Cardinality(Slots)
      /\ numBranches \in Nat /\ MaxBranches \in Nat /\ MaxBranches > Cardinality(Slots)
      /\ numBranches >= Cardinality(Counted)
  BY CountedFinite, CountedFiniteNext, SizeAssumption
  DEF TypeInv, TypeOK, FlightInv, CountInv
<1>2. numBranches' = IF IsCounted(s) /\ numBranches < MaxBranches
                     THEN numBranches + 1 ELSE numBranches
  BY DEF CountBranch
<1> HIDE DEF s
<1>3. CASE f = NoSlot /\ uop[s].type = "BRANCH"
  <2>1. Cardinality(Counted') <= Cardinality(Counted) + 1
    <3>1. /\ IsFiniteSet(Counted \cup {s})
          /\ Cardinality(Counted \cup {s}) <= Cardinality(Counted) + 1
          /\ Cardinality(Counted \cup {s}) \in Nat
      <4>1. /\ IsFiniteSet(Counted \cup {s})
            /\ \/ Cardinality(Counted \cup {s}) = Cardinality(Counted)
               \/ Cardinality(Counted \cup {s}) = Cardinality(Counted) + 1
        BY <1>1, FS_AddElement
      <4>2. Cardinality(Counted \cup {s}) \in Nat
        BY <4>1, FS_CardinalityType
      <4> QED BY <1>1, <4>1, <4>2
    <3>2. Counted' \subseteq Counted \cup {s}
      BY DEF s
    <3>3. Cardinality(Counted') <= Cardinality(Counted \cup {s})
      BY <3>1, <3>2, FS_Subset
    <3> QED BY <1>1, <3>1, <3>3
  <2>2. IsCounted(s)
    BY <1>3 DEF IsCounted
  <2>3. numBranches' >= Cardinality(Counted')
    BY <1>1, <1>2, <2>1, <2>2
  <2> QED BY <2>3 DEF CountInv
<1>4. CASE f # NoSlot /\ uop[s].type = "BRANCH" /\ Executed(s)
  <2>1. s \in Decoded /\ uop[s].status # "READY" /\ Held = {s}
    BY <1>4, BranchAlone, DecodedPlace DEF s, FlightInv, StatusInv
  <2>2. f = s
    <3> SUFFICES ASSUME f # s PROVE FALSE
      OBVIOUS
    <3>1. f \in Decoded /\ uop[f].pstate = "CAN_FLUSH" /\ ~uop[f].foresight
      BY <1>4 DEF FlightInv, FlusherInv
    <3>2. f \in RangeOf(rob)
      BY <2>1, <3>1, DecodedPlace
    <3>3. Before(f, s)
      BY <2>1, <3>2, Order
    <3>4. Diverts(f) /\ uop[f].event # "exception"
      BY <3>1 DEF Diverts, Executed, Flushing, FlightInv, PathInv
    <3>5. uop[s].pstate = "INVALID"
      BY <2>1, <3>1, <3>3, <3>4 DEF FlightInv, PathInv
    <3> QED BY <1>4, <3>5 DEF Executed
  <2>3. s \in Counted
    BY <1>4, <2>1, <2>2 DEF Counted
  <2>4. Counted' \subseteq Counted
    BY <2>3 DEF s
  <2>5. numBranches' = numBranches
    BY <1>2, <1>4 DEF IsCounted
  <2> QED BY <2>4, <2>5, CountSame DEF FlightInv
<1>5. CASE uop[s].type # "BRANCH" \/ (f # NoSlot /\ ~Executed(s))
  <2>1. Counted' \subseteq Counted
    BY <1>5 DEF s
  <2>2. numBranches' = numBranches
    BY <1>2, <1>5 DEF IsCounted
  <2> QED BY <2>1, <2>2, CountSame DEF FlightInv
<1> QED BY <1>3, <1>4, <1>5

\* What wb_flusher becomes is a mispredicted branch.
LEMMA FlusherAttempt ==
    ASSUME FlightInv, dec.state = "dispatch", CountBranch(NextUop), NextUop \in Held,
           NextUop \in Decoded, Decoded' = Decoded,
           \A s \in Decoded : /\ uop'[s].pstate = uop[s].pstate
                              /\ uop'[s].foresight = uop[s].foresight
    PROVE  FlusherInv'
<1>1. wbFlusher' = IF wbFlusher = NoSlot /\ uop[NextUop].pstate = "CAN_FLUSH"
                   THEN NextUop ELSE wbFlusher
  BY DEF CountBranch
<1>2. uop[NextUop].pstate = "CAN_FLUSH" => ~uop[NextUop].foresight
  BY DEF FlightInv, PathInv
<1> QED BY <1>1, <1>2 DEF FlightInv, FlusherInv

\* A failed attempt to dispatch.
LEMMA FlightDispatchStops ==
    ASSUME TypeInv, ConsInv, FlightInv, DispatchStops, TypeInv', ConsInv'
    PROVE  FlightInv'
<1>1. /\ UNCHANGED <<uop, links, regs, supply, rob, rsq, lsq, fu, writeReady, dec,
                     mis, writer>>
      /\ phase = "decode" /\ dec.state = "dispatch" /\ CountBranch(NextUop)
  BY DEF DispatchStops, queues
<1>2. /\ RangeOf(rob') = RangeOf(rob) /\ Held' = Held /\ Decoded' = Decoded
      /\ \A s, t : Before(s, t)' <=> Before(s, t)
      /\ Decoded = RangeOf(rob) \cup Held
  BY <1>1, SameOrder, DecodedPlace
<1>3. NextUop \in Held
  <2>1. dec.sent + 1 \in dec.sent + 1 .. Len(dec.buf)
    BY <1>1, LenProperties DEF TypeInv, TypeOK, DecoderConsistent
  <2> QED BY <2>1 DEF Held, NextUop
<1>4. StatusInv' /\ QueueInv' /\ UnitInv' /\ TypesInv' /\ StoreInv'
  BY <1>1, <1>2 DEF FlightInv, StatusInv, QueueInv, UnitInv, TypesInv, StoreInv
<1>5. LinkInv' /\ CrossInv' /\ RegInv' /\ NeedInv'
  <2>1. \A s \in Decoded :
          /\ LinksTo(s) # {} => uop[s].status \in {"DECODING", "WAIT_DEP"}
          /\ uop[s].status = "WAIT_DEP" => LinksTo(s) # {}
    BY DEF FlightInv, LinkInv, LinksTo
  <2> QED BY <1>1, <1>2, <2>1, DataSame DEF FlightInv
<1>6. PathInv'
  BY <1>1, <1>2, PathSame DEF FlightInv
<1>7. FlusherInv'
  BY <1>1, <1>2, <1>3, FlusherAttempt
<1>8. CountInv'
  <2>1. ASSUME NEW x \in Counted', x \notin Counted
        PROVE  x = NextUop /\ Executed(NextUop) /\ uop[NextUop].type = "BRANCH"
    <3>1. /\ x \in Decoded /\ uop[x].type = "BRANCH" /\ Executed(x)
          /\ uop[x].status # "READY"
      BY <1>1, <1>2, <2>1 DEF Counted, Executed
    <3>2. x \in Held
      BY <1>2, <2>1, <3>1 DEF Counted
    <3> QED BY <1>1, <3>1, <3>2, BranchAlone
  <2> QED BY <1>1, <1>3, <2>1, CountAttempt
<1> QED BY <1>4, <1>5, <1>6, <1>7, <1>8 DEF FlightInv

\* A uop enters the reorder buffer and its queue.  It waits exactly when a link
\* leads to it.
LEMMA FlightDispatch ==
    ASSUME TypeInv, ConsInv, FlightInv, Dispatch, TypeInv', ConsInv'
    PROVE  FlightInv'
<1> DEFINE s == NextUop
           st == IF uop[s].type = "NONE" THEN "READY"
                 ELSE IF uop[s].resolved = uop[s].depN THEN "DEP_READY"
                 ELSE "WAIT_DEP"
<1>1. /\ s \in Held /\ s \notin RangeOf(rob) /\ s \in Decoded
      /\ RangeOf(rob') = RangeOf(rob) \cup {s} /\ Held' = Held \ {s}
      /\ Decoded' = Decoded
      /\ rob' # <<>> /\ (rob # <<>> => Head(rob') = Head(rob))
      /\ \A x, y : Before(x, y)' <=> Before(x, y)
  BY DispatchFrame
<1>2. /\ UNCHANGED <<phase, links, regs, supply, fu, writeReady, mis, writer>>
      /\ phase = "decode" /\ dec.state = "dispatch" /\ CountBranch(s)
      /\ uop' = [uop EXCEPT ![s].status = st]
      /\ lsq' = IF uop[s].type \in {"LOAD", "STORE"} THEN lsq \cup {s} ELSE lsq
      /\ rsq' = IF uop[s].type \in {"ALU", "BRANCH"} THEN rsq \cup {s} ELSE rsq
  BY DEF Dispatch
<1>3. /\ RangeOf(rob) \cup Held \subseteq Slots /\ RangeOf(supply) \subseteq Slots
      /\ RangeOf(supply) \cap (RangeOf(rob) \cup Held) = {}
      /\ Decoded = RangeOf(rob) \cup Held
  BY <1>2, Order, OnePlace, DecodedPlace, RangeOfSequence DEF TypeInv, TypeOK
<1>4. /\ dec'.state = "dispatch" => /\ dec'.buf = dec.buf /\ dec'.tmpl = dec.tmpl
                                    /\ dec'.sent = dec.sent + 1
      /\ dec'.state \in {"idle", "dispatch"}
  <2>1. CASE dec.sent + 1 = Required
    BY <2>1 DEF Dispatch, IdleDecoder
  <2>2. CASE dec.sent + 1 # Required
    <3>1. dec' = [dec EXCEPT !.sent = dec.sent + 1]
      BY <2>2 DEF Dispatch
    <3> QED BY <1>2, <3>1 DEF TypeInv, TypeOK
  <2> QED BY <2>1, <2>2
<1> HIDE DEF s, st
<1>5. /\ \A d \in Slots :
           /\ uop'[d].status = IF d = s THEN st ELSE uop[d].status
           /\ uop'[d].type = uop[d].type /\ uop'[d].depN = uop[d].depN
           /\ uop'[d].resolved = uop[d].resolved
           /\ uop'[d].ins = uop[d].ins /\ uop'[d].needs = uop[d].needs
           /\ uop'[d].pstate = uop[d].pstate /\ uop'[d].event = uop[d].event
           /\ uop'[d].foresight = uop[d].foresight
      /\ \A d \in Slots : d # s => uop'[d] = uop[d]
  <2>1. s \in Slots
    BY <1>1, <1>3
  <2> QED BY <1>2, <2>1, StatusChange
<1>6. /\ st \in {"READY", "DEP_READY", "WAIT_DEP"}
      /\ st = "READY" <=> uop[s].type = "NONE"
  BY DEF st
<1>7. StatusInv'
  <2>1. \A d \in RangeOf(supply) \cup RangeOf(rob) \cup Held' : uop'[d] = uop[d]
    BY <1>1, <1>3, <1>5
  <2>2. uop'[s].status \in Unfinished \cup {"READY"}
    BY <1>1, <1>3, <1>5, <1>6 DEF Unfinished
  <2> QED BY <1>1, <1>2, <1>4, <2>1, <2>2 DEF FlightInv, StatusInv
<1>8. QueueInv'
  <2>1. \A d \in RangeOf(rob) : uop'[d] = uop[d]
    BY <1>1, <1>3, <1>5
  <2>2. /\ uop'[s].type = uop[s].type
        /\ uop'[s].status \in Unfinished <=> uop[s].type # "NONE"
        /\ uop'[s].status = "READY" <=> uop[s].type = "NONE"
    BY <1>1, <1>3, <1>5, <1>6 DEF Unfinished
  <2>3. rsq' = {d \in RangeOf(rob') : /\ uop'[d].type \in {"ALU", "BRANCH"}
                                      /\ uop'[d].status \in Unfinished}
    BY <1>1, <1>2, <2>1, <2>2 DEF FlightInv, QueueInv
  <2>4. lsq' = {d \in RangeOf(rob') : /\ uop'[d].type \in {"LOAD", "STORE"}
                                      /\ uop'[d].status \in Unfinished}
    BY <1>1, <1>2, <2>1, <2>2 DEF FlightInv, QueueInv
  <2> QED BY <1>1, <2>1, <2>2, <2>3, <2>4 DEF FlightInv, QueueInv
<1>9. UnitInv'
  BY <1>1, <1>2, <1>3, <1>5, <1>6 DEF FlightInv, UnitInv
<1>10. LinkInv' /\ CrossInv' /\ RegInv' /\ NeedInv'
  <2>1. \A d \in Decoded :
          /\ LinksTo(d) # {} => uop[d].status \in {"DECODING", "WAIT_DEP"}
          /\ uop[d].status = "WAIT_DEP" => LinksTo(d) # {}
          /\ LinksTo(d) # {} => uop[d].type # "NONE"
    BY DEF FlightInv, LinkInv, LinksTo
  <2>2. uop[s].resolved = uop[s].depN <=> LinksTo(s) = {}
    <3>1. uop[s].depN = uop[s].resolved + Cardinality(LinksTo(s))
      BY <1>1 DEF FlightInv, LinkInv
    <3>2. LinksTo(s) \subseteq links
      BY DEF LinksTo
    <3>3. IsFiniteSet(LinksTo(s))
      BY <3>2, FS_Subset DEF TypeInv
    <3>4. /\ Cardinality(LinksTo(s)) \in Nat
          /\ Cardinality(LinksTo(s)) = 0 <=> LinksTo(s) = {}
      BY <3>3, FS_CardinalityType, FS_EmptySet
    <3>5. uop[s].resolved \in Nat
      BY <1>1, <1>3 DEF TypeInv, TypeOK, Uop
    <3> QED BY <3>1, <3>4, <3>5
  <2>3. \A d \in Decoded :
          /\ uop'[d].type = uop[d].type /\ uop'[d].depN = uop[d].depN
          /\ uop'[d].resolved = uop[d].resolved
          /\ uop'[d].ins = uop[d].ins /\ uop'[d].needs = uop[d].needs
          /\ uop'[d].status = "READY" => uop[d].status = "READY" \/ uop[d].type = "NONE"
          /\ LinksTo(d) # {} => uop'[d].status \in {"DECODING", "WAIT_DEP"}
          /\ uop'[d].status = "WAIT_DEP" => LinksTo(d) # {}
    BY <1>3, <1>5, <1>6, <2>1, <2>2 DEF st
  <2> QED BY <1>1, <1>2, <2>3, DataSame DEF FlightInv
<1>11. StoreInv'
  <2>1. writeReady' => rob # <<>>
    BY <1>2 DEF FlightInv, StoreInv
  <2>2. rob # <<>> => Head(rob) \in RangeOf(rob)
    BY Order
  <2>3. \A d \in RangeOf(rob) : uop'[d] = uop[d]
    BY <1>1, <1>3, <1>5
  <2>4. uop'[s].status # "EXECUTING"
    BY <1>1, <1>3, <1>5, <1>6
  <2>5. \A d \in RangeOf(rob') :
          uop'[d].type = "STORE" /\ uop'[d].status = "EXECUTING" => d = Head(rob')
    <3> SUFFICES ASSUME NEW d \in RangeOf(rob'),
                        uop'[d].type = "STORE", uop'[d].status = "EXECUTING"
                 PROVE  d = Head(rob')
      OBVIOUS
    <3>1. d \in RangeOf(rob)
      BY <1>1, <2>4
    <3>2. rob # <<>>
      BY <3>1, EmptyHeld
    <3> QED BY <1>1, <2>3, <3>1, <3>2 DEF FlightInv, StoreInv
  <2> QED BY <1>1, <1>2, <2>1, <2>2, <2>3, <2>5 DEF FlightInv, StoreInv
<1>12. PathInv'
  BY <1>1, <1>2, <1>3, <1>5, PathSame DEF FlightInv
<1>13. TypesInv'
  <2>1. ASSUME dec'.state = "dispatch", NEW j \in dec'.sent + 1 .. Len(dec'.buf)
        PROVE  uop'[dec'.buf[j]].type = dec'.tmpl.types[j]
    <3>1. j \in dec.sent + 1 .. Len(dec.buf)
      BY <1>4, <2>1 DEF TypeInv, TypeOK
    <3>2. dec.buf[j] \in Slots
      BY <1>3, <3>1 DEF Held
    <3> QED BY <1>2, <1>4, <1>5, <2>1, <3>1, <3>2 DEF FlightInv, TypesInv
  <2> QED BY <2>1 DEF TypesInv
<1>14. FlusherInv'
  BY <1>1, <1>2, <1>3, <1>5, FlusherAttempt DEF s
<1>15. CountInv'
  <2>1. ASSUME NEW x \in Counted', x \notin Counted
        PROVE  x = s /\ Executed(s) /\ uop[s].type = "BRANCH"
    <3>1. /\ x \in Decoded /\ x \in Slots /\ uop'[x].type = "BRANCH" /\ Executed(x)'
          /\ uop'[x].status # "READY"
          /\ \/ x \in RangeOf(rob')
             \/ phase' # "decode"
             \/ x = wbFlusher'
             \/ uop'[x].status # "DECODING"
      BY <1>1, <1>3, <2>1 DEF Counted
    <3>2. uop[x].type = "BRANCH" /\ Executed(x)
      BY <1>5, <3>1 DEF Executed
    <3>3. x = s
      <4> SUFFICES ASSUME x # s PROVE FALSE
        OBVIOUS
      <4>1. uop'[x] = uop[x]
        BY <1>5, <3>1
      <4>2. x = wbFlusher' => x = wbFlusher
        BY <1>2 DEF CountBranch
      <4> QED BY <1>1, <1>2, <2>1, <3>1, <3>2, <4>1, <4>2 DEF Counted
    <3> QED BY <3>2, <3>3
  <2> QED BY <1>1, <1>2, <2>1, CountAttempt DEF s
<1> QED BY <1>7, <1>8, <1>9, <1>10, <1>11, <1>12, <1>13, <1>14, <1>15 DEF FlightInv

\* The fields of a uop after a write-back.
LEMMA ResolveFields ==
    ASSUME TypeInv, NEW s, NEW d \in Slots
    PROVE  LET v == Resolve(s, d) IN
           /\ v.type = uop[d].type /\ v.depN = uop[d].depN
           /\ v.pstate = uop[d].pstate /\ v.event = uop[d].event
           /\ v.foresight = uop[d].foresight
           /\ v.resolved = uop[d].resolved + Cardinality(Hits(s, d))
           /\ v.ins = {l \in uop[d].ins : \A h \in Hits(s, d) : h.pos # l.pos}
           /\ v.needs = uop[d].needs \ {s}
           /\ v.status = IF /\ Hits(s, d) # {}
                            /\ uop[d].resolved + Cardinality(Hits(s, d)) >= uop[d].depN
                         THEN "DEP_READY" ELSE uop[d].status
<1> DEFINE n == uop[d].resolved + Cardinality(Hits(s, d))
           I == {l \in uop[d].ins : \A h \in Hits(s, d) : h.pos # l.pos}
           st == IF Hits(s, d) # {} /\ AllArrived(n, d) THEN "DEP_READY"
                 ELSE uop[d].status
           v == [uop[d] EXCEPT !.resolved = n, !.ins = I, !.status = st,
                               !.needs = uop[d].needs \ {s}]
<1>1. uop[d] \in Uop
  BY DEF TypeInv, TypeOK
<1>2. Resolve(s, d) = v
  BY DEF Resolve
<1> HIDE DEF n, I, st
<1>3. /\ v.type = uop[d].type /\ v.depN = uop[d].depN
      /\ v.pstate = uop[d].pstate /\ v.event = uop[d].event
      /\ v.foresight = uop[d].foresight
      /\ v.resolved = n /\ v.ins = I /\ v.status = st /\ v.needs = uop[d].needs \ {s}
  BY <1>1 DEF Uop
<1> HIDE DEF v
<1>4. st = IF Hits(s, d) # {} /\ n >= uop[d].depN THEN "DEP_READY" ELSE uop[d].status
  BY DEF st, AllArrived
<1> QED BY <1>2, <1>3, <1>4 DEF n, I

\* The links that a write-back leaves to a uop.
LEMMA LinksLeft ==
    ASSUME TypeInv, NEW s, NEW d, links' = {l \in links : l.src # s}
    PROVE  /\ LinksTo(d)' = LinksTo(d) \ Hits(s, d)
           /\ Hits(s, d) \subseteq LinksTo(d)
           /\ Cardinality(Hits(s, d)) \in Nat /\ Cardinality(LinksTo(d)) \in Nat
           /\ Cardinality(LinksTo(d)') \in Nat
           /\ Cardinality(LinksTo(d)) = Cardinality(LinksTo(d)') + Cardinality(Hits(s, d))
           /\ Cardinality(LinksTo(d)') = 0 <=> LinksTo(d)' = {}
<1> DEFINE L == LinksTo(d)
           M == LinksTo(d)'
           H == Hits(s, d)
<1>1. M = L \ H /\ H \subseteq L /\ L \subseteq links
  BY DEF LinksTo, Hits
<1> HIDE DEF L, M, H
<1>2. IsFiniteSet(L) /\ IsFiniteSet(H) /\ IsFiniteSet(M)
  <2>1. IsFiniteSet(links)
    BY DEF TypeInv
  <2>2. H \subseteq links /\ M \subseteq links
    BY <1>1
  <2> QED BY <1>1, <2>1, <2>2, FS_Subset
<1>3. Cardinality(L) \in Nat /\ Cardinality(H) \in Nat /\ Cardinality(M) \in Nat
  BY <1>2, FS_CardinalityType
<1>4. Cardinality(M) = Cardinality(L) - Cardinality(H)
  <2>1. L \cap H = H
    BY <1>1
  <2>2. Cardinality(L \ H) = Cardinality(L) - Cardinality(L \cap H)
    BY <1>2, FS_Difference
  <2> QED BY <1>1, <2>1, <2>2
<1>5. Cardinality(M) = 0 <=> M = {}
  BY <1>2, FS_EmptySet
<1>6. Cardinality(L) = Cardinality(M) + Cardinality(H)
  BY <1>3, <1>4
<1> QED BY <1>1, <1>3, <1>5, <1>6 DEF L, M, H

\* What a write-back does to each uop.
LEMMA WriteBackFacts ==
    ASSUME TypeInv, ConsInv, FlightInv, WriteBack
    PROVE  LET s == fu[unit] IN
           /\ s \in RangeOf(rob) /\ s \in Slots /\ s \in Decoded
           /\ uop[s].status = "EXECUTING" /\ uop[s].type # "NONE"
           /\ LinksTo(s) = {}
           /\ \A d \in Slots :
                /\ uop'[d].type = uop[d].type /\ uop'[d].depN = uop[d].depN
                /\ uop'[d].pstate = uop[d].pstate /\ uop'[d].event = uop[d].event
                /\ uop'[d].foresight = uop[d].foresight
           /\ uop'[s].status = "READY" /\ uop'[s].resolved = uop[s].resolved
           /\ uop'[s].ins = uop[s].ins /\ uop'[s].needs = uop[s].needs
           /\ \A d \in Decoded \ {s} :
                /\ uop'[d].resolved = uop[d].resolved + Cardinality(Hits(s, d))
                /\ uop'[d].ins \subseteq uop[d].ins
                /\ uop'[d].needs = uop[d].needs \ {s}
                /\ uop'[d].status = IF Hits(s, d) # {} /\ LinksTo(d)' = {}
                                    THEN "DEP_READY" ELSE uop[d].status
           /\ \A d \in Slots \ Decoded : uop'[d] = uop[d]
           /\ \A d : Hits(s, d) # {} =>
                /\ d \in Decoded /\ d # s /\ uop[d].type # "NONE"
                /\ uop[d].status \in {"DECODING", "WAIT_DEP"}
<1> DEFINE s == fu[unit]
<1>1. /\ unit \in 1 .. Units /\ s # NoSlot
      /\ uop' = [d \in Slots |->
                   IF d = s THEN [uop[s] EXCEPT !.status = "READY"]
                   ELSE IF uop[d].status = "FREE" THEN uop[d]
                   ELSE Resolve(s, d)]
      /\ links' = {l \in links : l.src # s}
  BY UnitAssumption DEF WriteBack, TypeInv, TypeOK
<1>2. /\ s \in RangeOf(rob) /\ uop[s].status = "EXECUTING"
      /\ s \in Decoded /\ Decoded \subseteq Slots /\ s \in Slots
  BY <1>1, Order, DecodedPlace DEF FlightInv, UnitInv
<1> HIDE DEF s
<1>3. LinksTo(s) = {} /\ uop[s].type # "NONE"
  BY <1>2 DEF FlightInv, LinkInv, QueueInv, LinksTo
<1>4. \A d : Hits(s, d) # {} =>
        /\ d \in Decoded /\ d # s /\ uop[d].type # "NONE"
        /\ uop[d].status \in {"DECODING", "WAIT_DEP"}
  <2> SUFFICES ASSUME NEW d, NEW l \in Hits(s, d)
               PROVE  /\ d \in Decoded /\ d # s /\ uop[d].type # "NONE"
                      /\ uop[d].status \in {"DECODING", "WAIT_DEP"}
    OBVIOUS
  <2>1. l \in links /\ l.src = s /\ l.dst = d /\ l \in LinksTo(d)
    BY DEF Hits, LinksTo
  <2> QED BY <1>3, <2>1 DEF FlightInv, LinkInv
<1> DEFINE v == [uop[s] EXCEPT !.status = "READY"]
<1>5. /\ v.status = "READY" /\ v.type = uop[s].type /\ v.depN = uop[s].depN
      /\ v.resolved = uop[s].resolved /\ v.ins = uop[s].ins /\ v.needs = uop[s].needs
      /\ v.pstate = uop[s].pstate /\ v.event = uop[s].event
      /\ v.foresight = uop[s].foresight
  <2>1. uop[s] \in Uop
    BY <1>2 DEF TypeInv, TypeOK
  <2> QED BY <2>1 DEF Uop
<1>6. uop'[s] = v
  BY <1>1, <1>2
<1> HIDE DEF v
<1>7. ASSUME NEW d \in Slots, d # s
      PROVE  /\ uop[d].status = "FREE" => uop'[d] = uop[d]
             /\ uop[d].status # "FREE" => uop'[d] = Resolve(s, d)
  BY <1>1, <1>7
<1>8. ASSUME NEW d \in Slots
      PROVE  /\ uop'[d].type = uop[d].type /\ uop'[d].depN = uop[d].depN
             /\ uop'[d].pstate = uop[d].pstate /\ uop'[d].event = uop[d].event
             /\ uop'[d].foresight = uop[d].foresight
  BY <1>5, <1>6, <1>7, ResolveFields
<1>9. ASSUME NEW d \in Decoded \ {s}
      PROVE  /\ uop'[d].resolved = uop[d].resolved + Cardinality(Hits(s, d))
             /\ uop'[d].ins \subseteq uop[d].ins
             /\ uop'[d].needs = uop[d].needs \ {s}
             /\ uop'[d].status = IF Hits(s, d) # {} /\ LinksTo(d)' = {}
                                 THEN "DEP_READY" ELSE uop[d].status
  <2>1. d \in Slots /\ d # s /\ uop[d].status # "FREE"
    BY <1>2, DecodedPlace DEF FlightInv, StatusInv, Decoded, Unfinished
  <2>2. uop'[d] = Resolve(s, d)
    BY <1>7, <2>1
  <2> DEFINE n == uop[d].resolved + Cardinality(Hits(s, d))
  <2>3. /\ uop'[d].resolved = n
        /\ uop'[d].ins \subseteq uop[d].ins
        /\ uop'[d].needs = uop[d].needs \ {s}
        /\ uop'[d].status = IF Hits(s, d) # {} /\ n >= uop[d].depN
                            THEN "DEP_READY" ELSE uop[d].status
    BY <2>1, <2>2, ResolveFields
  <2>4. n >= uop[d].depN <=> LinksTo(d)' = {}
    <3>1. uop[d].depN = uop[d].resolved + Cardinality(LinksTo(d))
      BY DEF FlightInv, LinkInv
    <3>2. uop[d].resolved \in Nat
      BY <2>1 DEF TypeInv, TypeOK, Uop
    <3>3. /\ Cardinality(Hits(s, d)) \in Nat /\ Cardinality(LinksTo(d)') \in Nat
          /\ Cardinality(LinksTo(d)) = Cardinality(LinksTo(d)') + Cardinality(Hits(s, d))
          /\ Cardinality(LinksTo(d)') = 0 <=> LinksTo(d)' = {}
      BY <1>1, LinksLeft
    <3>4. n >= uop[d].depN <=> Cardinality(LinksTo(d)') = 0
      BY <3>1, <3>2, <3>3
    <3> QED BY <3>3, <3>4
  <2> QED BY <2>3, <2>4
<1>10. ASSUME NEW d \in Slots \ Decoded PROVE uop'[d] = uop[d]
  <2>1. d # s /\ Hits(s, d) = {}
    BY <1>2, <1>4
  <2>2. CASE d \in RangeOf(supply)
    BY <1>7, <2>1, <2>2 DEF FlightInv, StatusInv, FreeUop
  <2>3. CASE d \notin RangeOf(supply)
    <3>1. d \in Held /\ dec.state = "allocate"
      <4>1. d \in RangeOf(rob) \cup Held
        BY <2>3 DEF ConsInv
      <4>2. d \in Held /\ dec.state # "dispatch"
        BY <4>1 DEF Decoded
      <4>3. dec.state # "idle"
        BY <4>2, EmptyHeld DEF TypeInv, DecoderConsistent
      <4> QED BY <4>2, <4>3 DEF TypeInv, TypeOK
    <3>2. /\ uop[d].status = "DECODING" /\ uop[d].resolved = 0
          /\ uop[d].ins = {} /\ uop[d].needs = {} /\ uop[d] \in Uop
      <4>1. uop[d] = [FreeUop EXCEPT !.status = "DECODING"]
        BY <3>1 DEF FlightInv, StatusInv
      <4> QED BY <4>1 DEF FreeUop, TypeInv, TypeOK
    <3>3. uop'[d] = Resolve(s, d)
      BY <1>7, <2>1, <3>2
    <3>4. Resolve(s, d) = [uop[d] EXCEPT !.resolved = 0, !.ins = {},
                                         !.status = "DECODING", !.needs = {}]
      <4>1. uop[d].resolved + Cardinality(Hits(s, d)) = 0
        BY <2>1, <3>2, FS_EmptySet
      <4>2. {l \in uop[d].ins : \A h \in Hits(s, d) : h.pos # l.pos} = {}
        BY <3>2
      <4> QED BY <2>1, <3>2, <4>1, <4>2 DEF Resolve
    <3>5. [uop[d] EXCEPT !.resolved = 0, !.ins = {},
                         !.status = "DECODING", !.needs = {}] = uop[d]
      BY <3>2 DEF Uop
    <3> QED BY <3>3, <3>4, <3>5
  <2> QED BY <2>2, <2>3
<1> QED BY <1>2, <1>3, <1>4, <1>5, <1>6, <1>8, <1>9, <1>10 DEF s

\* A uop finishes, and its dependents lose the links from it.
LEMMA FlightWriteBack ==
    ASSUME TypeInv, ConsInv, FlightInv, WriteBack, TypeInv', ConsInv'
    PROVE  FlightInv'
<1> DEFINE s == fu[unit]
<1>1. /\ s \in RangeOf(rob) /\ s \in Slots /\ s \in Decoded
      /\ uop[s].status = "EXECUTING" /\ uop[s].type # "NONE"
      /\ LinksTo(s) = {}
      /\ \A d \in Slots :
           /\ uop'[d].type = uop[d].type /\ uop'[d].depN = uop[d].depN
           /\ uop'[d].pstate = uop[d].pstate /\ uop'[d].event = uop[d].event
           /\ uop'[d].foresight = uop[d].foresight
      /\ uop'[s].status = "READY" /\ uop'[s].resolved = uop[s].resolved
      /\ uop'[s].ins = uop[s].ins /\ uop'[s].needs = uop[s].needs
  BY WriteBackFacts
<1>2. /\ \A d \in Decoded \ {s} :
           /\ uop'[d].resolved = uop[d].resolved + Cardinality(Hits(s, d))
           /\ uop'[d].ins \subseteq uop[d].ins
           /\ uop'[d].needs = uop[d].needs \ {s}
           /\ uop'[d].status = IF Hits(s, d) # {} /\ LinksTo(d)' = {}
                               THEN "DEP_READY" ELSE uop[d].status
      /\ \A d \in Slots \ Decoded : uop'[d] = uop[d]
      /\ \A d : Hits(s, d) # {} =>
           /\ d \in Decoded /\ d # s /\ uop[d].type # "NONE"
           /\ uop[d].status \in {"DECODING", "WAIT_DEP"}
  BY WriteBackFacts
<1>3. /\ UNCHANGED <<phase, supply, rob, writeReady, dec, mis, wbFlusher>>
      /\ phase = "exec" /\ unit \in 1 .. Units /\ s # NoSlot
      /\ links' = {l \in links : l.src # s}
      /\ regs' = [r \in Regs |-> IF regs[r] = s THEN NoSlot ELSE regs[r]]
      /\ writer' = [r \in Regs |-> IF writer[r] = s THEN NoSlot ELSE writer[r]]
      /\ rsq' = rsq \ {s} /\ lsq' = lsq \ {s}
      /\ numBranches' = IF /\ uop[s].type = "BRANCH"
                           /\ uop[s].pstate # "INVALID"
                           /\ numBranches \in 1 .. MaxBranches - 1
                        THEN numBranches - 1 ELSE numBranches
      /\ fu' = [fu EXCEPT ![unit] = NoSlot]
  BY UnitAssumption DEF WriteBack, ClearProducer, TypeInv, TypeOK
<1> HIDE DEF s
<1>4. /\ RangeOf(rob') = RangeOf(rob) /\ Held' = Held /\ Decoded' = Decoded
      /\ \A x, y : Before(x, y)' <=> Before(x, y)
  BY <1>3, SameOrder
<1>5. /\ RangeOf(rob) \cup Held \subseteq Slots /\ Decoded \subseteq Slots
      /\ RangeOf(supply) \subseteq Slots /\ RangeOf(rob) \subseteq Decoded
      /\ RangeOf(supply) \cap (RangeOf(rob) \cup Held) = {}
      /\ RangeOf(rob) \cap Held = {}
      /\ dec.state = "dispatch" => Held \subseteq Decoded
      /\ dec.state # "dispatch" => Decoded = RangeOf(rob)
      /\ RangeOf(supply) \cap Decoded = {}
  BY Order, OnePlace, DecodedPlace, RangeOfSequence DEF TypeInv, TypeOK
<1>6. \A d \in Decoded \ {s} :
        \/ uop'[d].status = uop[d].status
        \/ /\ uop'[d].status = "DEP_READY" /\ uop[d].type # "NONE"
           /\ uop[d].status \in {"DECODING", "WAIT_DEP"}
  BY <1>2
<1>7. StatusInv'
  <2>1. \A d \in RangeOf(supply) : uop'[d] = FreeUop
    BY <1>2, <1>5 DEF FlightInv, StatusInv
  <2>2. \A d \in RangeOf(rob) : uop'[d].status \in Unfinished \cup {"READY"}
    BY <1>1, <1>5, <1>6 DEF FlightInv, StatusInv, Unfinished
  <2>3. dec.state = "dispatch" =>
          \A d \in Held : uop'[d].status \in {"DECODING", "DEP_READY"}
    BY <1>1, <1>5, <1>6 DEF FlightInv, StatusInv
  <2>4. dec.state = "allocate" => \A d \in Held : uop'[d] = uop[d]
    BY <1>2, <1>5
  <2> QED BY <1>3, <1>4, <2>1, <2>2, <2>3, <2>4 DEF FlightInv, StatusInv
<1>8. QueueInv'
  <2>1. \A d \in RangeOf(rob) :
          /\ uop'[d].type = uop[d].type
          /\ uop'[d].status \in Unfinished <=> uop[d].status \in Unfinished /\ d # s
          /\ uop[d].type = "NONE" => uop'[d].status = "READY"
    <3> SUFFICES ASSUME NEW d \in RangeOf(rob)
                 PROVE  /\ uop'[d].type = uop[d].type
                        /\ uop'[d].status \in Unfinished <=>
                             uop[d].status \in Unfinished /\ d # s
                        /\ uop[d].type = "NONE" => uop'[d].status = "READY"
      OBVIOUS
    <3>1. uop[d].status \in Unfinished \cup {"READY"} /\ uop'[d].type = uop[d].type
      BY <1>1, <1>5 DEF FlightInv, StatusInv
    <3>2. uop[d].type = "NONE" => uop[d].status = "READY"
      BY DEF FlightInv, QueueInv
    <3> QED BY <1>1, <1>5, <1>6, <3>1, <3>2 DEF Unfinished
  <2> QED BY <1>3, <1>4, <2>1 DEF FlightInv, QueueInv
<1>9. UnitInv'
  <2>1. \A u \in 1 .. Units : fu'[u] = IF u = unit THEN NoSlot ELSE fu[u]
    BY <1>3 DEF TypeInv, TypeOK
  <2>2. \A u \in 1 .. Units : fu[u] = s => u = unit
    BY <1>3 DEF FlightInv, UnitInv, s
  <2>3. \A d \in Decoded \ {s} : uop[d].status = "EXECUTING" => uop'[d].status = "EXECUTING"
    BY <1>6
  <2>4. \A d \in Slots : uop'[d].status = "EXECUTING" => uop[d].status = "EXECUTING" /\ d # s
    BY <1>1, <1>2, <1>6
  <2>5. \A u \in 1 .. Units : fu'[u] # NoSlot =>
          fu'[u] \in RangeOf(rob) /\ uop'[fu'[u]].status = "EXECUTING"
    BY <1>5, <2>1, <2>2, <2>3 DEF FlightInv, UnitInv
  <2>6. \A d \in Slots : uop'[d].status = "EXECUTING" => \E u \in 1 .. Units : fu'[u] = d
    <3> SUFFICES ASSUME NEW d \in Slots, uop'[d].status = "EXECUTING"
                 PROVE  \E u \in 1 .. Units : fu'[u] = d
      OBVIOUS
    <3>1. PICK u \in 1 .. Units : fu[u] = d
      BY <2>4 DEF FlightInv, UnitInv
    <3>2. u # unit
      BY <2>4, <3>1 DEF s
    <3> QED BY <2>1, <3>1, <3>2
  <2>7. \A u, v \in 1 .. Units : fu'[u] = fu'[v] /\ fu'[u] # NoSlot => u = v
    BY <2>1 DEF FlightInv, UnitInv
  <2> QED BY <1>4, <2>5, <2>6, <2>7 DEF UnitInv
<1>10. \A d : /\ LinksTo(d)' = LinksTo(d) \ Hits(s, d)
              /\ Cardinality(Hits(s, d)) \in Nat /\ Cardinality(LinksTo(d)') \in Nat
              /\ Cardinality(LinksTo(d)) = Cardinality(LinksTo(d)') + Cardinality(Hits(s, d))
  BY <1>3, LinksLeft
<1>11. LinkInv'
  <2>1. ASSUME NEW l \in links'
        PROVE  /\ {l.src, l.dst} \subseteq Decoded'
               /\ Before(l.src, l.dst)'
               /\ uop'[l.src].type # "NONE" /\ uop'[l.dst].type # "NONE"
               /\ uop'[l.src].status # "READY"
               /\ uop'[l.dst].status \in {"DECODING", "WAIT_DEP"}
    <3>1. /\ l \in links /\ l.src # s /\ l \in LinksTo(l.dst)'
          /\ l \in LinksTo(l.dst)
      BY <1>3 DEF LinksTo
    <3>2. /\ l.src \in Decoded /\ l.dst \in Decoded
          /\ Before(l.src, l.dst)
          /\ uop[l.src].type # "NONE" /\ uop[l.dst].type # "NONE"
          /\ uop[l.src].status # "READY"
          /\ uop[l.dst].status \in {"DECODING", "WAIT_DEP"}
      BY <3>1 DEF FlightInv, LinkInv
    <3>3. l.dst # s
      BY <1>1, <3>1
    <3>4. uop'[l.dst].status = uop[l.dst].status
      BY <1>2, <3>1, <3>2, <3>3
    <3>5. uop'[l.src].status # "READY"
      BY <1>6, <3>1, <3>2
    <3> QED BY <1>1, <1>4, <1>5, <3>2, <3>4, <3>5
  <2>2. ASSUME NEW d \in Decoded
        PROVE  /\ uop'[d].depN = uop'[d].resolved + Cardinality(LinksTo(d)')
               /\ uop'[d].status = "WAIT_DEP" => LinksTo(d)' # {}
               /\ \A l \in uop'[d].ins : l.dst = d
    <3>1. /\ uop[d].depN = uop[d].resolved + Cardinality(LinksTo(d))
          /\ uop[d].status = "WAIT_DEP" => LinksTo(d) # {}
          /\ \A l \in uop[d].ins : l.dst = d
          /\ uop[d].resolved \in Nat /\ uop'[d].depN = uop[d].depN
      BY <1>1, <1>5 DEF FlightInv, LinkInv, TypeInv, TypeOK, Uop
    <3>2. CASE d = s
      <4>1. LinksTo(d)' = LinksTo(d)
        BY <1>1, <1>10, <3>2
      <4> QED BY <1>1, <3>1, <3>2, <4>1
    <3>3. CASE d # s
      <4>1. uop'[d].depN = uop'[d].resolved + Cardinality(LinksTo(d)')
        <5>1. uop'[d].resolved = uop[d].resolved + Cardinality(Hits(s, d))
          BY <1>2, <3>3
        <5>2. /\ Cardinality(Hits(s, d)) \in Nat /\ Cardinality(LinksTo(d)') \in Nat
              /\ Cardinality(LinksTo(d)) = Cardinality(LinksTo(d)') + Cardinality(Hits(s, d))
          BY <1>10
        <5> QED BY <3>1, <5>1, <5>2
      <4>2. uop'[d].status = "WAIT_DEP" => LinksTo(d)' # {}
        BY <1>2, <1>10, <3>1, <3>3
      <4>3. \A l \in uop'[d].ins : l.dst = d
        BY <1>2, <3>1, <3>3
      <4> QED BY <4>1, <4>2, <4>3
    <3> QED BY <3>2, <3>3
  <2> QED BY <1>4, <2>1, <2>2 DEF LinkInv
<1>12. CrossInv'
  BY <1>1, <1>3, <1>4, <1>5 DEF FlightInv, CrossInv
<1>13. RegInv'
  <2> SUFFICES ASSUME NEW r \in Regs, regs'[r] # NoSlot
               PROVE  /\ regs'[r] \in Decoded'
                      /\ uop'[regs'[r]].status # "READY" /\ uop'[regs'[r]].type # "NONE"
    BY DEF RegInv
  <2>1. regs'[r] = regs[r] /\ regs[r] # s
    BY <1>3
  <2>2. /\ regs[r] \in Decoded
        /\ uop[regs[r]].status # "READY" /\ uop[regs[r]].type # "NONE"
    BY <2>1 DEF FlightInv, RegInv
  <2> QED BY <1>1, <1>4, <1>5, <1>6, <2>1, <2>2
<1>14. NeedInv'
  <2>1. ~mis' => writer' = regs'
    BY <1>3 DEF FlightInv, NeedInv
  <2>2. ASSUME NEW d \in Decoded PROVE uop'[d].needs \subseteq {l.src : l \in LinksTo(d)'}
    <3>1. uop[d].needs \subseteq {l.src : l \in LinksTo(d)}
      BY DEF FlightInv, NeedInv
    <3>2. CASE d = s
      BY <1>1, <3>1, <3>2
    <3>3. CASE d # s
      <4> SUFFICES ASSUME NEW x \in uop'[d].needs
                   PROVE  \E l \in LinksTo(d)' : x = l.src
        OBVIOUS
      <4>1. x \in uop[d].needs /\ x # s
        BY <1>2, <3>3
      <4>2. PICK l \in LinksTo(d) : x = l.src
        BY <3>1, <4>1
      <4>3. l \in LinksTo(d)'
        BY <1>10, <4>1, <4>2 DEF Hits
      <4> QED BY <4>2, <4>3
    <3> QED BY <3>2, <3>3
  <2> QED BY <1>4, <2>1, <2>2 DEF NeedInv
<1>15. StoreInv'
  <2>1. rob # <<>> => Head(rob) \in RangeOf(rob)
    BY Order
  <2>2. uop[s].status = "EXECUTING" /\ uop'[s].status = "READY"
    BY <1>1
  <2>3. \A d \in RangeOf(rob) :
          /\ uop[d].status = "DEP_READY" => uop'[d].status = "DEP_READY"
          /\ uop'[d].status = "EXECUTING" => uop[d].status = "EXECUTING"
          /\ uop'[d].type = uop[d].type
    BY <1>1, <1>5, <1>6, <2>2
  <2> QED BY <1>3, <1>4, <2>1, <2>3 DEF FlightInv, StoreInv
<1>16. PathInv'
  BY <1>1, <1>3, <1>4, <1>5, PathSame DEF FlightInv
<1>17. TypesInv'
  <2>1. dec.state = "dispatch" =>
          \A j \in dec.sent + 1 .. Len(dec.buf) : dec.buf[j] \in Slots
    BY <1>5 DEF Held
  <2> QED BY <1>1, <1>3, <2>1 DEF FlightInv, TypesInv
<1>18. FlusherInv'
  BY <1>1, <1>3, <1>4, <1>5 DEF FlightInv, FlusherInv
<1>19. CountInv'
  <2>1. Counted' \subseteq Counted \ {s}
    <3> SUFFICES ASSUME NEW d \in Counted' PROVE d \in Counted /\ d # s
      OBVIOUS
    <3>1. d \in Decoded /\ uop'[d].type = "BRANCH" /\ Executed(d)' /\ uop'[d].status # "READY"
      BY <1>4 DEF Counted
    <3>2. d # s /\ uop[d].type = "BRANCH" /\ Executed(d)
      BY <1>1, <1>5, <3>1 DEF Executed
    <3>3. uop[d].status # "READY"
      BY <1>6, <3>1, <3>2
    <3> QED BY <1>3, <3>1, <3>2, <3>3 DEF Counted
  <2>2. CASE ~(/\ uop[s].type = "BRANCH" /\ uop[s].pstate # "INVALID"
               /\ numBranches \in 1 .. MaxBranches - 1)
    BY <1>3, <2>1, <2>2, CountSame DEF FlightInv
  <2>3. CASE /\ uop[s].type = "BRANCH" /\ uop[s].pstate # "INVALID"
             /\ numBranches \in 1 .. MaxBranches - 1
    <3>1. Executed(s)
      BY <1>1, <2>3 DEF FlightInv, PathInv, Executed, TypeInv, TypeOK, Uop, PipelineStates
    <3>2. s \in Counted
      BY <1>1, <2>3, <3>1 DEF Counted
    <3>3. /\ IsFiniteSet(Counted) /\ Cardinality(Counted) \in Nat
          /\ Cardinality(Counted') \in Nat
      BY CountedFinite, CountedFiniteNext
    <3>4. /\ IsFiniteSet(Counted \ {s})
          /\ Cardinality(Counted \ {s}) = Cardinality(Counted) - 1
      BY <3>2, <3>3, FS_RemoveElement
    <3>5. Cardinality(Counted') <= Cardinality(Counted \ {s})
      BY <2>1, <3>4, FS_Subset
    <3>6. /\ numBranches' = numBranches - 1 /\ numBranches \in Nat
          /\ numBranches >= Cardinality(Counted)
      BY <1>3, <2>3 DEF FlightInv, CountInv, TypeInv, TypeOK
    <3>7. numBranches' >= Cardinality(Counted')
      BY <3>3, <3>4, <3>5, <3>6
    <3> QED BY <3>7 DEF CountInv
  <2> QED BY <2>2, <2>3
<1> QED BY <1>7, <1>8, <1>9, <1>11, <1>12, <1>13, <1>14, <1>15, <1>16, <1>17, <1>18,
           <1>19 DEF FlightInv

\* When no branch is counted, the remembered branch has executed.
LEMMA FlusherFinished ==
    ASSUME TypeInv, ConsInv, FlightInv, FlushOnWriteBack
    PROVE  /\ wbFlusher \in RangeOf(rob) /\ wbFlusher \in Decoded
           /\ uop[wbFlusher].status = "READY" /\ uop[wbFlusher].type = "BRANCH"
           /\ Diverts(wbFlusher) /\ uop[wbFlusher].event = "none"
           /\ Counted = {}
<1> DEFINE f == wbFlusher
<1>1. f # NoSlot /\ numBranches = 0 /\ phase = "exec"
  BY DEF FlushOnWriteBack, MayFlushOnWb
<1> HIDE DEF f
<1>2. /\ f \in Decoded /\ uop[f].pstate = "CAN_FLUSH" /\ ~uop[f].foresight
  BY <1>1 DEF FlightInv, FlusherInv, f
<1>3. uop[f].type = "BRANCH" /\ uop[f].event = "none" /\ Diverts(f) /\ Executed(f)
  BY <1>2 DEF FlightInv, PathInv, Diverts, Executed, Flushing
<1>4. Counted = {}
  <2>1. /\ IsFiniteSet(Counted) /\ Cardinality(Counted) \in Nat
        /\ 0 >= Cardinality(Counted)
    BY <1>1, CountedFinite DEF FlightInv, CountInv
  <2>2. Cardinality(Counted) = 0
    BY <2>1
  <2> QED BY <2>1, <2>2, FS_EmptySet
<1>5. uop[f].status = "READY"
  BY <1>1, <1>2, <1>3, <1>4 DEF Counted
<1>6. f \in RangeOf(rob)
  BY <1>2, <1>5 DEF Decoded, FlightInv, StatusInv
<1> QED BY <1>2, <1>3, <1>4, <1>5, <1>6 DEF f

\* Everything younger than a mispredicted branch goes.  Without registers no
\* dependence crosses the branch, so what stays keeps its operands.
LEMMA FlightFlushOnWriteBack ==
    ASSUME NoStaleLinks, TypeInv, ConsInv, FlightInv, FlushOnWriteBack,
           TypeInv', ConsInv'
    PROVE  FlightInv'
<1> DEFINE f == wbFlusher
           S == {s \in RangeOf(rob) \cup Held : Before(f, s)}
<1>1. /\ f \in RangeOf(rob) /\ f \in Decoded
      /\ uop[f].status = "READY" /\ uop[f].type = "BRANCH"
      /\ Diverts(f) /\ uop[f].event = "none"
      /\ Counted = {}
  BY FlusherFinished
<1>2. /\ RangeOf(rob') = RangeOf(rob) \ S
      /\ Held' = {} /\ Decoded' = RangeOf(rob')
      /\ Held \subseteq S
      /\ dec' = IdleDecoder /\ rob' # <<>> /\ Head(rob') = Head(rob) /\ rob # <<>>
      /\ RangeOf(supply') = RangeOf(supply) \cup S
      /\ \A s, t : Before(s, t)' <=> Before(s, t) /\ ~Before(f, t)
  BY <1>1, WbFlushFrame
<1>3. /\ uop' = [s \in Slots |->
                   IF s \in S THEN FreeUop
                   ELSE IF s = f THEN [uop[s] EXCEPT !.foresight = TRUE]
                   ELSE uop[s]]
      /\ links' = {l \in links \ UNION {uop[s].ins : s \in S \ Held} : l.src \notin S}
      /\ rsq' = rsq \ S /\ lsq' = lsq \ S
      /\ fu' = [u \in 1 .. Units |-> IF fu[u] \in S THEN NoSlot ELSE fu[u]]
      /\ mis' = FALSE
  BY <1>1, WbFlushFrame
<1>4. /\ numBranches' = 0 /\ wbFlusher' = NoSlot /\ writeReady' = writeReady
      /\ DetectOnWb /\ phase' = "issue"
  BY DEF FlushOnWriteBack, MayFlushOnWb
<1>5. NumRegs = 0 /\ Regs = {}
  BY <1>4 DEF NoStaleLinks, Regs
<1>6. /\ RangeOf(rob) \cup Held \subseteq Slots /\ RangeOf(supply) \subseteq Slots
      /\ RangeOf(rob) \subseteq Decoded /\ Decoded \subseteq RangeOf(rob) \cup Held
      /\ RangeOf(supply) \cap (RangeOf(rob) \cup Held) = {}
      /\ \A s, t : Before(s, t) => /\ s \in RangeOf(rob) \cup Held
                                   /\ t \in RangeOf(rob) \cup Held /\ ~Before(t, s)
      /\ \A s, t, u : Before(s, t) /\ Before(t, u) => Before(s, u)
      /\ Head(rob) \in RangeOf(rob) /\ \A s : ~Before(s, Head(rob))
  <2>1. RangeOf(supply) \subseteq Slots
    BY RangeOfSequence DEF TypeInv, TypeOK
  <2> QED BY <1>2, <2>1, Order, OnePlace, DecodedPlace
<1>7. \A s : s \in S <=> Before(f, s)
  BY <1>6
<1>8. f \notin S /\ Head(rob) \notin S /\ Decoded' \subseteq Decoded
  BY <1>2, <1>6, <1>7
<1> HIDE DEF f, S
<1>9. /\ \A s \in S : uop'[s] = FreeUop
      /\ \A s \in Slots \ S : s # f => uop'[s] = uop[s]
      /\ uop'[f].foresight = TRUE
      /\ \A s \in Slots \ S :
           /\ uop'[s].status = uop[s].status /\ uop'[s].type = uop[s].type
           /\ uop'[s].depN = uop[s].depN /\ uop'[s].resolved = uop[s].resolved
           /\ uop'[s].ins = uop[s].ins /\ uop'[s].needs = uop[s].needs
           /\ uop'[s].pstate = uop[s].pstate /\ uop'[s].event = uop[s].event
  <2> DEFINE v == [uop[f] EXCEPT !.foresight = TRUE]
  <2>1. uop[f] \in Uop /\ f \in Slots
    BY <1>1, <1>6 DEF TypeInv, TypeOK
  <2>2. /\ v.foresight = TRUE
        /\ v.status = uop[f].status /\ v.type = uop[f].type
        /\ v.depN = uop[f].depN /\ v.resolved = uop[f].resolved
        /\ v.ins = uop[f].ins /\ v.needs = uop[f].needs
        /\ v.pstate = uop[f].pstate /\ v.event = uop[f].event
    BY <2>1 DEF Uop
  <2>3. uop'[f] = v
    BY <1>3, <1>8, <2>1
  <2> HIDE DEF v
  <2>4. \A s \in Slots \ S : s # f => uop'[s] = uop[s]
    BY <1>3
  <2>5. \A s \in S : uop'[s] = FreeUop
    BY <1>3, <1>6, <1>7
  <2> QED BY <2>2, <2>3, <2>4, <2>5
<1>10. \A s \in Decoded' : s \in RangeOf(rob) /\ s \in Decoded /\ s \in Slots \ S
  BY <1>2, <1>6
<1>11. \A l \in links : /\ l.src \in S <=> l.dst \in S
                        /\ {l.src, l.dst} \subseteq Decoded
  <2> SUFFICES ASSUME NEW l \in links
               PROVE  /\ l.src \in S <=> l.dst \in S
                      /\ {l.src, l.dst} \subseteq Decoded
    OBVIOUS
  <2>1. /\ {l.src, l.dst} \subseteq Decoded /\ Before(l.src, l.dst)
        /\ Before(f, l.src) \/ Before(l.dst, f)
    BY <1>1, <1>5 DEF FlightInv, LinkInv, CrossInv
  <2> QED BY <1>6, <1>7, <2>1
<1>12. links' = {l \in links : l.dst \notin S}
  <2>1. ASSUME NEW l \in links, l.dst \notin S, NEW s \in S \ Held, l \in uop[s].ins
        PROVE  FALSE
    <3>1. s \in Decoded
      BY <1>6, <1>7, <2>1
    <3> QED BY <2>1, <3>1 DEF FlightInv, LinkInv
  <2> QED BY <1>3, <1>11, <2>1
<1>13. \A s \in Decoded' : LinksTo(s)' = LinksTo(s)
  BY <1>10, <1>12 DEF LinksTo
<1>14. StatusInv'
  <2>1. \A s \in RangeOf(supply) : s \in Slots \ S /\ s # f
    BY <1>1, <1>6, <1>7
  <2>2. \A s \in RangeOf(supply') : uop'[s] = FreeUop
    BY <1>2, <1>9, <2>1 DEF FlightInv, StatusInv
  <2>3. \A s \in RangeOf(rob') : uop'[s].status \in Unfinished \cup {"READY"}
    BY <1>2, <1>9, <1>10 DEF FlightInv, StatusInv
  <2>4. dec'.state = "idle"
    BY <1>2 DEF IdleDecoder
  <2> QED BY <2>2, <2>3, <2>4 DEF StatusInv
<1>15. QueueInv'
  BY <1>2, <1>3, <1>9, <1>10 DEF FlightInv, QueueInv
<1>16. UnitInv'
  <2>1. \A u \in 1 .. Units : fu'[u] # NoSlot => fu'[u] = fu[u] /\ fu[u] \notin S
    BY <1>3
  <2>2. \A u \in 1 .. Units : fu'[u] # NoSlot =>
          fu'[u] \in RangeOf(rob') /\ uop'[fu'[u]].status = "EXECUTING"
    BY <1>2, <1>6, <1>9, <2>1 DEF FlightInv, UnitInv
  <2>3. \A s \in Slots : uop'[s].status = "EXECUTING" => \E u \in 1 .. Units : fu'[u] = s
    <3> SUFFICES ASSUME NEW s \in Slots, uop'[s].status = "EXECUTING"
                 PROVE  \E u \in 1 .. Units : fu'[u] = s
      OBVIOUS
    <3>1. s \notin S /\ uop[s].status = "EXECUTING"
      BY <1>9 DEF FreeUop
    <3>2. PICK u \in 1 .. Units : fu[u] = s
      BY <3>1 DEF FlightInv, UnitInv
    <3> QED BY <1>3, <3>1, <3>2
  <2>4. \A u, v \in 1 .. Units : fu'[u] = fu'[v] /\ fu'[u] # NoSlot => u = v
    BY <2>1 DEF FlightInv, UnitInv
  <2> QED BY <2>2, <2>3, <2>4 DEF UnitInv
<1>17. LinkInv'
  <2>1. ASSUME NEW l \in links'
        PROVE  /\ {l.src, l.dst} \subseteq Decoded'
               /\ Before(l.src, l.dst)'
               /\ uop'[l.src].type # "NONE" /\ uop'[l.dst].type # "NONE"
               /\ uop'[l.src].status # "READY"
               /\ uop'[l.dst].status \in {"DECODING", "WAIT_DEP"}
    <3>1. /\ l \in links /\ l.src \notin S /\ l.dst \notin S
          /\ l.src \in Decoded /\ l.dst \in Decoded
      BY <1>11, <1>12
    <3>2. l.src \in Decoded' /\ l.dst \in Decoded'
      BY <1>2, <1>6, <3>1
    <3>3. Before(l.src, l.dst)'
      BY <1>2, <1>7, <3>1 DEF FlightInv, LinkInv
    <3> QED BY <1>9, <1>10, <3>1, <3>2, <3>3 DEF FlightInv, LinkInv
  <2>2. \A s \in Decoded' :
          /\ uop'[s].depN = uop'[s].resolved + Cardinality(LinksTo(s)')
          /\ uop'[s].status = "WAIT_DEP" => LinksTo(s)' # {}
          /\ \A l \in uop'[s].ins : l.dst = s
    BY <1>9, <1>10, <1>13 DEF FlightInv, LinkInv
  <2> QED BY <2>1, <2>2 DEF LinkInv
<1>18. CrossInv'
  <2> SUFFICES ASSUME NEW l \in links', NEW t \in Decoded', uop'[t].type = "BRANCH"
               PROVE  Before(t, l.src)' \/ Before(l.dst, t)'
    BY DEF CrossInv
  <2>1. /\ l \in links /\ ~Before(f, l.src) /\ ~Before(f, t)
        /\ t \in Decoded /\ uop[t].type = "BRANCH"
    BY <1>7, <1>9, <1>10, <1>11, <1>12
  <2>2. Before(t, l.src) \/ Before(l.dst, t)
    BY <1>5, <2>1 DEF FlightInv, CrossInv
  <2> QED BY <1>2, <2>1, <2>2
<1>19. RegInv'
  BY <1>5 DEF RegInv
<1>20. NeedInv'
  <2>1. regs' \in [Regs -> Slots \cup {NoSlot}] /\ writer' \in [Regs -> Slots \cup {NoSlot}]
    BY DEF TypeInv, TypeOK
  <2>2. writer' = regs'
    BY <1>5, <2>1
  <2>3. \A s \in Decoded' : uop'[s].needs \subseteq {l.src : l \in LinksTo(s)'}
    BY <1>9, <1>10, <1>13 DEF FlightInv, NeedInv
  <2> QED BY <2>2, <2>3 DEF NeedInv
<1>21. StoreInv'
  <2>1. Head(rob) \in Slots \ S
    BY <1>6, <1>8
  <2>2. writeReady' => /\ uop'[Head(rob)].type = "STORE"
                       /\ uop'[Head(rob)].status = "DEP_READY"
    BY <1>4, <1>9, <2>1 DEF FlightInv, StoreInv
  <2>3. \A s \in RangeOf(rob') :
          uop'[s].type = "STORE" /\ uop'[s].status = "EXECUTING" => s = Head(rob)
    BY <1>2, <1>9, <1>10 DEF FlightInv, StoreInv
  <2> QED BY <1>2, <2>2, <2>3 DEF StoreInv
<1>22. PathInv'
  <2>1. \A s \in Decoded' : ~Diverts(s)'
    <3> SUFFICES ASSUME NEW s \in Decoded' PROVE ~Diverts(s)'
      OBVIOUS
    <3>1. CASE s = f
      BY <1>1, <1>9, <1>10, <3>1 DEF Diverts, Flushing
    <3>2. CASE s # f
      <4>1. uop'[s] = uop[s] /\ s \in Decoded
        BY <1>9, <1>10, <3>2
      <4>2. ~Diverts(s)
        BY <1>1, <3>2, <4>1 DEF FlightInv, PathInv
      <4> QED BY <4>1, <4>2 DEF Diverts, Flushing, Executed
    <3> QED BY <3>1, <3>2
  <2>2. \A s \in Decoded' : uop'[s].pstate # "INVALID"
    <3> SUFFICES ASSUME NEW s \in Decoded', uop'[s].pstate = "INVALID" PROVE FALSE
      OBVIOUS
    <3>1. s \in Decoded /\ s \notin S /\ uop[s].pstate = "INVALID"
      BY <1>9, <1>10
    <3>2. PICK t \in Decoded : Diverts(t) /\ Before(t, s)
      BY <3>1 DEF FlightInv, PathInv
    <3>3. t = f
      BY <1>1, <3>2 DEF FlightInv, PathInv
    <3> QED BY <1>7, <3>1, <3>2, <3>3
  <2>3. \A s \in Decoded' :
          /\ uop'[s].pstate # "UNSET"
          /\ uop'[s].pstate = "CAN_FLUSH" =>
               uop'[s].type = "BRANCH" /\ uop'[s].event = "none"
    BY <1>9, <1>10 DEF FlightInv, PathInv
  <2> QED BY <1>2, <1>3, <2>1, <2>2, <2>3 DEF PathInv
<1>23. TypesInv' /\ FlusherInv'
  BY <1>2, <1>4 DEF TypesInv, FlusherInv, IdleDecoder
<1>24. CountInv'
  <2>1. Counted' = {}
    <3> SUFFICES ASSUME NEW s \in Counted' PROVE FALSE
      OBVIOUS
    <3>1. /\ s \in Decoded' /\ uop'[s].type = "BRANCH" /\ Executed(s)'
          /\ uop'[s].status # "READY"
      BY DEF Counted
    <3>2. s \in Counted
      BY <1>9, <1>10, <3>1 DEF Counted, Executed
    <3> QED BY <1>1, <3>2
  <2> QED BY <1>4, <2>1, FS_EmptySet DEF CountInv
<1> QED BY <1>14, <1>15, <1>16, <1>17, <1>18, <1>19, <1>20, <1>21, <1>22, <1>23,
           <1>24 DEF FlightInv

-----------------------------------------------------------------------------
\* Decoding.

\* The entries of dep_out that decoding uop i makes.
NewLinks(i, rd) == {MakeLink(dec.buf[i], o) : o \in Operands(i, rd)}

\* The pipeline state that decoding gives to the uops of the instruction.
DecodedState(e, foreseen) ==
    IF mis THEN "INVALID"
    ELSE IF e = "none" /\ ~foreseen /\ dec.tmpl.types = <<"BRANCH">>
    THEN "CAN_FLUSH" ELSE "VALID"

\* Inside an instruction a uop waits for earlier ones; beside them it waits for
\* what the registers point to.  A uop of type NONE waits for nothing.
LEMMA NewLinkFacts ==
    ASSUME TypeInv, ConsInv, FlightInv, dec.state = "allocate",
           Len(dec.buf) = Required, NEW i \in 1 .. Required,
           NEW rd \in RegisterSets(dec.tmpl.reader)
    PROVE  /\ \A l \in NewLinks(i, rd) :
                /\ l.dst = dec.buf[i] /\ dec.tmpl.types[i] # "NONE"
                /\ \/ \E j \in 1 .. Required : /\ j < i /\ l.src = dec.buf[j]
                                               /\ dec.tmpl.types[j] # "NONE"
                   \/ \E r \in Regs : regs[r] # NoSlot /\ l.src = regs[r]
           /\ ~mis => TrueProducers(i, rd) \subseteq {l.src : l \in NewLinks(i, rd)}
<1> DEFINE t == dec.tmpl
           b == dec.buf
           micro == {l[2] : l \in {m \in t.links : m[1] = i}}
           read == {r \in rd : i = t.reader /\ regs[r] # NoSlot}
           pos(j) == Cardinality({m \in micro : m <= j})
           rpos(r) == Cardinality(micro) + Cardinality({q \in read : q <= r})
<1>1. /\ t \in Templates /\ IsTemplate(t) /\ Required = Len(t.types)
      /\ t.types \in Seq(UopTypes) /\ DOMAIN t.types = 1 .. Required
      /\ Required \in Nat
  <2>1. t \in Templates
    BY DEF TypeInv, DecoderConsistent
  <2>2. IsTemplate(t)
    BY <2>1, TemplateAssumption
  <2> QED BY <2>1, <2>2, LenProperties DEF IsTemplate, Required
<1>2. /\ t.links \subseteq (1 .. Required) \X (1 .. Required)
      /\ \A l \in t.links : l[2] < l[1]
      /\ t.reader \in 0 .. Required
  BY <1>1 DEF IsTemplate
<1>3. \A j \in 1 .. Required :
        t.types[j] = "NONE" => Required = 1 /\ t.reader = 0
  BY <1>1, TemplateAssumption
<1>4. rd \subseteq Regs
  BY DEF RegisterSets
<1>5. Operands(i, rd) = {<<b[j], pos(j)>> : j \in micro}
                        \cup {<<regs[r], rpos(r)>> : r \in read}
  BY DEF Operands
<1>6. \A o : MakeLink(b[i], o).src = o[1] /\ MakeLink(b[i], o).dst = b[i]
  BY DEF MakeLink
<1>7. \A j \in micro : j \in 1 .. Required /\ j < i
  <2> SUFFICES ASSUME NEW l \in t.links, l[1] = i
               PROVE  l[2] \in 1 .. Required /\ l[2] < i
    OBVIOUS
  <2> QED BY <1>2
<1>8. \A r \in read : r \in Regs /\ regs[r] # NoSlot /\ i = t.reader
  BY <1>4
<1>9. \A j \in micro : b[j] \in {l.src : l \in NewLinks(i, rd)}
  <2> SUFFICES ASSUME NEW j \in micro
               PROVE  \E l \in NewLinks(i, rd) : b[j] = l.src
    OBVIOUS
  <2>1. <<b[j], pos(j)>> \in Operands(i, rd)
    BY <1>5
  <2>2. MakeLink(b[i], <<b[j], pos(j)>>) \in NewLinks(i, rd)
    BY <2>1 DEF NewLinks
  <2>3. MakeLink(b[i], <<b[j], pos(j)>>).src = b[j]
    BY <1>6
  <2> QED BY <2>2, <2>3
<1>10. \A r \in read : regs[r] \in {l.src : l \in NewLinks(i, rd)}
  <2> SUFFICES ASSUME NEW r \in read
               PROVE  \E l \in NewLinks(i, rd) : regs[r] = l.src
    OBVIOUS
  <2>1. <<regs[r], rpos(r)>> \in Operands(i, rd)
    BY <1>5
  <2>2. MakeLink(b[i], <<regs[r], rpos(r)>>) \in NewLinks(i, rd)
    BY <2>1 DEF NewLinks
  <2>3. MakeLink(b[i], <<regs[r], rpos(r)>>).src = regs[r]
    BY <1>6
  <2> QED BY <2>2, <2>3
<1>11. ASSUME NEW l \in NewLinks(i, rd)
       PROVE  /\ l.dst = b[i]
              /\ (\E j \in micro : l.src = b[j]) \/ (\E r \in read : l.src = regs[r])
  <2>1. PICK o \in Operands(i, rd) : l = MakeLink(b[i], o)
    BY DEF NewLinks
  <2>2. (\E j \in micro : o = <<b[j], pos(j)>>) \/ (\E r \in read : o = <<regs[r], rpos(r)>>)
    BY <1>5
  <2> HIDE DEF t, b, micro, read, pos, rpos
  <2>3. CASE \E j \in micro : o = <<b[j], pos(j)>>
    <3>1. PICK j \in micro : o = <<b[j], pos(j)>>
      BY <2>3
    <3>2. o[1] = b[j]
      BY <3>1
    <3> QED BY <1>6, <2>1, <3>2
  <2>4. CASE \E r \in read : o = <<regs[r], rpos(r)>>
    <3>1. PICK r \in read : o = <<regs[r], rpos(r)>>
      BY <2>4
    <3>2. o[1] = regs[r]
      BY <3>1
    <3> QED BY <1>6, <2>1, <3>2
  <2> QED BY <2>2, <2>3, <2>4
<1>12. ~mis => TrueProducers(i, rd) \subseteq {l.src : l \in NewLinks(i, rd)}
  <2> SUFFICES ASSUME ~mis, NEW x \in TrueProducers(i, rd)
               PROVE  x \in {l.src : l \in NewLinks(i, rd)}
    OBVIOUS
  <2>1. writer = regs
    BY DEF FlightInv, NeedInv
  <2>2. \/ \E l \in t.links : l[1] = i /\ x = b[l[2]]
        \/ \E r \in rd : i = t.reader /\ writer[r] # NoSlot /\ x = writer[r]
    BY DEF TrueProducers
  <2>3. (\E j \in micro : x = b[j]) \/ (\E r \in read : x = regs[r])
    BY <2>1, <2>2
  <2> QED BY <1>9, <1>10, <2>3
<1> HIDE DEF t, b, micro, read, pos, rpos
<1>13. ASSUME NEW l \in NewLinks(i, rd)
       PROVE  /\ l.dst = b[i] /\ t.types[i] # "NONE"
              /\ \/ \E j \in 1 .. Required : /\ j < i /\ l.src = b[j]
                                             /\ t.types[j] # "NONE"
                 \/ \E r \in Regs : regs[r] # NoSlot /\ l.src = regs[r]
  <2>1. CASE \E j \in micro : l.src = b[j]
    <3>1. PICK j \in micro : l.src = b[j]
      BY <2>1
    <3>2. j \in 1 .. Required /\ j < i
      BY <1>7
    <3>3. Required # 1
      <4> SUFFICES ASSUME Required = 1 PROVE FALSE
        OBVIOUS
      <4>1. i \in 1 .. 1 /\ j \in 1 .. 1 /\ j < i
        BY <3>2
      <4> QED BY <4>1
    <3>4. t.types[i] # "NONE" /\ t.types[j] # "NONE"
      BY <1>3, <3>2, <3>3
    <3> QED BY <1>11, <3>1, <3>2, <3>4
  <2>2. CASE \E r \in read : l.src = regs[r]
    <3>1. PICK r \in read : l.src = regs[r]
      BY <2>2
    <3>2. r \in Regs /\ regs[r] # NoSlot /\ t.reader # 0
      BY <1>1, <1>8
    <3> QED BY <1>3, <1>11, <3>1, <3>2
  <2> QED BY <1>11, <2>1, <2>2
<1> QED BY <1>12, <1>13 DEF t, b

\* What decoding does to each uop and to the links.
LEMMA DecodeFacts ==
    ASSUME TypeInv, ConsInv, FlightInv, dec.state = "allocate",
           Len(dec.buf) = Required, NEW e \in Events, NEW foreseen \in BOOLEAN,
           NEW rd \in RegisterSets(dec.tmpl.reader),
           NEW wr \in RegisterSets(dec.tmpl.writer),
           DecodeInstruction(e, foreseen, rd, wr)
    PROVE  /\ \A s \in Slots \ Held : uop'[s] = uop[s]
           /\ \A i \in 1 .. Required :
                LET v == uop'[dec.buf[i]] IN
                /\ v.type = dec.tmpl.types[i] /\ v.status = "DECODING"
                /\ v.depN = Cardinality(NewLinks(i, rd)) /\ v.resolved = 0
                /\ v.ins = NewLinks(i, rd) /\ v.pstate = DecodedState(e, foreseen)
                /\ v.foresight = (i < Required \/ foreseen)
                /\ v.event = (IF i = 1 THEN e ELSE "none")
                /\ v.needs = (IF mis THEN {} ELSE TrueProducers(i, rd))
           /\ links' = links \cup UNION {NewLinks(i, rd) : i \in 1 .. Required}
<1> DEFINE b == dec.buf
           n == Required
           index(s) == CHOOSE i \in 1 .. n : b[i] = s
           decoded(i) ==
             [type |-> dec.tmpl.types[i], status |-> uop[b[i]].status,
              depN |-> Cardinality(NewLinks(i, rd)), resolved |-> uop[b[i]].resolved,
              ins |-> NewLinks(i, rd), pstate |-> DecodedState(e, foreseen),
              foresight |-> i < n \/ foreseen,
              event |-> IF i = 1 THEN e ELSE "none",
              needs |-> IF mis THEN {} ELSE TrueProducers(i, rd)]
<1>1. /\ RangeOf(b) = Held /\ Held = {b[i] : i \in 1 .. n}
      /\ \A i, j \in 1 .. n : b[i] = b[j] => i = j
      /\ Held \subseteq Slots
  BY DecodeFrame, Order
<1>2. uop' = [s \in Slots |-> IF s \in RangeOf(b) THEN decoded(index(s)) ELSE uop[s]]
  BY DEF DecodeInstruction, NewLinks, DecodedState
<1>3. links' = links \cup UNION {NewLinks(i, rd) : i \in 1 .. n}
  BY DEF DecodeInstruction, NewLinks
<1>4. \A i \in 1 .. n : index(b[i]) = i
  BY <1>1
<1> HIDE DEF index, decoded
<1>5. \A i \in 1 .. n : uop'[b[i]] = decoded(i)
  <2> SUFFICES ASSUME NEW i \in 1 .. n PROVE uop'[b[i]] = decoded(i)
    OBVIOUS
  <2>1. b[i] \in RangeOf(b) /\ b[i] \in Slots
    BY <1>1
  <2> QED BY <1>2, <1>4, <2>1
<1>6. \A s \in Slots \ Held : uop'[s] = uop[s]
  BY <1>1, <1>2
<1>7. \A i \in 1 .. n : uop[b[i]].status = "DECODING" /\ uop[b[i]].resolved = 0
  <2> SUFFICES ASSUME NEW i \in 1 .. n
               PROVE  uop[b[i]].status = "DECODING" /\ uop[b[i]].resolved = 0
    OBVIOUS
  <2>1. uop[b[i]] = [FreeUop EXCEPT !.status = "DECODING"]
    BY <1>1 DEF FlightInv, StatusInv
  <2> QED BY <2>1 DEF FreeUop
<1>8. ASSUME NEW i \in 1 .. n
      PROVE  LET v == uop'[b[i]] IN
             /\ v.type = dec.tmpl.types[i] /\ v.status = "DECODING"
             /\ v.depN = Cardinality(NewLinks(i, rd)) /\ v.resolved = 0
             /\ v.ins = NewLinks(i, rd) /\ v.pstate = DecodedState(e, foreseen)
             /\ v.foresight = (i < n \/ foreseen)
             /\ v.event = (IF i = 1 THEN e ELSE "none")
             /\ v.needs = (IF mis THEN {} ELSE TrueProducers(i, rd))
  <2> DEFINE early == i < n \/ foreseen
             event == IF i = 1 THEN e ELSE "none"
             needs == IF mis THEN {} ELSE TrueProducers(i, rd)
             st == uop[b[i]].status
             res == uop[b[i]].resolved
  <2>1. uop'[b[i]] =
          [type |-> dec.tmpl.types[i], status |-> st,
           depN |-> Cardinality(NewLinks(i, rd)), resolved |-> res,
           ins |-> NewLinks(i, rd), pstate |-> DecodedState(e, foreseen),
           foresight |-> early, event |-> event, needs |-> needs]
    BY <1>5 DEF decoded
  <2>2. st = "DECODING" /\ res = 0
    BY <1>7
  <2> HIDE DEF early, event, needs, st, res
  <2>3. LET v == uop'[b[i]] IN
        /\ v.type = dec.tmpl.types[i] /\ v.status = st
        /\ v.depN = Cardinality(NewLinks(i, rd)) /\ v.resolved = res
        /\ v.ins = NewLinks(i, rd) /\ v.pstate = DecodedState(e, foreseen)
        /\ v.foresight = early /\ v.event = event /\ v.needs = needs
    BY <2>1
  <2> QED BY <2>2, <2>3 DEF early, event, needs
<1> QED BY <1>3, <1>6, <1>8

\* The links that lead to the uops of an instruction once it is decoded.
LEMMA DecodedLinks ==
    ASSUME TypeInv, ConsInv, FlightInv, dec.state = "allocate",
           Len(dec.buf) = Required, NEW rd \in RegisterSets(dec.tmpl.reader),
           links' = links \cup UNION {NewLinks(i, rd) : i \in 1 .. Required}
    PROVE  /\ \A s \in RangeOf(rob) : LinksTo(s)' = LinksTo(s)
           /\ \A i \in 1 .. Required : \A s :
                s = dec.buf[i] => LinksTo(s)' = NewLinks(i, rd)
<1>1. /\ Held = {dec.buf[i] : i \in 1 .. Required}
      /\ \A i, j \in 1 .. Required : dec.buf[i] = dec.buf[j] => i = j
      /\ RangeOf(rob) \cap Held = {} /\ Decoded = RangeOf(rob)
  BY DecodeFrame, OnePlace
<1>2. \A i \in 1 .. Required : \A l \in NewLinks(i, rd) : l.dst = dec.buf[i]
  BY NewLinkFacts
<1>3. \A l \in links : l.dst \in RangeOf(rob)
  BY <1>1 DEF FlightInv, LinkInv
<1>4. ASSUME NEW s \in RangeOf(rob) PROVE LinksTo(s)' = LinksTo(s)
  <2>1. ASSUME NEW i \in 1 .. Required, NEW l \in NewLinks(i, rd) PROVE l.dst # s
    BY <1>1, <1>2
  <2> QED BY <2>1 DEF LinksTo
<1>5. ASSUME NEW i \in 1 .. Required, NEW s, s = dec.buf[i]
      PROVE  LinksTo(s)' = NewLinks(i, rd)
  <2>1. \A l \in links : l.dst # s
    BY <1>1, <1>3, <1>5
  <2>2. ASSUME NEW j \in 1 .. Required, NEW l \in NewLinks(j, rd), l.dst = s
        PROVE  j = i
    BY <1>1, <1>2, <1>5, <2>2
  <2> QED BY <1>2, <1>5, <2>1, <2>2 DEF LinksTo
<1> QED BY <1>4, <1>5

\* The instruction in the decoder is decoded: every uop gets its operands, its
\* place on or off the path, and nothing in the reorder buffer changes.
LEMMA FlightDecode ==
    ASSUME TypeInv, ConsInv, FlightInv, Decode, TypeInv', ConsInv'
    PROVE  FlightInv'
<1>1. PICK e \in Events, foreseen \in BOOLEAN,
           rd \in RegisterSets(dec.tmpl.reader), wr \in RegisterSets(dec.tmpl.writer) :
        /\ mis => e = "none" /\ foreseen
        /\ e # "none" => MayRaise(e) /\ foreseen
        /\ DecodeInstruction(e, foreseen, rd, wr)
  BY DEF Decode
<1> DEFINE b == dec.buf
           n == Required
           types == dec.tmpl.types
           ps == DecodedState(e, foreseen)
           R == RangeOf(rob)
           H == Held
<1>2. /\ UNCHANGED <<phase, supply, rob, rsq, lsq, fu, writeReady, numBranches, wbFlusher>>
      /\ phase = "decode" /\ dec.state = "allocate" /\ Len(dec.buf) = Required
      /\ dec' = [dec EXCEPT !.state = "dispatch"]
  BY DEF Decode, queues
<1>3. /\ dec'.buf = b /\ dec'.sent = dec.sent /\ dec'.state = "dispatch"
      /\ dec'.tmpl = dec.tmpl
  BY <1>2 DEF TypeInv, TypeOK
<1>4. /\ Decoded = R /\ dec.sent = 0 /\ n \in Nat /\ n > 0
      /\ H = {b[i] : i \in 1 .. n}
      /\ \A i, j \in 1 .. n : /\ b[i] = b[j] => i = j
                              /\ i < j => Before(b[i], b[j])
  BY <1>2, DecodeFrame
<1>5. /\ RangeOf(rob') = R /\ Held' = H
      /\ \A s, t : Before(s, t)' <=> Before(s, t)
      /\ Decoded' = R \cup H
  BY <1>2, <1>3, SameOrder, DecodedPlace DEF Decoded
<1>6. /\ R \cup H \subseteq Slots /\ RangeOf(supply) \subseteq Slots
      /\ RangeOf(supply) \cap (R \cup H) = {} /\ R \cap H = {}
      /\ \A s, t : Before(s, t) => ~Before(t, s)
      /\ \A s \in R, t \in H : Before(s, t)
      /\ rob # <<>> => Head(rob) \in R
  BY Order, OnePlace, RangeOfSequence DEF TypeInv, TypeOK
<1>7. /\ \A s \in Slots \ H : uop'[s] = uop[s]
      /\ \A i \in 1 .. n :
           LET v == uop'[b[i]] IN
           /\ v.type = types[i] /\ v.status = "DECODING"
           /\ v.depN = Cardinality(NewLinks(i, rd)) /\ v.resolved = 0
           /\ v.ins = NewLinks(i, rd) /\ v.pstate = ps
           /\ v.foresight = (i < n \/ foreseen)
           /\ v.event = (IF i = 1 THEN e ELSE "none")
           /\ v.needs = (IF mis THEN {} ELSE TrueProducers(i, rd))
      /\ links' = links \cup UNION {NewLinks(i, rd) : i \in 1 .. n}
  BY <1>1, <1>2, DecodeFacts
<1>8. /\ regs' = [r \in Regs |-> IF r \in wr THEN b[dec.tmpl.writer] ELSE regs[r]]
      /\ writer' = [r \in Regs |-> IF r \in wr /\ ~mis THEN b[dec.tmpl.writer]
                                   ELSE writer[r]]
      /\ mis' = (mis \/ e # "none" \/ ~foreseen)
  BY <1>1 DEF DecodeInstruction, DisablesExec
<1>9. /\ IsTemplate(dec.tmpl) /\ dec.tmpl \in Templates /\ n = Len(types)
      /\ DOMAIN types = 1 .. n
  <2>1. dec.tmpl \in Templates
    BY <1>2 DEF TypeInv, DecoderConsistent
  <2>2. IsTemplate(dec.tmpl)
    BY <2>1, TemplateAssumption
  <2> QED BY <2>1, <2>2, LenProperties DEF IsTemplate, Required
<1>10. \A i \in 1 .. n :
         /\ types[i] = "BRANCH" => n = 1
         /\ types[i] = "NONE" => dec.tmpl.writer = 0
  BY <1>9, TemplateAssumption
<1>11. /\ \A s \in R : LinksTo(s)' = LinksTo(s)
       /\ \A i \in 1 .. n : \A s : s = b[i] => LinksTo(s)' = NewLinks(i, rd)
  BY <1>2, <1>7, DecodedLinks
<1>12. \A i \in 1 .. n :
         /\ \A l \in NewLinks(i, rd) :
              /\ l.dst = b[i] /\ types[i] # "NONE"
              /\ \/ \E j \in 1 .. n : j < i /\ l.src = b[j] /\ types[j] # "NONE"
                 \/ \E r \in Regs : regs[r] # NoSlot /\ l.src = regs[r]
         /\ ~mis => TrueProducers(i, rd) \subseteq {l.src : l \in NewLinks(i, rd)}
  BY <1>2, NewLinkFacts
<1> HIDE DEF b, n, types, ps, R, H
<1>13. \A s \in R \cup RangeOf(supply) : s \in Slots /\ s \notin H /\ uop'[s] = uop[s]
  BY <1>6, <1>7
<1>14. \A s \in H : \E i \in 1 .. n : s = b[i]
  BY <1>4
<1>15. \A i \in 1 .. n : b[i] \in H /\ b[i] \in Slots /\ b[i] \notin R
  BY <1>4, <1>6
<1>16. StatusInv'
  <2>1. \A s \in H : uop'[s].status = "DECODING"
    BY <1>7, <1>14
  <2> QED BY <1>2, <1>3, <1>5, <1>13, <2>1 DEF FlightInv, StatusInv, R
<1>17. QueueInv'
  BY <1>2, <1>5, <1>13 DEF FlightInv, QueueInv, R
<1>18. UnitInv'
  <2>1. \A s \in Slots : uop'[s].status = "EXECUTING" => uop[s].status = "EXECUTING"
    BY <1>7, <1>14
  <2> QED BY <1>2, <1>5, <1>13, <2>1 DEF FlightInv, UnitInv, R
<1>19. ASSUME NEW l \in links
       PROVE  /\ l.src \in R /\ l.dst \in R /\ Before(l.src, l.dst)
              /\ uop'[l.src] = uop[l.src] /\ uop'[l.dst] = uop[l.dst]
  BY <1>4, <1>13 DEF FlightInv, LinkInv
<1>20. ASSUME NEW r \in Regs, regs[r] # NoSlot
       PROVE  /\ regs[r] \in R /\ uop'[regs[r]] = uop[regs[r]]
              /\ uop[regs[r]].status # "READY" /\ uop[regs[r]].type # "NONE"
  BY <1>4, <1>13, <1>20 DEF FlightInv, RegInv
<1>21. LinkInv'
  <2>1. ASSUME NEW l \in links'
        PROVE  /\ {l.src, l.dst} \subseteq Decoded'
               /\ Before(l.src, l.dst)'
               /\ uop'[l.src].type # "NONE" /\ uop'[l.dst].type # "NONE"
               /\ uop'[l.src].status # "READY"
               /\ uop'[l.dst].status \in {"DECODING", "WAIT_DEP"}
    <3>1. CASE l \in links
      BY <1>5, <1>19, <3>1 DEF FlightInv, LinkInv
    <3>2. CASE l \notin links
      <4>1. PICK i \in 1 .. n : l \in NewLinks(i, rd)
        BY <1>7, <3>2
      <4>2. /\ l.dst = b[i] /\ b[i] \in H
            /\ uop'[l.dst].type # "NONE" /\ uop'[l.dst].status = "DECODING"
        BY <1>7, <1>12, <1>15, <4>1
      <4>3. CASE \E j \in 1 .. n : j < i /\ l.src = b[j] /\ types[j] # "NONE"
        <5>1. PICK j \in 1 .. n : j < i /\ l.src = b[j] /\ types[j] # "NONE"
          BY <4>3
        <5>2. uop'[l.src].type # "NONE" /\ uop'[l.src].status = "DECODING" /\ l.src \in H
          BY <1>7, <1>15, <5>1
        <5>3. Before(l.src, l.dst)
          BY <1>4, <4>2, <5>1
        <5> QED BY <1>5, <4>2, <5>2, <5>3
      <4>4. CASE \E r \in Regs : regs[r] # NoSlot /\ l.src = regs[r]
        <5>1. /\ l.src \in R /\ uop'[l.src].status # "READY" /\ uop'[l.src].type # "NONE"
          BY <1>20, <4>4
        <5>2. Before(l.src, l.dst)
          BY <1>6, <4>2, <5>1
        <5> QED BY <1>5, <4>2, <5>1, <5>2
      <4> QED BY <1>12, <4>1, <4>3, <4>4
    <3> QED BY <3>1, <3>2
  <2>2. ASSUME NEW s \in Decoded'
        PROVE  /\ uop'[s].depN = uop'[s].resolved + Cardinality(LinksTo(s)')
               /\ uop'[s].status = "WAIT_DEP" => LinksTo(s)' # {}
               /\ \A l \in uop'[s].ins : l.dst = s
    <3>1. CASE s \in R
      BY <1>4, <1>11, <1>13, <3>1 DEF FlightInv, LinkInv
    <3>2. CASE s \in H
      <4>1. PICK i \in 1 .. n : s = b[i]
        BY <1>14, <3>2
      <4>2. LinksTo(s)' = NewLinks(i, rd)
        BY <1>11, <4>1
      <4>3. /\ uop'[s].depN = Cardinality(NewLinks(i, rd)) /\ uop'[s].resolved = 0
            /\ uop'[s].status = "DECODING" /\ uop'[s].ins = NewLinks(i, rd)
        BY <1>7, <4>1
      <4>4. Cardinality(NewLinks(i, rd)) \in Nat
        <5>1. IsFiniteSet(LinksTo(s)')
          <6>1. LinksTo(s)' \subseteq links' /\ IsFiniteSet(links')
            BY DEF LinksTo, TypeInv
          <6> QED BY <6>1, FS_Subset
        <5> QED BY <4>2, <5>1, FS_CardinalityType
      <4>5. uop'[s].depN = uop'[s].resolved + Cardinality(LinksTo(s)')
        BY <4>2, <4>3, <4>4
      <4> QED BY <1>12, <4>1, <4>3, <4>5
    <3> QED BY <1>5, <3>1, <3>2
  <2> QED BY <2>1, <2>2 DEF LinkInv
<1>22. CrossInv'
  <2> SUFFICES ASSUME NumRegs = 0, NEW l \in links', NEW t \in Decoded',
                      uop'[t].type = "BRANCH"
               PROVE  Before(t, l.src)' \/ Before(l.dst, t)'
    BY DEF CrossInv
  <2>1. CASE l \in links
    <3>1. CASE t \in R
      BY <1>4, <1>5, <1>13, <2>1, <3>1 DEF FlightInv, CrossInv
    <3>2. CASE t \in H
      BY <1>5, <1>6, <1>19, <2>1, <3>2
    <3> QED BY <1>5, <3>1, <3>2
  <2>2. CASE l \notin links
    <3>1. PICK i \in 1 .. n : l \in NewLinks(i, rd)
      BY <1>7, <2>2
    <3>2. Regs = {}
      BY DEF Regs
    <3>3. PICK j \in 1 .. n : j < i /\ l.src = b[j]
      BY <1>12, <3>1, <3>2
    <3>4. t \in R
      <4> SUFFICES ASSUME t \in H PROVE FALSE
        BY <1>5
      <4>1. PICK k \in 1 .. n : t = b[k]
        BY <1>14
      <4>2. n = 1
        BY <1>7, <1>10, <4>1
      <4>3. i \in 1 .. 1 /\ j \in 1 .. 1 /\ j < i
        BY <3>3, <4>2
      <4> QED BY <4>3
    <3> QED BY <1>5, <1>6, <1>15, <3>3, <3>4
  <2> QED BY <2>1, <2>2
<1>23. RegInv'
  <2> SUFFICES ASSUME NEW r \in Regs, regs'[r] # NoSlot
               PROVE  /\ regs'[r] \in Decoded'
                      /\ uop'[regs'[r]].status # "READY" /\ uop'[regs'[r]].type # "NONE"
    BY DEF RegInv
  <2>1. CASE r \in wr
    <3>1. dec.tmpl.writer \in 0 .. n /\ dec.tmpl.writer # 0
      <4>1. dec.tmpl.writer \in 0 .. Len(dec.tmpl.types)
        BY <1>9 DEF IsTemplate
      <4>2. dec.tmpl.writer # 0
        BY <2>1 DEF RegisterSets
      <4> QED BY <1>9, <4>1, <4>2 DEF types
    <3>2. dec.tmpl.writer \in 1 .. n
      BY <1>4, <3>1
    <3>3. types[dec.tmpl.writer] # "NONE"
      BY <1>10, <3>1, <3>2
    <3>4. regs'[r] = b[dec.tmpl.writer]
      BY <1>8, <2>1
    <3> QED BY <1>5, <1>7, <1>15, <3>2, <3>3, <3>4
  <2>2. CASE r \notin wr
    <3>1. regs'[r] = regs[r]
      BY <1>8, <2>2
    <3> QED BY <1>5, <1>20, <3>1
  <2> QED BY <2>1, <2>2
<1>24. NeedInv'
  <2>1. ~mis' => writer' = regs'
    BY <1>8 DEF FlightInv, NeedInv
  <2>2. \A s \in R : uop'[s].needs \subseteq {l.src : l \in LinksTo(s)'}
    BY <1>4, <1>11, <1>13 DEF FlightInv, NeedInv
  <2>3. ASSUME NEW s \in H PROVE uop'[s].needs \subseteq {l.src : l \in LinksTo(s)'}
    <3>1. PICK i \in 1 .. n : s = b[i]
      BY <1>14
    <3>2. LinksTo(s)' = NewLinks(i, rd)
      BY <1>11, <3>1
    <3>3. uop'[s].needs = (IF mis THEN {} ELSE TrueProducers(i, rd))
      BY <1>7, <3>1
    <3> QED BY <1>12, <3>2, <3>3
  <2> QED BY <1>5, <2>1, <2>2, <2>3 DEF NeedInv
<1>25. StoreInv'
  <2>1. rob # <<>> => uop'[Head(rob)] = uop[Head(rob)]
    BY <1>6, <1>13
  <2> QED BY <1>2, <1>5, <1>13, <2>1 DEF FlightInv, StoreInv, R
<1>26. \A s \in R : Diverts(s)' <=> Diverts(s)
  BY <1>13 DEF Diverts, Executed, Flushing
<1>27. ASSUME NEW i \in 1 .. n, NEW s, s = b[i]
       PROVE  Diverts(s)' <=> ~mis /\ ((i = 1 /\ e # "none") \/ (i = n /\ ~foreseen))
  <2>1. /\ uop'[s].pstate = ps /\ uop'[s].foresight = (i < n \/ foreseen)
        /\ uop'[s].event = (IF i = 1 THEN e ELSE "none")
    BY <1>7, <1>27
  <2>2. ps \in {"VALID", "CAN_FLUSH"} <=> ~mis
    BY DEF ps, DecodedState
  <2>3. ~(i < n) <=> i = n
    BY <1>4, <1>27
  <2>4. Executed(s)' <=> ~mis
    BY <2>1, <2>2 DEF Executed
  <2>5. Flushing(s)' <=> (i = 1 /\ e # "none") \/ ~(i < n \/ foreseen)
    BY <2>1 DEF Flushing
  <2> QED BY <2>3, <2>4, <2>5 DEF Diverts
<1>28. 1 \in 1 .. n /\ n \in 1 .. n
  BY <1>4
<1>29. (mis <=> \E s \in Decoded : Diverts(s))'
  <2>1. mis <=> \E s \in R : Diverts(s)
    BY <1>4 DEF FlightInv, PathInv
  <2>2. CASE mis
    BY <1>5, <1>8, <1>26, <2>1, <2>2
  <2>3. CASE ~mis
    <3>1. (\E s \in H : Diverts(s)') <=> e # "none" \/ ~foreseen
      <4>1. \A s \in H : Diverts(s)' => e # "none" \/ ~foreseen
        BY <1>14, <1>27
      <4>2. ASSUME e # "none" PROVE \E s \in H : Diverts(s)'
        <5>1. PICK s \in H : s = b[1]
          BY <1>15, <1>28
        <5> QED BY <1>27, <1>28, <2>3, <4>2, <5>1
      <4>3. ASSUME ~foreseen PROVE \E s \in H : Diverts(s)'
        <5>1. PICK s \in H : s = b[n]
          BY <1>15, <1>28
        <5> QED BY <1>27, <1>28, <2>3, <4>3, <5>1
      <4> QED BY <4>1, <4>2, <4>3
    <3> QED BY <1>5, <1>8, <1>26, <2>1, <2>3, <3>1
  <2> QED BY <2>2, <2>3
<1>30. (\A s, t \in Decoded : Diverts(s) /\ Diverts(t) => s = t)'
  <2> SUFFICES ASSUME NEW s \in Decoded', NEW t \in Decoded', Diverts(s)', Diverts(t)'
               PROVE  s = t
    OBVIOUS
  <2>1. CASE mis
    <3>1. s \in R /\ t \in R
      BY <1>5, <1>14, <1>27, <2>1
    <3> QED BY <1>4, <1>26, <3>1 DEF FlightInv, PathInv
  <2>2. CASE ~mis
    <3>1. s \notin R /\ t \notin R
      BY <1>4, <1>26, <2>2 DEF FlightInv, PathInv
    <3>2. PICK i \in 1 .. n : s = b[i]
      BY <1>5, <1>14, <3>1
    <3>3. PICK j \in 1 .. n : t = b[j]
      BY <1>5, <1>14, <3>1
    <3>4. i = j
      BY <1>1, <1>27, <3>2, <3>3
    <3> QED BY <3>2, <3>3, <3>4
  <2> QED BY <2>1, <2>2
<1>31. (\A s \in Decoded : uop[s].pstate = "INVALID" =>
          \E t \in Decoded : Diverts(t) /\ Before(t, s))'
  <2> SUFFICES ASSUME NEW s \in Decoded', uop'[s].pstate = "INVALID"
               PROVE  \E t \in Decoded' : Diverts(t)' /\ Before(t, s)'
    OBVIOUS
  <2>1. CASE s \in R
    <3>1. PICK t \in R : Diverts(t) /\ Before(t, s)
      BY <1>4, <1>13, <2>1 DEF FlightInv, PathInv
    <3> QED BY <1>5, <1>26, <3>1
  <2>2. CASE s \in H
    <3>1. mis
      <4>1. PICK i \in 1 .. n : s = b[i]
        BY <1>14, <2>2
      <4>2. ps = "INVALID"
        BY <1>7, <4>1
      <4> QED BY <4>2 DEF ps, DecodedState
    <3>2. PICK t \in R : Diverts(t)
      BY <1>4, <3>1 DEF FlightInv, PathInv
    <3> QED BY <1>5, <1>6, <1>26, <2>2, <3>2
  <2> QED BY <1>5, <2>1, <2>2
<1>32. (\A s, t \in Decoded : Diverts(t) /\ uop[t].event # "exception" /\ Before(t, s)
          => uop[s].pstate = "INVALID")'
  <2> SUFFICES ASSUME NEW s \in Decoded', NEW t \in Decoded', Diverts(t)',
                      uop'[t].event # "exception", Before(t, s)'
               PROVE  uop'[s].pstate = "INVALID"
    OBVIOUS
  <2>1. Before(t, s)
    BY <1>5
  <2>2. CASE t \in R
    <3>1. Diverts(t) /\ mis /\ uop[t].event # "exception"
      BY <1>4, <1>13, <1>26, <2>2 DEF FlightInv, PathInv
    <3>2. CASE s \in R
      BY <1>4, <1>13, <2>1, <2>2, <3>1, <3>2 DEF FlightInv, PathInv
    <3>3. CASE s \in H
      <4>1. ps = "INVALID"
        BY <3>1 DEF ps, DecodedState
      <4> QED BY <1>7, <1>14, <3>3, <4>1
    <3> QED BY <1>5, <3>2, <3>3
  <2>3. CASE t \in H
    <3>1. s \in H
      BY <1>5, <1>6, <2>1, <2>3
    <3>2. PICK j \in 1 .. n : t = b[j]
      BY <1>14, <2>3
    <3>3. PICK i \in 1 .. n : s = b[i]
      BY <1>14, <3>1
    <3>4. j < i
      <4>1. ~(i < j) /\ i # j
        BY <1>4, <1>6, <2>1, <3>2, <3>3
      <4> QED BY <1>4, <4>1
    <3>5. j = 1 /\ e # "none"
      <4>1. (j = 1 /\ e # "none") \/ (j = n /\ ~foreseen)
        BY <1>27, <3>2
      <4>2. j # n
        BY <1>4, <3>4
      <4> QED BY <4>1, <4>2
    <3>6. e # "exception"
      BY <1>7, <3>2, <3>5
    <3>7. types = <<"NONE">>
      <4>1. e \in {"trap", "halt", "flush"}
        BY <3>5, <3>6, TemplateAssumption DEF EventKinds
      <4> QED BY <1>1, <3>5, <4>1 DEF MayRaise, types
    <3>8. n = 1
      BY <1>9, <3>7
    <3> QED BY <1>4, <3>4, <3>8
  <2> QED BY <1>5, <2>2, <2>3
<1>33. ps = "CAN_FLUSH" => types = <<"BRANCH">> /\ n = 1 /\ e = "none" /\ ~foreseen
  <2>1. types = <<"BRANCH">> => n = 1
    BY <1>9
  <2> QED BY <2>1 DEF ps, DecodedState, types
<1>34. (\A s \in Decoded :
          /\ uop[s].pstate # "UNSET"
          /\ uop[s].pstate = "CAN_FLUSH" =>
               uop[s].type = "BRANCH" /\ uop[s].event = "none")'
  <2>1. \A s \in R : /\ uop'[s].pstate # "UNSET"
                     /\ uop'[s].pstate = "CAN_FLUSH" =>
                          uop'[s].type = "BRANCH" /\ uop'[s].event = "none"
    BY <1>4, <1>13 DEF FlightInv, PathInv
  <2>2. ASSUME NEW s \in H
        PROVE  /\ uop'[s].pstate # "UNSET"
               /\ uop'[s].pstate = "CAN_FLUSH" =>
                    uop'[s].type = "BRANCH" /\ uop'[s].event = "none"
    <3>1. PICK i \in 1 .. n : s = b[i]
      BY <1>14
    <3>2. /\ uop'[s].pstate = ps /\ uop'[s].type = types[i]
          /\ uop'[s].event = (IF i = 1 THEN e ELSE "none")
      BY <1>7, <3>1
    <3>3. ps # "UNSET"
      BY DEF ps, DecodedState
    <3>4. types = <<"BRANCH">> /\ n = 1 => types[i] = "BRANCH"
      <4> SUFFICES ASSUME types = <<"BRANCH">>, n = 1 PROVE types[i] = "BRANCH"
        OBVIOUS
      <4>1. i = 1
        OBVIOUS
      <4> QED BY <4>1
    <3> QED BY <1>33, <3>2, <3>3, <3>4
  <2> QED BY <1>5, <2>1, <2>2
<1>35. (dec.state = "dispatch" => \A s \in Held :
          uop[s].pstate = "CAN_FLUSH" => ~uop[s].foresight)'
  <2> SUFFICES ASSUME NEW s \in H, uop'[s].pstate = "CAN_FLUSH"
               PROVE  ~uop'[s].foresight
    BY <1>5
  <2>1. PICK i \in 1 .. n : s = b[i]
    BY <1>14
  <2>2. ps = "CAN_FLUSH" /\ uop'[s].foresight = (i < n \/ foreseen)
    BY <1>7, <2>1
  <2>3. n = 1 /\ ~foreseen
    BY <1>33, <2>2
  <2>4. ~(i < n)
    BY <2>3
  <2> QED BY <2>2, <2>3, <2>4
<1>36. PathInv'
  BY <1>29, <1>30, <1>31, <1>32, <1>34, <1>35 DEF PathInv
<1>37. TypesInv'
  <2>1. Len(dec'.buf) = n
    BY <1>2, <1>3 DEF n
  <2>2. \A j \in 1 .. n : uop'[b[j]].type = types[j]
    BY <1>7
  <2>3. dec'.sent = 0 /\ 0 + 1 = 1
    BY <1>3, <1>4
  <2> QED BY <1>3, <2>1, <2>2, <2>3 DEF TypesInv, types
<1>38. FlusherInv'
  BY <1>2, <1>4, <1>5, <1>13 DEF FlightInv, FlusherInv
<1>39. CountInv'
  <2>1. Counted' \subseteq Counted
    <3> SUFFICES ASSUME NEW s \in Counted' PROVE s \in Counted
      OBVIOUS
    <3>1. /\ s \in R \cup H /\ uop'[s].type = "BRANCH" /\ Executed(s)'
          /\ uop'[s].status # "READY"
          /\ s \in R \/ s = wbFlusher \/ uop'[s].status # "DECODING"
      BY <1>2, <1>5 DEF Counted
    <3>2. s \in R
      <4> SUFFICES ASSUME s \in H PROVE FALSE
        BY <3>1
      <4>1. uop'[s].status = "DECODING" /\ s \notin R /\ s \in Slots
        BY <1>6, <1>7, <1>14
      <4>2. wbFlusher # NoSlot => wbFlusher \in R
        BY <1>4 DEF FlightInv, FlusherInv
      <4> QED BY <3>1, <4>1, <4>2, SlotAssumption
    <3>3. uop'[s] = uop[s] /\ s \in Decoded
      BY <1>4, <1>13, <3>2
    <3> QED BY <3>1, <3>2, <3>3 DEF Counted, Executed, R
  <2> QED BY <1>2, <2>1, CountSame DEF FlightInv
<1> QED BY <1>16, <1>17, <1>18, <1>21, <1>22, <1>23, <1>24, <1>25, <1>36, <1>37,
           <1>38, <1>39 DEF FlightInv

-----------------------------------------------------------------------------
\* The invariant.

\* Every step keeps FlightInv.
LEMMA FlightNext ==
    ASSUME NoStaleLinks, TypeInv, ConsInv, FlightInv, [Next]_vars
    PROVE  FlightInv'
<1>1. TypeInv' /\ ConsInv'
  BY TypeNext, ConsNext
<1>2. CASE TakeInterrupt \/ CommitFlushing
  BY <1>1, <1>2, FlightFlush DEF TakeInterrupt, CommitFlushing
<1>3. CASE Commit
  BY <1>1, <1>3, FlightCommit
<1>4. CASE CommitStops
  BY <1>1, <1>4, FlightCommitStops
<1>5. CASE WriteBack
  BY <1>1, <1>5, FlightWriteBack
<1>6. CASE FlushOnWriteBack
  BY <1>1, <1>6, FlightFlushOnWriteBack
<1>7. CASE IssueRs
  BY <1>1, <1>7, FlightIssueRs
<1>8. CASE IssueLs
  BY <1>1, <1>8, FlightIssueLs
<1>9. CASE Allocate
  BY <1>1, <1>9, FlightAllocate
<1>10. CASE Decode
  BY <1>1, <1>10, FlightDecode
<1>11. CASE Dispatch
  BY <1>1, <1>11, FlightDispatch
<1>12. CASE DispatchStops
  BY <1>1, <1>12, FlightDispatchStops
<1>13. CASE DecodeStart
  <2>1. dec = IdleDecoder
    BY <1>13 DEF DecodeStart, TypeInv, DecoderConsistent
  <2>2. /\ dec.state = "idle" /\ dec'.state = "allocate"
        /\ dec'.buf = dec.buf /\ dec'.sent = dec.sent
    BY <1>13, <2>1 DEF DecodeStart, IdleDecoder
  <2>3. UNCHANGED <<uop, links, regs, supply, rob, rsq, lsq, fu, writeReady,
                    mis, numBranches, wbFlusher, writer>>
    BY <1>13 DEF DecodeStart, queues, recovery
  <2> QED BY <1>1, <2>2, <2>3, FlightStill
<1>14. CASE \/ NoInterrupt \/ UnitIdle \/ UnitExecutes \/ ExecDone \/ IssueDone
            \/ DecodeStops \/ AllocateStops \/ DeviceInterrupt \/ DevicesQuiet
            \/ UNCHANGED vars
  <2>1. /\ UNCHANGED <<uop, links, regs, supply, rob, rsq, lsq, fu, writeReady,
                       mis, numBranches, wbFlusher, writer>>
        /\ dec' = dec
    BY <1>14 DEF NoInterrupt, UnitIdle, UnitExecutes, ExecDone, IssueDone, DecodeStops,
                 AllocateStops, DeviceInterrupt, DevicesQuiet, vars, queues, recovery
  <2>2. phase = "decode" => phase' = "decode" \/ dec.state # "dispatch"
    BY <1>14 DEF NoInterrupt, UnitIdle, UnitExecutes, ExecDone, IssueDone, DecodeStops,
                 AllocateStops, DeviceInterrupt, DevicesQuiet, vars
  <2> QED BY <1>1, <2>1, <2>2, FlightStill
<1> QED BY <1>2, <1>3, <1>4, <1>5, <1>6, <1>7, <1>8, <1>9, <1>10, <1>11, <1>12, <1>13,
           <1>14
        DEF Next, CommitPhase, ExecPhase, IssuePhase, DecodePhase

\* What is known of every reachable state.
FullInv == TypeInv /\ ConsInv /\ FlightInv

\* The inductive invariant of the uops in flight: their slots, queues, units,
\* links, operands and paths fit together after every step of the pipeline.
THEOREM FlightInvariant == NoStaleLinks => (Spec => []FullInv)
<1> SUFFICES ASSUME NoStaleLinks PROVE Spec => []FullInv
  OBVIOUS
<1>1. Init => FullInv
  BY TypeInit, ConsInit, FlightInit DEF FullInv
<1>2. FullInv /\ [Next]_vars => FullInv'
  BY TypeNext, ConsNext, FlightNext DEF FullInv
<1> QED BY <1>1, <1>2, PTL DEF Spec

-----------------------------------------------------------------------------
\* What the invariant implies.

\* A slot the decoder holds without having decoded it is not executed.
LEMMA ExecutedIsDecoded ==
    ASSUME FullInv
    PROVE  /\ InFlight = RangeOf(rob) \cup Held /\ InFlight \subseteq Slots
           /\ Decoded \subseteq InFlight
           /\ \A s \in InFlight : s \notin Decoded => uop[s].pstate = "UNSET"
<1>1. InFlight = RangeOf(rob) \cup Held
  BY BufferedRange DEF InFlight, FullInv
<1>2. RangeOf(rob) \cup Held \subseteq Slots
  BY Order DEF FullInv
<1>3. ASSUME NEW s \in InFlight, s \notin Decoded
      PROVE  uop[s].pstate = "UNSET"
  <2>1. s \in Held /\ dec.state # "dispatch"
    BY <1>1, <1>3 DEF Decoded
  <2>2. dec.state # "idle"
    BY <2>1, EmptyHeld DEF FullInv, TypeInv, DecoderConsistent
  <2>3. dec.state = "allocate"
    BY <2>1, <2>2 DEF FullInv, TypeInv, TypeOK
  <2>4. uop[s] = [FreeUop EXCEPT !.status = "DECODING"]
    BY <2>1, <2>3 DEF FullInv, FlightInv, StatusInv
  <2> QED BY <2>4 DEF FreeUop
<1> QED BY <1>1, <1>2, <1>3, DecodedPlace

\* The older uops are the ones before.
LEMMA OlderIsBefore ==
    ASSUME TypeInv, NEW s, NEW t
    PROVE  t \in OlderThan(s) <=> Before(t, s)
<1>1. DOMAIN ProgramOrder = 1 .. Len(ProgramOrder)
  BY OrderIs, LenProperties
<1> QED BY <1>1 DEF OlderThan, Before, Precedes

\* The queues and units from their part of the invariant.
LEMMA QueuesFromInv == FullInv => QueueMembership
<1> SUFFICES ASSUME FullInv PROVE QueueMembership
  OBVIOUS
<1>1. ASSUME NEW s \in Slots
      PROVE  uop[s].status = "FREE" <=> s \in RangeOf(supply)
  <2>1. s \in RangeOf(supply) => uop[s].status = "FREE"
    BY DEF FullInv, FlightInv, StatusInv, FreeUop
  <2>2. s \in RangeOf(rob) => uop[s].status # "FREE"
    BY DEF FullInv, FlightInv, StatusInv, Unfinished
  <2>3. s \in Held => uop[s].status # "FREE"
    <3>1. s \in Held => dec.state \in {"allocate", "dispatch"}
      BY EmptyHeld DEF FullInv, TypeInv, TypeOK, DecoderConsistent
    <3> QED BY <3>1 DEF FullInv, FlightInv, StatusInv, FreeUop
  <2> QED BY <2>1, <2>2, <2>3 DEF FullInv, ConsInv
<1>2. rsq \cup lsq = {s \in RangeOf(rob) : uop[s].status \in Unfinished}
  <2>1. \A s \in RangeOf(rob) : uop[s].type \in UopTypes
    BY Order DEF FullInv, TypeInv, TypeOK, Uop
  <2>2. \A s \in RangeOf(rob) :
          uop[s].status \in Unfinished =>
            uop[s].type \in {"ALU", "BRANCH"} \/ uop[s].type \in {"LOAD", "STORE"}
    BY <2>1 DEF FullInv, FlightInv, QueueInv, UopTypes, Unfinished
  <2> QED BY <2>2 DEF FullInv, FlightInv, QueueInv
<1>3. ASSUME NEW s \in Slots
      PROVE  Cardinality({u \in 1 .. Units : fu[u] = s})
               = (IF uop[s].status = "EXECUTING" THEN 1 ELSE 0)
  <2>1. s # NoSlot
    BY SlotAssumption
  <2>2. CASE uop[s].status = "EXECUTING"
    <3>1. PICK u \in 1 .. Units : fu[u] = s
      BY <2>2 DEF FullInv, FlightInv, UnitInv
    <3>2. {v \in 1 .. Units : fu[v] = s} = {u}
      BY <2>1, <3>1 DEF FullInv, FlightInv, UnitInv
    <3> QED BY <2>2, <3>2, FS_Singleton
  <2>3. CASE uop[s].status # "EXECUTING"
    <3>1. {v \in 1 .. Units : fu[v] = s} = {}
      BY <2>1, <2>3 DEF FullInv, FlightInv, UnitInv
    <3> QED BY <2>3, <3>1, FS_EmptySet
  <2> QED BY <2>2, <2>3
<1> QED BY <1>1, <1>2, <1>3 DEF QueueMembership, Unfinished

\* Nothing is older than the head, so no link leads to it.
LEMMA HeadFromInv == FullInv => HeadHasOperands
<1> SUFFICES ASSUME FullInv, rob # <<>>, uop[Head(rob)].status = "WAIT_DEP"
             PROVE  FALSE
  BY DEF HeadHasOperands
<1>1. /\ Head(rob) \in RangeOf(rob) /\ \A s : ~Before(s, Head(rob))
      /\ Head(rob) \in Decoded
  BY Order, DecodedPlace DEF FullInv
<1>2. PICK l \in links : l.dst = Head(rob)
  BY <1>1 DEF FullInv, FlightInv, LinkInv, LinksTo
<1> QED BY <1>1, <1>2 DEF FullInv, FlightInv, LinkInv

\* What the program makes a uop wait for is linked to it, and a uop with a link
\* is not ready.
LEMMA NeedsFromInv == FullInv => TrueDependences
<1> SUFFICES ASSUME FullInv, NEW s \in RangeOf(rob),
                    uop[s].status \in {"DEP_READY", "EXECUTING", "READY"}
             PROVE  uop[s].needs = {}
  BY DEF TrueDependences
<1>1. LinksTo(s) = {}
  BY DEF FullInv, FlightInv, LinkInv, LinksTo
<1>2. uop[s].needs \subseteq {l.src : l \in LinksTo(s)}
  BY DecodedPlace DEF FullInv, FlightInv, NeedInv
<1> QED BY <1>1, <1>2

\* A register points to a decoded uop that has not finished.
LEMMA ProducersFromInv == FullInv => NoDanglingProducer
BY ExecutedIsDecoded DEF FullInv, FlightInv, RegInv, NoDanglingProducer

\* The head is not off the path, because nothing is older.
LEMMA StoresFromInv == FullInv => StoreAtHead
<1> SUFFICES ASSUME FullInv, NEW s \in Slots,
                    uop[s].type = "STORE", uop[s].status = "EXECUTING"
             PROVE  rob # <<>> /\ s = Head(rob) /\ Executed(s)
  BY DEF StoreAtHead
<1>1. s \in RangeOf(rob)
  <2>1. PICK u \in 1 .. Units : fu[u] = s
    BY DEF FullInv, FlightInv, UnitInv
  <2>2. s # NoSlot
    BY SlotAssumption
  <2> QED BY <2>1, <2>2 DEF FullInv, FlightInv, UnitInv
<1>2. rob # <<>> /\ s = Head(rob)
  BY <1>1, EmptyHeld DEF FullInv, FlightInv, StoreInv
<1>3. /\ s \in Decoded /\ \A t : ~Before(t, s)
  BY <1>1, <1>2, Order, DecodedPlace DEF FullInv
<1>4. uop[s].pstate # "INVALID" /\ uop[s].pstate # "UNSET"
  BY <1>3 DEF FullInv, FlightInv, PathInv
<1>5. uop[s].pstate \in PipelineStates
  BY DEF FullInv, TypeInv, TypeOK, Uop
<1> QED BY <1>2, <1>4, <1>5 DEF Executed, PipelineStates

\* Off the path is what is younger than the instruction that will flush.
LEMMA PathFromInv == FullInv => WrongPathGuarded
<1> SUFFICES ASSUME FullInv PROVE WrongPathGuarded
  OBVIOUS
<1>1. /\ Decoded \subseteq InFlight
      /\ \A s \in InFlight : s \notin Decoded => uop[s].pstate = "UNSET"
  BY ExecutedIsDecoded
<1>2. mis <=> \E s \in InFlight : Executed(s) /\ Flushing(s)
  BY <1>1 DEF FullInv, FlightInv, PathInv, Diverts, Executed
<1>3. ASSUME NEW s \in InFlight, uop[s].pstate = "INVALID"
      PROVE  \E t \in OlderThan(s) : Executed(t) /\ Flushing(t)
  <2>1. PICK t \in Decoded : Diverts(t) /\ Before(t, s)
    BY <1>1, <1>3 DEF FullInv, FlightInv, PathInv
  <2>2. t \in OlderThan(s)
    BY <2>1, OlderIsBefore DEF FullInv
  <2> QED BY <2>1, <2>2 DEF Diverts
<1> QED BY <1>2, <1>3 DEF WrongPathGuarded

\* The branches that BranchCountCovers names are counted.
LEMMA BranchesFromInv == FullInv => BranchCountCovers
<1> SUFFICES ASSUME FullInv PROVE BranchCountCovers
  OBVIOUS
<1> DEFINE B == {s \in InFlight : /\ uop[s].type = "BRANCH" /\ Executed(s)
                                  /\ uop[s].status \notin {"DECODING", "READY"}}
<1>1. /\ Decoded \subseteq InFlight
      /\ \A s \in InFlight : s \notin Decoded => uop[s].pstate = "UNSET"
  BY ExecutedIsDecoded
<1>2. B \subseteq Counted
  BY <1>1 DEF Counted, Executed
<1>3. /\ IsFiniteSet(Counted) /\ Cardinality(Counted) \in Nat
      /\ numBranches \in Nat /\ numBranches >= Cardinality(Counted)
  BY CountedFinite DEF FullInv, FlightInv, CountInv, TypeInv, TypeOK
<1> HIDE DEF B
<1>4. Cardinality(B) <= Cardinality(Counted) /\ Cardinality(B) \in Nat
  <2>1. IsFiniteSet(B) /\ Cardinality(B) <= Cardinality(Counted)
    BY <1>2, <1>3, FS_Subset
  <2> QED BY <2>1, FS_CardinalityType
<1>5. numBranches >= Cardinality(B)
  BY <1>3, <1>4
<1>6. ASSUME wbFlusher # NoSlot
      PROVE  /\ wbFlusher \in InFlight
             /\ uop[wbFlusher].pstate = "CAN_FLUSH"
             /\ wbFlusher \notin RangeOf(rob) => numBranches > 0
  <2> DEFINE f == wbFlusher
  <2>1. f \in Decoded /\ uop[f].pstate = "CAN_FLUSH"
    BY <1>6 DEF FullInv, FlightInv, FlusherInv
  <2>2. uop[f].type = "BRANCH" /\ Executed(f)
    BY <2>1 DEF FullInv, FlightInv, PathInv, Executed
  <2>3. f \notin RangeOf(rob) => f \in Counted
    BY <2>1, <2>2 DEF FullInv, FlightInv, StatusInv, Decoded, Counted
  <2>4. Counted # {} => Cardinality(Counted) # 0
    BY <1>3, FS_EmptySet
  <2>5. f \notin RangeOf(rob) => numBranches > 0
    BY <1>3, <2>3, <2>4
  <2> QED BY <1>1, <2>1, <2>5
<1> QED BY <1>5, <1>6 DEF BranchCountCovers, B

\* What is in flight is the list and what is held, after a step too.
LEMMA InFlightNext == FullInv' => InFlight' = RangeOf(rob') \cup Held'
<1> DEFINE F == InFlight = RangeOf(rob) \cup Held
<1>1. FullInv => F
  BY ExecutedIsDecoded
<1> HIDE DEF F
<1>2. FullInv' => F'
  BY <1>1, PTL
<1> QED BY <1>2 DEF F

\* What a commit or a flush removes.
LEMMA RemovedUops ==
    ASSUME FullInv, FullInv', Next, NEW s \in InFlight \ InFlight',
           phase \in {"commit", "exec"}, Executed(s)
    PROVE  phase = "commit" /\ (s = Head(rob) \/ uop[Head(rob)].event = "exception")
<1>1. /\ InFlight = RangeOf(rob) \cup Held /\ s \in Decoded
  BY ExecutedIsDecoded DEF Executed
<1>2. rob' # rob \/ dec' # dec
  BY DEF InFlight, Buffered
<1>3. CASE Commit
  <2>1. phase = "commit" /\ RangeOf(rob') = RangeOf(rob) \ {Head(rob)} /\ Held' = Held
    BY <1>3, CommitFrame DEF FullInv, Commit, HeadIs
  <2>2. InFlight' = RangeOf(rob') \cup Held'
    BY InFlightNext
  <2> QED BY <1>1, <2>1, <2>2
<1>4. CASE CommitFlushing
  <2>1. phase = "commit" /\ rob # <<>> /\ Flushing(Head(rob))
    BY <1>4 DEF CommitFlushing, HeadIs
  <2>2. /\ Head(rob) \in RangeOf(rob) /\ Head(rob) \in Decoded
        /\ \A t : ~Before(t, Head(rob))
        /\ s # Head(rob) => Before(Head(rob), s)
    BY <1>1, <2>1, Order, DecodedPlace DEF FullInv
  <2>3. Executed(Head(rob))
    <3>1. uop[Head(rob)].pstate # "INVALID" /\ uop[Head(rob)].pstate # "UNSET"
      BY <2>2 DEF FullInv, FlightInv, PathInv
    <3>2. uop[Head(rob)].pstate \in PipelineStates
      BY <2>2, Order DEF FullInv, TypeInv, TypeOK, Uop
    <3> QED BY <3>1, <3>2 DEF Executed, PipelineStates
  <2>4. Diverts(Head(rob)) /\ uop[s].pstate # "INVALID"
    BY <2>1, <2>3 DEF Diverts, Executed
  <2> QED BY <1>1, <2>1, <2>2, <2>4 DEF FullInv, FlightInv, PathInv
<1>5. CASE FlushOnWriteBack
  <2> DEFINE f == wbFlusher
  <2>1. /\ f \in RangeOf(rob) /\ f \in Decoded /\ Diverts(f)
        /\ uop[f].event = "none" /\ uop[f].status = "READY"
    BY <1>5, FlusherFinished DEF FullInv
  <2>2. RangeOf(rob') = RangeOf(rob) \ {t \in RangeOf(rob) \cup Held : Before(f, t)}
    BY <1>5, <2>1, WbFlushFrame DEF FullInv
  <2>3. s \notin RangeOf(rob')
    BY DEF InFlight
  <2>4. Before(f, s)
    <3>1. s \in RangeOf(rob) => Before(f, s)
      BY <2>2, <2>3
    <3>2. s \in Held => Before(f, s)
      BY <2>1, Order DEF FullInv
    <3> QED BY <1>1, <3>1, <3>2
  <2>5. uop[s].pstate = "INVALID"
    BY <1>1, <2>1, <2>4 DEF FullInv, FlightInv, PathInv
  <2> QED BY <2>5 DEF Executed
<1>6. CASE CommitStops \/ UnitIdle \/ UnitExecutes \/ WriteBack \/ ExecDone
  BY <1>2, <1>6 DEF CommitStops, UnitIdle, UnitExecutes, WriteBack, ExecDone
<1>7. CASE \/ TakeInterrupt \/ NoInterrupt \/ IssuePhase \/ DecodePhase
           \/ DeviceInterrupt \/ DevicesQuiet
  BY <1>7 DEF TakeInterrupt, NoInterrupt, IssuePhase, IssueRs, IssueLs, IssueDone,
              DecodePhase, DecodeStart, DecodeStops, Allocate, AllocateStops, Decode,
              Dispatch, DispatchStops, DeviceInterrupt, DevicesQuiet
<1> QED BY <1>3, <1>4, <1>5, <1>6, <1>7 DEF Next, CommitPhase, ExecPhase

-----------------------------------------------------------------------------
\* The theorems.

\* Queues, units and status agree (rs_policy_t, functional_units_t).
THEOREM QueuesMatchStatus == NoStaleLinks => (Spec => []QueueMembership)
BY FlightInvariant, QueuesFromInv, PTL

\* The assertion of reorder_buffer_t::commit: the oldest uop never waits.
THEOREM OldestNeverWaits == NoStaleLinks => (Spec => []HeadHasOperands)
BY FlightInvariant, HeadFromInv, PTL

\* No uop of the executed path becomes ready before its true producers finish.
THEOREM DependencesRespected == NoStaleLinks => (Spec => []TrueDependences)
BY FlightInvariant, NeedsFromInv, PTL

\* dep_vector points only to uops in flight that have not finished.
THEOREM ProducersInFlight == NoStaleLinks => (Spec => []NoDanglingProducer)
BY FlightInvariant, ProducersFromInv, PTL

\* A store executes only as the oldest uop, on the executed path.
THEOREM StoresExecuteLast == NoStaleLinks => (Spec => []StoreAtHead)
BY FlightInvariant, StoresFromInv, PTL

\* Execution is disabled exactly while an instruction that flushes is in flight,
\* and what was decoded meanwhile is younger than it.
THEOREM WrongPathIsYounger == NoStaleLinks => (Spec => []WrongPathGuarded)
BY FlightInvariant, PathFromInv, PTL

\* num_of_branches covers every executed branch that is unresolved.
THEOREM BranchesCounted == NoStaleLinks => (Spec => []BranchCountCovers)
BY FlightInvariant, BranchesFromInv, PTL

\* A flush discards only what was decoded on the wrong path.
THEOREM FlushesWrongPath == NoStaleLinks => (Spec => OnlyWrongPathFlushed)
<1> SUFFICES ASSUME NoStaleLinks PROVE Spec => OnlyWrongPathFlushed
  OBVIOUS
<1> DEFINE A == \A s \in InFlight \ InFlight' :
                  phase \in {"commit", "exec"} /\ Executed(s) =>
                    /\ phase = "commit"
                    /\ s = Head(rob) \/ uop[Head(rob)].event = "exception"
<1>1. FullInv /\ FullInv' /\ [Next]_vars => [A]_vars
  BY RemovedUops
<1>2. Spec => []FullInv
  BY FlightInvariant
<1>3. Spec => [][A]_vars
  BY <1>1, <1>2, PTL DEF Spec
<1> QED BY <1>3 DEF OnlyWrongPathFlushed
=============================================================================
