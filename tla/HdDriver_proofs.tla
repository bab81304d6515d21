-------------------------- MODULE HdDriver_proofs --------------------------
(***************************************************************************)
(* Theorems about HdDriver, for every size of the ring and of a sector,    *)
(* every number of programs and every length of a transfer: the safety     *)
(* properties of the run hd_driver.                                        *)
(***************************************************************************)
EXTENDS HdDriver, TLAPS, SequenceTheorems, FiniteSetTheorems

\* The jobs in the ring, oldest first.
Jobs == [i \in 1 .. Used |-> operations[Wrap(listStart + i - 1)]]

RingInv == listEnd = Wrap(listStart + Used)

-----------------------------------------------------------------------------
\* What holds of the jobs J when w are the operations clients wait for.

\* A job's client waits for it.
AllAwaited(J, w) == \A i \in DOMAIN J : w[J[i].client] = J[i].op

\* The jobs of a request are neighbours, and its last one ends it.
Grouped(J) ==
    \A i \in DOMAIN J :
        /\ ~J[i].last => i + 1 \in DOMAIN J /\ J[i + 1].client = J[i].client
        /\ \A j \in DOMAIN J :
             J[i].last /\ i < j => J[j].client # J[i].client

\* Only the oldest job has a predecessor that is finished.
NothingBefore(J) == \A i \in DOMAIN J : i # 1 => J[i].intermediate = 0

\* Only a transfer is cut into parts.
OthersWhole(J) ==
    \A i \in DOMAIN J :
        J[i].op \notin {"READ", "WRITE"} => J[i].last /\ J[i].intermediate = 0

\* The entries of a request of c.
Request(es, c, op) ==
    /\ es \in Seq(Operation)
    /\ es # <<>>
    /\ \A i \in 1 .. Len(es) :
         /\ es[i].client = c /\ es[i].op = op /\ es[i].intermediate = 0
         /\ es[i].last <=> i = Len(es)
         /\ op \notin {"READ", "WRITE"} => es[i].last

Queued(J, w) ==
    AllAwaited(J, w) /\ Grouped(J) /\ NothingBefore(J) /\ OthersWhole(J)

\* The jobs a request is cut into.
Parts(len) == FullSectors(len) + 1

\* The most jobs of client c, when a thread has at most m and the loader l.
MostOf(c, m, l) == IF c = Loader THEN l ELSE m

\* The ring has an entry for every part of a request of every thread, and for
\* those of the loader's next request beside the job it is called back for.
RingHasRoom(m, l) ==
    /\ m \in Nat \ {0} /\ l \in Nat \ {0}
    /\ \A len \in ReadLens \cup WriteLens : Parts(len) <= m
    /\ \A len \in LoadLens : Parts(len) <= l
    /\ Programs * m <= Capacity
    /\ (Programs - 1) * m + l + 1 <= Capacity

\* Jobs of one client are that near to each other.
Near(J, m, l) ==
    \A i, j \in DOMAIN J :
        J[i].client = J[j].client => j - i < MostOf(J[i].client, m, l)

WritesMove(J) == \A i \in DOMAIN J : J[i].op = "WRITE" => J[i].len > 0

RoomInv(J, m, l) == Near(J, m, l) /\ WritesMove(J)

-----------------------------------------------------------------------------
\* What the device did for the oldest job so far.
Progress ==
    CASE phase = "processed" -> result
      [] phase = "user" /\ (hd.mustInterrupt \/ irq) -> hd.fileBytes
      [] OTHER -> 0

MovedInv ==
    \A c \in Clients : waits[c] # "none" =>
        moved[c] = IF Used > 0 /\ c = Oldest.client
                   THEN Oldest.intermediate + Progress ELSE 0

FilesInv ==
    /\ \A c \in Clients :
         /\ waits[c] \in {"READ", "WRITE"} => c \in hd.opened
         /\ c \in hasFile /\ waits[c] = "none" => c \in hd.opened
         /\ waits[c] = "OPEN" => c \notin hasFile
    /\ phase = "processed" /\ Oldest.op = "OPEN" /\ result # 0 =>
         Oldest.client \in hd.opened

PhaseInv ==
    /\ phase = "boot" => Used = 0 /\ loading = 1
                         /\ \A c \in Clients : waits[c] = "none"
    /\ phase \in {"next", "processed"} => Used > 0
    /\ IF phase = "user" /\ Used > 0
       THEN ~idle /\ Serving(Oldest)
       ELSE DeviceQuiet /\ (idle <=> phase # "processed")
    /\ phase = "processed" =>
         result \in IF Oldest.op \in {"READ", "WRITE"} THEN 0 .. Oldest.len
                    ELSE {0, 1}

\* The threads of programs that are not loaded wait for nothing.
LoadingInv ==
    /\ waits[Loader] # "none" => loading <= Programs
    /\ \A t \in Threads : waits[t] # "none" => t < loading

HdInv ==
    /\ TypeOK /\ RingInv /\ Queued(Jobs, waits)
    /\ MovedInv /\ FilesInv /\ PhaseInv /\ LoadingInv
    /\ AnswerIsTotal

-----------------------------------------------------------------------------
\* Lemmas about the entries of a request and the ring.

\* What cutting a transfer at the sectors relies on.
LEMMA DivFacts ==
    ASSUME NEW n \in Nat, NEW k \in Nat \ {0}
    PROVE  /\ n \div k \in Nat
           /\ (n \div k) * k <= n
<1>1. n \div k \in Int /\ n % k \in 0 .. k - 1
  BY SMT
<1>2. n = (k * (n \div k)) + (n % k)
  BY SMTT(20)
<1>3. n \div k >= 0
  BY <1>1, <1>2, SMTT(20)
<1> QED BY <1>1, <1>2, <1>3

\* A request is cut into at least one job; only the last one has the
\* callback, and none is empty unless the request is.
LEMMA EntriesFacts ==
    ASSUME NEW c \in Clients, NEW op \in Ops, NEW len \in Nat
    PROVE  /\ Parts(len) \in Nat \ {0}
           /\ Entries(c, op, len) \in Seq(Operation)
           /\ Len(Entries(c, op, len)) = Parts(len)
           /\ \A i \in 1 .. Parts(len) :
                LET e == Entries(c, op, len)[i] IN
                /\ e.client = c /\ e.op = op /\ e.intermediate = 0
                /\ e.last <=> i = Parts(len)
                /\ len > 0 => e.len > 0
<1> DEFINE n == FullSectors(len)
<1>1. n \in Nat /\ n * Sector \in Nat /\ (len > 0 => n * Sector < len)
  <2>1. CASE len = 0
    BY <2>1, RingAssumption DEF FullSectors
  <2>2. CASE len > 0
    <3>1. len - 1 \in Nat /\ Sector \in Nat \ {0}
      BY <2>2, RingAssumption
    <3>2. n = (len - 1) \div Sector
      BY <2>2 DEF FullSectors
    <3>3. n \in Nat /\ n * Sector <= len - 1
      BY <3>1, <3>2, DivFacts
    <3> HIDE DEF n
    <3>4. n * Sector \in Nat
      BY <3>3, <3>1
    <3> QED BY <3>3, <3>4, <2>2
  <2> QED BY <2>1, <2>2
<1>2. len = 0 => n = 0
  BY DEF FullSectors
<1> HIDE DEF n
<1>3. Parts(len) = n + 1
  BY DEF Parts, n
<1> DEFINE E(i) == [client |-> c, op |-> op, last |-> i > n, intermediate |-> 0,
                    len |-> IF i > n THEN len - n * Sector ELSE Sector]
<1>4. Entries(c, op, len) = [i \in 1 .. n + 1 |-> E(i)]
  BY DEF Entries, n
<1>5. \A i \in 1 .. n + 1 :
         /\ (IF i > n THEN len - n * Sector ELSE Sector) \in Nat
         /\ len > 0 => (IF i > n THEN len - n * Sector ELSE Sector) > 0
  <2>1. n * Sector <= len
    BY <1>1, <1>2, RingAssumption
  <2> DEFINE k == n * Sector
  <2>2. k \in Nat /\ k <= len /\ (len > 0 => k < len)
    BY <1>1, <2>1
  <2> HIDE DEF k
  <2>3. len - k \in Nat /\ (len > 0 => len - k > 0)
    BY <2>2
  <2>4. len - n * Sector \in Nat /\ (len > 0 => len - n * Sector > 0)
    BY <2>3 DEF k
  <2>5. Sector \in Nat /\ Sector > 0
    BY RingAssumption
  <2> DEFINE r == len - n * Sector
  <2>6. r \in Nat /\ (len > 0 => r > 0)
    BY <2>4
  <2> HIDE DEF r
  <2>7. \A i \in 1 .. n + 1 :
           /\ (IF i > n THEN r ELSE Sector) \in Nat
           /\ len > 0 => (IF i > n THEN r ELSE Sector) > 0
    BY <2>5, <2>6
  <2> QED BY <2>7 DEF r
<1>6. \A i \in 1 .. n + 1 : E(i) \in Operation
  BY <1>1, <1>5 DEF Operation
<1>7. /\ Entries(c, op, len) \in Seq(Operation)
      /\ Len(Entries(c, op, len)) = n + 1
  <2> HIDE DEF E
  <2> QED BY <1>1, <1>4, <1>6
<1>8. ASSUME NEW i \in 1 .. n + 1
      PROVE  LET e == Entries(c, op, len)[i] IN
             /\ e.client = c /\ e.op = op /\ e.intermediate = 0
             /\ e.last <=> i = n + 1
             /\ len > 0 => e.len > 0
  <2>1. Entries(c, op, len)[i] = E(i)
    BY <1>4
  <2>2. i > n <=> i = n + 1
    BY <1>1
  <2>3. E(i).client = c /\ E(i).op = op /\ E(i).intermediate = 0
        /\ E(i).last = (i > n)
        /\ E(i).len = IF i > n THEN len - n * Sector ELSE Sector
    OBVIOUS
  <2>4. len > 0 => E(i).len > 0
    BY <2>3, <1>5
  <2> HIDE DEF E
  <2> QED BY <2>1, <2>2, <2>3, <2>4
<1> QED BY <1>1, <1>3, <1>7, <1>8

\* The positions of the ring.
LEMMA WrapFacts ==
    ASSUME NEW i \in Nat, i < 2 * Capacity
    PROVE  Wrap(i) \in Slots
BY RingAssumption DEF Wrap, Slots

\* The jobs in the ring.
LEMMA JobsFacts ==
    ASSUME TypeOK
    PROVE  /\ Used \in 0 .. Capacity
           /\ Jobs \in Seq(Operation)
           /\ Len(Jobs) = Used
           /\ DOMAIN Jobs = 1 .. Used
           /\ Used > 0 => /\ Jobs # <<>>
                          /\ Oldest = Jobs[1]
                          /\ Head(Jobs) = Oldest
           /\ Oldest \in Operation
<1>1. Used \in 0 .. Capacity
  BY RingAssumption DEF TypeOK, Used
<1>2. \A i \in 1 .. Used : operations[Wrap(listStart + i - 1)] \in Operation
  BY <1>1, RingAssumption DEF TypeOK, Wrap, Slots
<1>3. Jobs \in Seq(Operation) /\ Len(Jobs) = Used /\ DOMAIN Jobs = 1 .. Used
  <2> HIDE DEF Used
  <2> QED BY <1>1, <1>2 DEF Jobs
<1>4. Oldest \in Operation
  BY RingAssumption DEF TypeOK, Oldest
<1>5. ASSUME Used > 0
      PROVE  Jobs # <<>> /\ Oldest = Jobs[1] /\ Head(Jobs) = Oldest
  <2>1. Jobs[1] = operations[Wrap(listStart)]
    BY <1>1, <1>5, RingAssumption DEF Jobs, TypeOK, Slots
  <2>2. Wrap(listStart) = listStart
    BY RingAssumption DEF Wrap, TypeOK, Slots
  <2> QED BY <2>1, <2>2, <1>3, <1>5 DEF Oldest
<1> QED BY <1>1, <1>3, <1>4, <1>5

\* The entries of a request that has room follow the jobs in the ring.
LEMMA EnqueuedFacts ==
    ASSUME TypeOK, RingInv, NEW es \in Seq(Operation), Len(es) <= listAvailable
    PROVE  /\ Enqueued(es) \in [Slots -> Operation]
           /\ Wrap(listEnd + Len(es)) \in Slots
           /\ Wrap(listEnd + Len(es)) = Wrap(listStart + (Used + Len(es)))
           /\ \A i \in 1 .. Used + Len(es) :
                Enqueued(es)[Wrap(listStart + i - 1)] =
                  IF i <= Used THEN Jobs[i] ELSE es[i - Used]
<1>1. /\ listStart \in 0 .. Capacity - 1 /\ listEnd \in 0 .. Capacity - 1
      /\ listAvailable \in 0 .. Capacity /\ Capacity \in Nat /\ Capacity > 0
      /\ Len(es) \in Nat /\ Used = Capacity - listAvailable
      /\ operations \in [Slots -> Operation]
  BY RingAssumption DEF TypeOK, Slots, Used
<1>2. \A s \in Slots : Offset(s) \in 0 .. Capacity - 1
  BY <1>1 DEF Offset, Slots
<1>3. Enqueued(es) \in [Slots -> Operation]
  <2>1. \A s \in Slots : Offset(s) < Len(es) => es[Offset(s) + 1] \in Operation
    BY <1>1, <1>2
  <2> QED BY <1>1, <2>1 DEF Enqueued
<1>4. listEnd = IF listStart + Used >= Capacity
                THEN listStart + Used - Capacity ELSE listStart + Used
  BY <1>1 DEF RingInv, Wrap
<1>5. ASSUME NEW i \in 1 .. Used + Len(es)
      PROVE  Enqueued(es)[Wrap(listStart + i - 1)] =
               IF i <= Used THEN Jobs[i] ELSE es[i - Used]
  <2> DEFINE s == Wrap(listStart + i - 1)
  <2>1. s \in Slots
    BY <1>1 DEF Wrap, Slots
  <2>2. Offset(s) = IF i <= Used THEN listAvailable + i - 1 ELSE i - 1 - Used
    BY <1>1, <1>4 DEF Offset, Wrap
  <2> HIDE DEF s
  <2>3. Enqueued(es)[s] = IF Offset(s) < Len(es) THEN es[Offset(s) + 1]
                          ELSE operations[s]
    BY <2>1 DEF Enqueued
  <2>4. CASE i <= Used
    <3>1. Jobs[i] = operations[s]
      BY <2>4, <1>1 DEF Jobs, s
    <3> QED BY <3>1, <2>2, <2>3, <2>4, <1>1 DEF s
  <2>5. CASE i > Used
    BY <2>2, <2>3, <2>5, <1>1 DEF s
  <2> QED BY <2>4, <2>5, <1>1
<1>6. /\ Wrap(listEnd + Len(es)) \in Slots
      /\ Wrap(listEnd + Len(es)) = Wrap(listStart + (Used + Len(es)))
  BY <1>1, <1>4 DEF Wrap, Slots
<1> QED BY <1>3, <1>5, <1>6

\* A function is a sequence when it has the elements of one.
LEMMA SeqIs ==
    ASSUME NEW S, NEW K \in Seq(S), NEW n, n = Len(K),
           NEW f, f = [i \in 1 .. n |-> f[i]],
           \A i \in 1 .. n : f[i] = K[i]
    PROVE  f = K
<1>1. K \in [1 .. n -> S]
  BY LenProperties
<1> QED BY <1>1

\* The position after the oldest job becomes the first one.
LEMMA WrapNext ==
    ASSUME NEW a \in Slots, NEW i \in 0 .. Capacity - 1
    PROVE  Wrap(Wrap(a + 1) + i) = Wrap(a + (i + 1))
BY RingAssumption DEF Wrap, Slots

\* A request appends its entries to the jobs.
LEMMA RequestedJobs ==
    ASSUME TypeOK, RingInv, NEW es \in Seq(Operation), Len(es) <= listAvailable,
           operations' = Enqueued(es),
           listEnd' = Wrap(listEnd + Len(es)),
           listAvailable' = listAvailable - Len(es),
           listStart' = listStart
    PROVE  /\ operations' \in [Slots -> Operation]
           /\ listEnd' \in Slots
           /\ listAvailable' \in 0 .. Capacity
           /\ RingInv'
           /\ Used' = Used + Len(es)
           /\ Jobs' = Jobs \o es
<1>1. /\ listAvailable \in 0 .. Capacity /\ Capacity \in Nat
      /\ Len(es) \in Nat /\ Used = Capacity - listAvailable
      /\ Used' = Capacity - listAvailable'
  BY RingAssumption DEF TypeOK, Used
<1>2. Used' = Used + Len(es)
  BY <1>1
<1>3. RingInv'
  BY <1>2, EnqueuedFacts DEF RingInv
<1>4. Jobs' = [i \in 1 .. Used' |-> operations'[Wrap(listStart' + i - 1)]]
  BY DEF Jobs, Wrap
<1>5. \A i \in 1 .. Used' :
         Jobs'[i] = IF i <= Used THEN Jobs[i] ELSE es[i - Used]
  BY <1>2, <1>4, EnqueuedFacts
<1>6. /\ Jobs \o es \in Seq(Operation) /\ Used' = Len(Jobs \o es)
      /\ \A i \in 1 .. Used' :
           (Jobs \o es)[i] = IF i <= Used THEN Jobs[i] ELSE es[i - Used]
  <2>1. Jobs \in Seq(Operation) /\ Len(Jobs) = Used
    BY JobsFacts
  <2> QED BY <2>1, <1>2, ConcatProperties
<1>7. Jobs' = Jobs \o es
  <2>1. Jobs' = [i \in 1 .. Used' |-> Jobs'[i]]
    BY <1>4
  <2>2. \A i \in 1 .. Used' : Jobs'[i] = (Jobs \o es)[i]
    BY <1>5, <1>6
  <2> QED BY <2>1, <2>2, <1>6, SeqIs, ZenonT(60)
<1> QED BY <1>1, <1>2, <1>3, <1>7, EnqueuedFacts

\* A job leaves the ring after its callback has made a request.
LEMMA FinishedJobs ==
    ASSUME TypeOK, RingInv, NEW es \in Seq(Operation), Len(es) <= listAvailable,
           Used > 0,
           operations' = Enqueued(es),
           listEnd' = Wrap(listEnd + Len(es)),
           listAvailable' = listAvailable - Len(es) + 1,
           listStart' = Wrap(listStart + 1)
    PROVE  /\ operations' \in [Slots -> Operation]
           /\ listEnd' \in Slots /\ listStart' \in Slots
           /\ listAvailable' \in 0 .. Capacity
           /\ RingInv'
           /\ Used' = Used + Len(es) - 1
           /\ Jobs' = Tail(Jobs) \o es
<1>1. /\ listAvailable \in 0 .. Capacity /\ Capacity \in Nat /\ Capacity > 0
      /\ listStart \in 0 .. Capacity - 1
      /\ Len(es) \in Nat /\ Used = Capacity - listAvailable
      /\ Used' = Capacity - listAvailable'
  BY RingAssumption DEF TypeOK, Used, Slots
<1>2. /\ Used' = Used + Len(es) - 1 /\ Used' \in 0 .. Capacity - 1
      /\ listAvailable' \in 0 .. Capacity
  BY <1>1
<1>4. \A i \in 0 .. Used' : Wrap(listStart' + i) = Wrap(listStart + (i + 1))
  <2>1. \A i \in 0 .. Used' : i \in 0 .. Capacity - 1
    BY <1>1, <1>2
  <2> QED BY <2>1, <1>1, WrapNext DEF Slots
<1>5. RingInv'
  <2>1. Used' \in 0 .. Used' /\ Used' + 1 = Used + Len(es)
    BY <1>1, <1>2
  <2>2. Wrap(listStart' + Used') = Wrap(listStart + (Used + Len(es)))
    BY <1>4, <2>1
  <2>3. listEnd' = Wrap(listStart' + Used')
    BY <2>2, EnqueuedFacts
  <2> QED BY <2>3 DEF RingInv, Wrap
<1>6. Jobs' = [i \in 1 .. Used' |-> operations'[Wrap(listStart' + i - 1)]]
  BY DEF Jobs, Wrap
<1>7. ASSUME NEW i \in 1 .. Used'
      PROVE  operations'[Wrap(listStart' + i - 1)] =
               IF i + 1 <= Used THEN Jobs[i + 1] ELSE es[i + 1 - Used]
  <2>1. i - 1 \in 0 .. Used' /\ listStart' + i - 1 = listStart' + (i - 1)
    BY <1>1, <1>2 DEF Wrap
  <2>2. Wrap(listStart' + i - 1) = Wrap(listStart + ((i - 1) + 1))
    BY <2>1, <1>4
  <2>3. PICK k \in 1 .. Used + Len(es) : k = i + 1
    BY <1>1, <1>2
  <2>4. listStart + ((i - 1) + 1) = listStart + k - 1
    BY <1>1, <2>3
  <2>5. Enqueued(es)[Wrap(listStart + k - 1)] =
          IF k <= Used THEN Jobs[k] ELSE es[k - Used]
    BY EnqueuedFacts
  <2>6. operations'[Wrap(listStart' + i - 1)] =
          IF k <= Used THEN Jobs[k] ELSE es[k - Used]
    BY <2>2, <2>4, <2>5
  <2> QED BY <2>3, <2>6, <1>1
<1>8. /\ Tail(Jobs) \o es \in Seq(Operation)
      /\ Used' = Len(Tail(Jobs) \o es)
      /\ \A i \in 1 .. Used' : (Tail(Jobs) \o es)[i] =
           IF i + 1 <= Used THEN Jobs[i + 1] ELSE es[i + 1 - Used]
  <2>1. /\ Jobs \in Seq(Operation) /\ Len(Jobs) = Used /\ Jobs # <<>>
        /\ Used \in Nat
    BY JobsFacts, <1>1
  <2> DEFINE T == Tail(Jobs)
  <2>2. T \in Seq(Operation) /\ Len(T) = Used - 1
        /\ \A i \in 1 .. Used - 1 : T[i] = Jobs[i + 1]
    BY <2>1, HeadTailProperties
  <2> HIDE DEF T
  <2>3. T \o es \in Seq(Operation) /\ Len(T \o es) = Used - 1 + Len(es)
        /\ \A i \in 1 .. Used - 1 + Len(es) :
             (T \o es)[i] = IF i <= Used - 1 THEN T[i] ELSE es[i - (Used - 1)]
    <3>1. /\ T \o es \in Seq(Operation) /\ Len(T \o es) = Len(T) + Len(es)
          /\ \A i \in 1 .. Len(T) + Len(es) :
               (T \o es)[i] = IF i <= Len(T) THEN T[i] ELSE es[i - Len(T)]
      BY <2>2, ConcatProperties
    <3> QED BY <2>2, <3>1
  <2>4. Used' = Used - 1 + Len(es)
    BY <1>1, <1>2
  <2>5. ASSUME NEW i \in 1 .. Used'
        PROVE  (T \o es)[i] =
                 IF i + 1 <= Used THEN Jobs[i + 1] ELSE es[i + 1 - Used]
    <3>1. i - (Used - 1) = i + 1 - Used /\ (i <= Used - 1 <=> i + 1 <= Used)
      BY <2>1, <1>1
    <3>2. (T \o es)[i] = IF i <= Used - 1 THEN T[i] ELSE es[i - (Used - 1)]
      BY <2>3, <2>4
    <3> QED BY <3>1, <3>2, <2>2, <2>1
  <2> QED BY <2>3, <2>4, <2>5 DEF T
<1>9. Jobs' = Tail(Jobs) \o es
  <2>1. Jobs' = [i \in 1 .. Used' |-> Jobs'[i]]
    BY <1>6
  <2>2. \A i \in 1 .. Used' : Jobs'[i] = (Tail(Jobs) \o es)[i]
    BY <1>6, <1>7, <1>8
  <2> QED BY <2>1, <2>2, <1>8, SeqIs, ZenonT(60)
<1>10. listStart' \in Slots
  BY <1>1 DEF Wrap, Slots
<1> QED BY <1>2, <1>5, <1>9, <1>10, EnqueuedFacts

\* The job after the oldest one becomes the oldest, with what was done for it.
LEMMA PartJobs ==
    ASSUME TypeOK, RingInv, Used > 1, NEW t \in Nat,
           operations' = [operations EXCEPT ![Wrap(listStart + 1)].intermediate = t],
           listEnd' = listEnd,
           listAvailable' = listAvailable + 1,
           listStart' = Wrap(listStart + 1)
    PROVE  /\ operations' \in [Slots -> Operation]
           /\ listStart' \in Slots
           /\ listAvailable' \in 0 .. Capacity
           /\ RingInv'
           /\ Used' = Used - 1
           /\ \A i \in 1 .. Used - 1 : Jobs'[i] =
                IF i = 1 THEN [Jobs[2] EXCEPT !.intermediate = t] ELSE Jobs[i + 1]
<1>1. /\ listAvailable \in 0 .. Capacity /\ Capacity \in Nat /\ Capacity > 0
      /\ listStart \in 0 .. Capacity - 1
      /\ Used = Capacity - listAvailable /\ Used' = Capacity - listAvailable'
      /\ operations \in [Slots -> Operation]
  BY RingAssumption DEF TypeOK, Used, Slots
<1>2. Used' = Used - 1 /\ Used' \in 1 .. Capacity - 1 /\ listAvailable' \in 0 .. Capacity
  BY <1>1
<1>3. listStart' \in Slots
  BY <1>1 DEF Wrap, Slots
<1>4. RingInv'
  <2>1. Used' \in 0 .. Capacity - 1 /\ Used' + 1 = Used
    BY <1>1, <1>2
  <2>2. Wrap(listStart' + Used') = Wrap(listStart + Used)
    BY <2>1, <1>1, WrapNext DEF Slots
  <2> QED BY <2>2 DEF RingInv, Wrap
<1>5. operations[Wrap(listStart + 1)] \in Operation
  BY <1>1, <1>3
<1>6. [operations[Wrap(listStart + 1)] EXCEPT !.intermediate = t] \in Operation
  BY <1>5 DEF Operation
<1>7. operations' \in [Slots -> Operation]
  BY <1>1, <1>3, <1>6
<1>8. ASSUME NEW i \in 1 .. Used - 1
      PROVE  Jobs'[i] = IF i = 1 THEN [Jobs[2] EXCEPT !.intermediate = t]
                        ELSE Jobs[i + 1]
  <2>1. PICK k \in 2 .. Used : k = i + 1
    BY <1>1
  <2>2. Jobs'[i] = operations'[Wrap(listStart' + i - 1)]
    BY <1>1, <1>2 DEF Jobs, Wrap
  <2>3. Wrap(listStart' + i - 1) = Wrap(listStart + k - 1)
    <3>1. i - 1 \in 0 .. Capacity - 1 /\ listStart \in Slots
      BY <1>1 DEF Slots
    <3>2. Wrap(listStart' + (i - 1)) = Wrap(listStart + ((i - 1) + 1))
      BY <3>1, WrapNext
    <3>3. listStart + ((i - 1) + 1) = listStart + k - 1
      BY <2>1, <1>1
    <3> QED BY <3>2, <3>3
  <2>4. Wrap(listStart + k - 1) \in Slots
    <3>1. listStart + k - 1 \in Nat /\ listStart + k - 1 < 2 * Capacity
      BY <1>1, <2>1
    <3> QED BY <3>1, WrapFacts
  <2>5. Wrap(listStart + k - 1) = Wrap(listStart + 1) <=> k = 2
    BY <1>1, <2>1 DEF Wrap
  <2>6. Jobs[k] = operations[Wrap(listStart + k - 1)]
    BY <1>1, <2>1 DEF Jobs
  <2>7. CASE k = 2
    <3>1. operations'[Wrap(listStart + 1)] =
            [operations[Wrap(listStart + 1)] EXCEPT !.intermediate = t]
      BY <1>1, <1>3
    <3>2. i = 1 /\ Wrap(listStart + k - 1) = Wrap(listStart + 1)
      BY <2>1, <2>5, <2>7, <1>1
    <3> QED BY <3>1, <3>2, <2>2, <2>3, <2>6, <2>7
  <2>8. CASE k # 2
    <3>1. i # 1
      BY <2>1, <2>8, <1>1
    <3>2. operations'[Wrap(listStart + k - 1)] = operations[Wrap(listStart + k - 1)]
      BY <2>4, <2>5, <2>8, <1>1
    <3> QED BY <3>1, <3>2, <2>1, <2>2, <2>3, <2>6
  <2> QED BY <2>7, <2>8
<1> QED BY <1>2, <1>3, <1>4, <1>7, <1>8

-----------------------------------------------------------------------------
\* Lemmas about the jobs in a queue.

\* The entries of a request follow the jobs of the other clients.
LEMMA AppendQueued ==
    ASSUME NEW J \in Seq(Operation), NEW w \in [Clients -> Ops \cup {"none"}],
           NEW c \in Clients, NEW op \in Ops, NEW es, Request(es, c, op),
           Queued(J, w), \A i \in DOMAIN J : J[i].client # c
    PROVE  Queued(J \o es, [w EXCEPT ![c] = op])
<1>1. /\ es \in Seq(Operation) /\ Len(es) \in Nat /\ Len(es) > 0
      /\ Len(J) \in Nat /\ DOMAIN J = 1 .. Len(J)
  BY EmptySeq, LenProperties DEF Request
<1> DEFINE Q == J \o es
           n == Len(J)
           w1 == [w EXCEPT ![c] = op]
<1>2. /\ Q \in Seq(Operation) /\ Len(Q) = n + Len(es)
      /\ DOMAIN Q = 1 .. n + Len(es)
      /\ \A i \in 1 .. n : Q[i] = J[i]
      /\ \A i \in n + 1 .. n + Len(es) : Q[i] = es[i - n]
  BY <1>1, ConcatProperties, LenProperties
<1>3. \A i \in n + 1 .. n + Len(es) :
         /\ Q[i].client = c /\ Q[i].op = op /\ Q[i].intermediate = 0
         /\ Q[i].last <=> i = n + Len(es)
         /\ op \notin {"READ", "WRITE"} => Q[i].last
  <2>1. ASSUME NEW i \in n + 1 .. n + Len(es)
        PROVE  /\ Q[i].client = c /\ Q[i].op = op /\ Q[i].intermediate = 0
               /\ Q[i].last <=> i = n + Len(es)
               /\ op \notin {"READ", "WRITE"} => Q[i].last
    <3>1. i - n \in 1 .. Len(es) /\ (i - n = Len(es) <=> i = n + Len(es))
      BY <1>1
    <3>2. Q[i] = es[i - n]
      BY <1>2
    <3> HIDE DEF Q
    <3> QED BY <3>1, <3>2 DEF Request
  <2> QED BY <2>1
<1>4. \A i \in 1 .. n : J[i] \in Operation /\ J[i].client \in Clients
  <2>1. \A i \in 1 .. n : J[i] \in Operation
    BY ElementOfSeq
  <2> QED BY <2>1 DEF Operation
<1>5. w1[c] = op /\ \A d \in Clients : d # c => w1[d] = w[d]
  OBVIOUS
<1> HIDE DEF Q, w1, n
<1>6. n \in Nat /\ DOMAIN J = 1 .. n
  BY <1>1 DEF n
<1>7. AllAwaited(Q, w1)
  <2> SUFFICES ASSUME NEW i \in DOMAIN Q PROVE w1[Q[i].client] = Q[i].op
    BY DEF AllAwaited
  <2>1. CASE i \in 1 .. n
    <3>1. w[J[i].client] = J[i].op /\ J[i].client # c
      BY <1>6, <2>1 DEF Queued, AllAwaited
    <3> QED BY <1>2, <1>4, <1>5, <2>1, <3>1
  <2>2. CASE i \in n + 1 .. n + Len(es)
    BY <1>3, <1>5, <2>2
  <2>3. i \in 1 .. n \/ i \in n + 1 .. n + Len(es)
    BY <1>1, <1>2, <1>6
  <2> QED BY <2>1, <2>2, <2>3
<1>8. Grouped(Q)
  <2>1. ASSUME NEW i \in DOMAIN Q, ~Q[i].last
        PROVE  i + 1 \in DOMAIN Q /\ Q[i + 1].client = Q[i].client
    <3>1. CASE i \in 1 .. n
      <4>1. i + 1 \in 1 .. n /\ J[i + 1].client = J[i].client
        BY <3>1, <2>1, <1>2, <1>6 DEF Queued, Grouped
      <4> QED BY <4>1, <3>1, <1>1, <1>2, <1>6
    <3>2. CASE i \in n + 1 .. n + Len(es)
      <4>1. i + 1 \in n + 1 .. n + Len(es)
        <5>1. i # n + Len(es)
          BY <3>2, <2>1, <1>3
        <5>2. PICK m \in Nat : m = Len(es)
          BY <1>1
        <5> QED BY <5>1, <5>2, <3>2, <1>6
      <4> QED BY <4>1, <3>2, <1>1, <1>2, <1>3, <1>6
    <3> QED BY <3>1, <3>2, <1>1, <1>2, <1>6
  <2>2. ASSUME NEW i \in DOMAIN Q, NEW j \in DOMAIN Q, Q[i].last, i < j
        PROVE  Q[j].client # Q[i].client
    <3>1. CASE j \in 1 .. n
      <4>1. i \in 1 .. n
        BY <3>1, <2>2, <1>1, <1>2, <1>6
      <4> QED BY <4>1, <3>1, <2>2, <1>2, <1>6 DEF Queued, Grouped
    <3>2. CASE j \in n + 1 .. n + Len(es) /\ i \in 1 .. n
      BY <3>2, <1>2, <1>3, <1>6
    <3>3. CASE j \in n + 1 .. n + Len(es) /\ i \in n + 1 .. n + Len(es)
      BY <3>3, <2>2, <1>1, <1>3, <1>6
    <3> QED BY <3>1, <3>2, <3>3, <1>1, <1>2, <1>6
  <2> QED BY <2>1, <2>2 DEF Grouped
<1>9. NothingBefore(Q)
  BY <1>1, <1>2, <1>3, <1>6 DEF Queued, NothingBefore
<1>10. OthersWhole(Q)
  BY <1>1, <1>2, <1>3, <1>6 DEF Queued, OthersWhole
<1> QED BY <1>7, <1>8, <1>9, <1>10 DEF Queued, Q, w1

\* The last job of a request leaves the queue.
LEMMA TailQueued ==
    ASSUME NEW J \in Seq(Operation), NEW w \in [Clients -> Ops \cup {"none"}],
           Queued(J, w), J # <<>>, J[1].last
    PROVE  /\ Tail(J) \in Seq(Operation)
           /\ Queued(Tail(J), [w EXCEPT ![J[1].client] = "none"])
           /\ \A i \in DOMAIN Tail(J) : Tail(J)[i].client # J[1].client
<1> DEFINE T == Tail(J)
           n == Len(J)
           w1 == [w EXCEPT ![J[1].client] = "none"]
<1>1. /\ n \in Nat /\ n > 0 /\ DOMAIN J = 1 .. n
      /\ T \in Seq(Operation) /\ DOMAIN T = 1 .. n - 1
      /\ \A i \in 1 .. n - 1 : T[i] = J[i + 1] /\ i + 1 \in 1 .. n
  <2>1. n \in Nat /\ n > 0 /\ DOMAIN J = 1 .. n
    BY EmptySeq, LenProperties
  <2>2. /\ T \in Seq(Operation) /\ Len(T) = n - 1
        /\ \A i \in 1 .. Len(T) : T[i] = J[i + 1]
    BY HeadTailProperties
  <2> HIDE DEF T, n
  <2>3. DOMAIN T = 1 .. n - 1
    BY <2>1, <2>2, LenProperties
  <2> QED BY <2>1, <2>2, <2>3
<1>2. \A i \in 1 .. n : J[i] \in Operation /\ J[i].client \in Clients
  <2>1. \A i \in 1 .. n : J[i] \in Operation
    BY ElementOfSeq
  <2> QED BY <2>1 DEF Operation
<1>3. \A d \in Clients : d # J[1].client => w1[d] = w[d]
  OBVIOUS
<1> HIDE DEF T, n, w1
<1>4. \A i \in 1 .. n - 1 : T[i].client # J[1].client
  BY <1>1, SMTT(30) DEF Queued, Grouped
<1>5. AllAwaited(T, w1)
  BY <1>1, <1>2, <1>3, <1>4 DEF Queued, AllAwaited
<1>6. Grouped(T)
  <2>1. ASSUME NEW i \in DOMAIN T, ~T[i].last
        PROVE  i + 1 \in DOMAIN T /\ T[i + 1].client = T[i].client
    <3>1. PICK k \in 1 .. n : k = i + 1
      BY <1>1
    <3>2. k + 1 \in 1 .. n /\ J[k + 1].client = J[k].client /\ T[i] = J[k]
      BY <3>1, <2>1, <1>1 DEF Queued, Grouped
    <3>3. k \in 1 .. n - 1
      BY <3>2, <1>1
    <3> QED BY <3>1, <3>2, <3>3, <1>1
  <2>2. ASSUME NEW i \in DOMAIN T, NEW j \in DOMAIN T, T[i].last, i < j
        PROVE  T[j].client # T[i].client
    <3>1. i + 1 \in 1 .. n /\ j + 1 \in 1 .. n /\ i + 1 < j + 1
      BY <2>2, <1>1
    <3> QED BY <3>1, <2>2, <1>1 DEF Queued, Grouped
  <2> QED BY <2>1, <2>2 DEF Grouped
<1>7. NothingBefore(T)
  <2>1. \A i \in 1 .. n - 1 : i + 1 # 1
    BY <1>1
  <2> QED BY <2>1, <1>1 DEF Queued, NothingBefore
<1>8. OthersWhole(T)
  BY <1>1 DEF Queued, OthersWhole
<1> QED BY <1>1, <1>4, <1>5, <1>6, <1>7, <1>8 DEF Queued, T, w1

\* A part leaves the queue and the next one of its request follows.
LEMMA PartQueued ==
    ASSUME NEW J \in Seq(Operation), NEW w,
           Queued(J, w), J # <<>>, ~J[1].last, NEW K, DOMAIN K = 1 .. Len(J) - 1,
           \A i \in 1 .. Len(J) - 1 :
              /\ K[i].client = J[i + 1].client /\ K[i].op = J[i + 1].op
              /\ K[i].last = J[i + 1].last
              /\ i # 1 => K[i].intermediate = J[i + 1].intermediate
    PROVE  Len(J) > 1 /\ J[2].client = J[1].client /\ Queued(K, w)
<1> DEFINE n == Len(J)
<1>1. n \in Nat /\ n > 0 /\ DOMAIN J = 1 .. n
  BY EmptySeq, LenProperties
<1>2. n > 1 /\ J[2].client = J[1].client
  BY <1>1 DEF Queued, Grouped
<1> HIDE DEF n
<1>3. DOMAIN K = 1 .. n - 1 /\ \A i \in 1 .. n - 1 : i + 1 \in 1 .. n
  BY <1>1 DEF n
<1>4. AllAwaited(K, w)
  BY <1>1, <1>3 DEF n, Queued, AllAwaited
<1>5. Grouped(K)
  <2>1. ASSUME NEW i \in DOMAIN K, ~K[i].last
        PROVE  i + 1 \in DOMAIN K /\ K[i + 1].client = K[i].client
    <3>1. PICK k \in 1 .. n : k = i + 1
      BY <1>1, <1>3
    <3>2. /\ k + 1 \in 1 .. n /\ J[k + 1].client = J[k].client
          /\ K[i].client = J[k].client
      BY <3>1, <2>1, <1>1, <1>3 DEF n, Queued, Grouped
    <3>3. k \in 1 .. n - 1
      BY <3>2, <1>1
    <3>4. K[k].client = J[k + 1].client
      BY <3>3 DEF n
    <3> QED BY <3>1, <3>2, <3>3, <3>4, <1>3
  <2>2. ASSUME NEW i \in DOMAIN K, NEW j \in DOMAIN K, K[i].last, i < j
        PROVE  K[j].client # K[i].client
    <3>1. i + 1 \in 1 .. n /\ j + 1 \in 1 .. n /\ i + 1 < j + 1
      BY <2>2, <1>1, <1>3
    <3> QED BY <3>1, <2>2, <1>1, <1>3 DEF n, Queued, Grouped
  <2> QED BY <2>1, <2>2 DEF Grouped
<1>6. NothingBefore(K)
  BY <1>1, <1>3, SMTT(30) DEF n, Queued, NothingBefore
<1>7. OthersWhole(K)
  <2>1. J[2].op = J[1].op /\ J[1].op \in {"READ", "WRITE"}
    BY <1>1, <1>2 DEF Queued, AllAwaited, OthersWhole
  <2>2. ASSUME NEW i \in 1 .. n - 1, K[i].op \notin {"READ", "WRITE"}
        PROVE  K[i].last /\ K[i].intermediate = 0
    <3>1. i + 1 \in 1 .. n /\ J[i + 1].op \notin {"READ", "WRITE"}
      BY <2>2, <1>3 DEF n
    <3>2. i # 1
      BY <2>1, <3>1
    <3> QED BY <3>1, <3>2, <1>1 DEF n, Queued, OthersWhole
  <2> QED BY <2>2, <1>3 DEF OthersWhole
<1> QED BY <1>2, <1>4, <1>5, <1>6, <1>7 DEF Queued, n

\* What external_hd_request_* puts into the ring is a request.
LEMMA EntriesAreRequest ==
    ASSUME NEW c \in Clients, NEW op \in Ops, NEW len \in Nat,
           op \notin {"READ", "WRITE"} => len = 0
    PROVE  /\ Request(Entries(c, op, len), c, op)
           /\ Entries(c, op, len) \in Seq(Operation)
           /\ Len(Entries(c, op, len)) = Parts(len)
           /\ Len(Entries(c, op, len)) \in Nat \ {0}
<1>1. op \notin {"READ", "WRITE"} => Parts(len) = 1
  BY DEF Parts, FullSectors
<1>2. Entries(c, op, len) # <<>>
  BY EntriesFacts, EmptySeq
<1> HIDE DEF Parts
<1> QED BY <1>1, <1>2, EntriesFacts, SMTT(30) DEF Request

-----------------------------------------------------------------------------
\* Lemmas about the accesses to an idle device.

\* The file and the length of a transfer are set before it starts.
LEMMA AddressFacts ==
    ASSUME NEW d \in Device, NEW f \in Files, NEW n \in Nat
    PROVE  LET e == SetBytes(SelectFile(d, f), n) IN
           /\ e \in Device /\ e.state = d.state /\ e.file = f /\ e.fileBytes = n
           /\ e.opened = d.opened /\ e.mustInterrupt = d.mustInterrupt
<1> DEFINE a == SelectFile(d, f)
<1>1. /\ a \in Device /\ a.state = d.state /\ a.file = f
      /\ a.opened = d.opened /\ a.mustInterrupt = d.mustInterrupt
  BY DEF SelectFile, Device
<1> HIDE DEF a
<1> DEFINE e == SetBytes(a, n)
<1>2. /\ e \in Device /\ e.state = a.state /\ e.file = a.file /\ e.fileBytes = n
      /\ e.opened = a.opened /\ e.mustInterrupt = a.mustInterrupt
  BY <1>1 DEF SetBytes, Device
<1> QED BY <1>1, <1>2 DEF a

\* A command that an idle device accepts.
LEMMA CommandFacts ==
    ASSUME NEW d \in Device, d.state = "IDLE",
           NEW cmd \in {"FNAME_START", "READ_SECTOR", "WRITE_SECTOR",
                        "WRITE_FILE_BUFFER"}
    PROVE  LET e == Command(d, cmd) IN
           /\ e \in Device /\ e.state = CommandState[cmd] /\ e.file = d.file
           /\ e.fileBytes = d.fileBytes /\ e.opened = d.opened
           /\ e.mustInterrupt = d.mustInterrupt
<1>1. /\ cmd \in DOMAIN CommandState
      /\ CommandState[cmd] \in DeviceStates
  BY DEF CommandState, DeviceStates
<1>2. Command(d, cmd) = [d EXCEPT !.state = CommandState[cmd]]
  BY <1>1 DEF Command
<1> DEFINE st == CommandState[cmd]
<1>3. st \in DeviceStates
  BY <1>1
<1> HIDE DEF st
<1> DEFINE e == [d EXCEPT !.state = st]
<1>4. /\ e \in Device /\ e.state = st /\ e.file = d.file
      /\ e.fileBytes = d.fileBytes /\ e.opened = d.opened
      /\ e.mustInterrupt = d.mustInterrupt
  BY <1>3 DEF Device
<1> QED BY <1>2, <1>4 DEF st

\* A file is named byte by byte between two commands.
LEMMA NameFacts ==
    ASSUME NEW d \in Device, d.state = "IDLE"
    PROVE  LET e == Command(Command(d, "FNAME_START"), "FNAME_END") IN
           /\ e \in Device /\ e.state = "IDLE" /\ e.opened = d.opened
           /\ e.mustInterrupt = d.mustInterrupt
<1> DEFINE a == Command(d, "FNAME_START")
<1>1. /\ a \in Device /\ a.state = "WAIT_FNAME" /\ a.opened = d.opened
      /\ a.mustInterrupt = d.mustInterrupt
  BY CommandFacts DEF CommandState
<1> HIDE DEF a
<1>2. Command(a, "FNAME_END") = [a EXCEPT !.state = "IDLE"]
  BY <1>1 DEF Command
<1> DEFINE e == [a EXCEPT !.state = "IDLE"]
<1>3. /\ e \in Device /\ e.state = "IDLE" /\ e.opened = a.opened
      /\ e.mustInterrupt = a.mustInterrupt
  BY <1>1 DEF Device, DeviceStates
<1> QED BY <1>1, <1>2, <1>3 DEF a

\* The bytes of a write, all but none of them, bring the device back to idle.
LEMMA SendFacts ==
    ASSUME NEW d \in Device, d.state = "WAIT_WBUFFER"
    PROVE  LET e == SendBytes(d, d.fileBytes) IN
           /\ e \in Device /\ e.file = d.file /\ e.fileBytes = d.fileBytes
           /\ e.opened = d.opened /\ e.mustInterrupt = d.mustInterrupt
           /\ e.state = "IDLE" <=> d.fileBytes > 0
<1> DEFINE e == [d EXCEPT !.state = "IDLE"]
<1>1. /\ e \in Device /\ e.file = d.file /\ e.fileBytes = d.fileBytes
      /\ e.opened = d.opened /\ e.mustInterrupt = d.mustInterrupt
      /\ e.state = "IDLE"
  BY DEF Device, DeviceStates
<1>2. d.fileBytes \in Nat
  BY DEF Device
<1>3. SendBytes(d, d.fileBytes) = IF d.fileBytes > 0 THEN e ELSE d
  BY <1>2 DEF SendBytes
<1> HIDE DEF e
<1> QED BY <1>1, <1>3

\* Opening a file and asking for its size.
LEMMA OpenFacts ==
    ASSUME NEW d \in Device, d.state = "IDLE", NEW f \in Files, NEW n \in Nat
    PROVE  /\ LET e == FileInfo(OpenFile(d, f, TRUE), n) IN
              /\ e \in Device /\ e.state = "IDLE"
              /\ e.opened = d.opened \cup {f}
              /\ e.mustInterrupt = d.mustInterrupt
           /\ LET e == OpenFile(d, f, FALSE) IN
              /\ e \in Device /\ e.state = "IDLE" /\ e.opened = d.opened
              /\ e.mustInterrupt = d.mustInterrupt
<1> DEFINE a == [d EXCEPT !.file = f, !.opened = @ \cup {f}]
           b == [d EXCEPT !.file = NoFile]
<1>1. OpenFile(d, f, TRUE) = a /\ OpenFile(d, f, FALSE) = b
  BY DEF OpenFile
<1>2. /\ a \in Device /\ a.state = "IDLE" /\ a.opened = d.opened \cup {f}
      /\ a.mustInterrupt = d.mustInterrupt
  <2>1. d.opened \cup {f} \in SUBSET Files
    BY DEF Device
  <2> QED BY <2>1 DEF Device
<1>3. /\ b \in Device /\ b.state = "IDLE" /\ b.opened = d.opened
      /\ b.mustInterrupt = d.mustInterrupt
  BY DEF Device
<1> HIDE DEF a, b
<1>4. FileInfo(a, n) = [a EXCEPT !.fileBytes = n]
  BY <1>2 DEF FileInfo, SetBytes
<1> DEFINE e == [a EXCEPT !.fileBytes = n]
<1>5. /\ e \in Device /\ e.state = a.state /\ e.opened = a.opened
      /\ e.mustInterrupt = a.mustInterrupt
  BY <1>2 DEF Device
<1> HIDE DEF e
<1> QED BY <1>1, <1>2, <1>3, <1>4, <1>5 DEF e

\* Closing a file.
LEMMA CloseFacts ==
    ASSUME NEW d \in Device, d.state = "IDLE", NEW f \in Files
    PROVE  LET e == CloseFile(SelectFile(d, f)) IN
           /\ e \in Device /\ e.state = "IDLE" /\ e.opened = d.opened \ {f}
           /\ e.mustInterrupt = d.mustInterrupt
<1> DEFINE a == SelectFile(d, f)
<1>1. /\ a \in Device /\ a.state = d.state /\ a.file = f
      /\ a.opened = d.opened /\ a.mustInterrupt = d.mustInterrupt
  BY DEF SelectFile, Device
<1> HIDE DEF a
<1> DEFINE s == a.opened \ {a.file}
           e == [a EXCEPT !.opened = s]
<1>2. s \in SUBSET Files
  BY <1>1 DEF Device
<1>3. CloseFile(a) = e
  BY <1>1 DEF CloseFile
<1> HIDE DEF s
<1>4. /\ e \in Device /\ e.state = a.state /\ e.opened = s
      /\ e.mustInterrupt = a.mustInterrupt
  BY <1>1, <1>2 DEF Device
<1> HIDE DEF e
<1> QED BY <1>1, <1>3, <1>4 DEF a, s

\* What the interrupt handler does to the device.
LEMMA EmptyFacts ==
    ASSUME NEW d \in Device, NEW n \in Nat, NEW reads \in BOOLEAN
    PROVE  LET a == IF reads THEN TakeBytes(d, d.fileBytes) ELSE d
               e == FileInfo(a, n)
           IN
           /\ a.state = IF reads /\ d.state = "WAIT_READ" /\ d.fileBytes > 0
                        THEN "IDLE" ELSE d.state
           /\ e \in Device /\ e.state = a.state /\ e.opened = d.opened
           /\ e.mustInterrupt = d.mustInterrupt
<1> DEFINE b == [d EXCEPT !.state = "IDLE"]
           a == IF reads THEN TakeBytes(d, d.fileBytes) ELSE d
<1>1. d.fileBytes \in Nat
  BY DEF Device
<1>2. a = IF reads /\ d.state = "WAIT_READ" /\ d.fileBytes > 0 THEN b ELSE d
  BY <1>1 DEF TakeBytes
<1>3. /\ b \in Device /\ b.state = "IDLE" /\ b.opened = d.opened
      /\ b.mustInterrupt = d.mustInterrupt
  BY DEF Device, DeviceStates
<1> HIDE DEF a, b
<1>4. /\ a \in Device /\ a.opened = d.opened
      /\ a.mustInterrupt = d.mustInterrupt
      /\ a.state = IF reads /\ d.state = "WAIT_READ" /\ d.fileBytes > 0
                   THEN "IDLE" ELSE d.state
  BY <1>2, <1>3
<1> DEFINE e == [a EXCEPT !.fileBytes = n]
<1>5. /\ e \in Device /\ e.state = a.state /\ e.opened = a.opened
      /\ e.mustInterrupt = a.mustInterrupt
  BY <1>4 DEF Device
<1>6. FileInfo(a, n) = IF a.state = "IDLE" THEN e ELSE a
  BY DEF FileInfo, SetBytes
<1> HIDE DEF e
<1> QED BY <1>4, <1>5, <1>6 DEF a

\* The end of a transfer and of its interrupt request.
LEMMA TransferFacts ==
    ASSUME NEW d \in Device, NEW n \in Nat
    PROVE  /\ LET e == Transferred(d, n) IN
              /\ e \in Device /\ e.file = d.file /\ e.fileBytes = n
              /\ e.opened = d.opened /\ e.mustInterrupt
              /\ e.state = IF d.state = "READING" /\ n > 0 THEN "WAIT_READ"
                           ELSE "IDLE"
           /\ LET e == InterruptWon(d) IN
              /\ e \in Device /\ e.file = d.file /\ e.fileBytes = d.fileBytes
              /\ e.opened = d.opened /\ ~e.mustInterrupt /\ e.state = d.state
<1> DEFINE st == IF d.state = "READING" /\ n > 0 THEN "WAIT_READ" ELSE "IDLE"
           e == [d EXCEPT !.fileBytes = n, !.mustInterrupt = TRUE, !.state = st]
<1>1. st \in DeviceStates
  BY DEF DeviceStates
<1>2. Transferred(d, n) = e
  BY DEF Transferred
<1> HIDE DEF st
<1>3. /\ e \in Device /\ e.file = d.file /\ e.fileBytes = n
      /\ e.opened = d.opened /\ e.mustInterrupt /\ e.state = st
  BY <1>1 DEF Device
<1> HIDE DEF e
<1>4. LET a == InterruptWon(d) IN
      /\ a \in Device /\ a.file = d.file /\ a.fileBytes = d.fileBytes
      /\ a.opened = d.opened /\ ~a.mustInterrupt /\ a.state = d.state
  BY DEF InterruptWon, Device
<1> QED BY <1>2, <1>3, <1>4 DEF st

-----------------------------------------------------------------------------
\* The inductive invariant.

\* What HdInv says of the oldest job.
LEMMA OldestFacts ==
    ASSUME TypeOK, Queued(Jobs, waits), Used > 0
    PROVE  /\ Oldest.client \in Clients /\ Oldest.op \in Ops
           /\ Oldest.len \in Nat /\ Oldest.intermediate \in Nat
           /\ Oldest.last \in BOOLEAN
           /\ waits[Oldest.client] = Oldest.op
           /\ Oldest.op \notin {"READ", "WRITE"} =>
                Oldest.last /\ Oldest.intermediate = 0
           /\ ~Oldest.last => Used > 1
           /\ \A i \in 1 .. Used : waits[Jobs[i].client] # "none"
<1>1. Used \in Nat /\ 1 \in DOMAIN Jobs /\ Oldest = Jobs[1] /\ Oldest \in Operation
  BY JobsFacts
<1>2. ~Oldest.last => Used > 1
  BY <1>1, JobsFacts DEF Queued, Grouped
<1>3. \A i \in 1 .. Used : waits[Jobs[i].client] \in Ops
  <2>1. \A i \in 1 .. Used : Jobs[i] \in Operation
    BY JobsFacts, ElementOfSeq
  <2> QED BY <2>1, JobsFacts DEF Queued, AllAwaited, Operation
<1> QED BY <1>1, <1>2, <1>3 DEF Queued, AllAwaited, OthersWhole, Operation, Ops

\* The oldest job after a step.
LEMMA OldestNext ==
    ASSUME listStart' \in Slots, Used' \in Nat, Used' > 0
    PROVE  Oldest' = Jobs'[1]
<1>1. listStart' \in 0 .. Capacity - 1 /\ Capacity \in Nat
  BY RingAssumption DEF Slots
<1>2. Wrap(listStart' + 1 - 1) = listStart'
  <2>1. PICK k \in 0 .. Capacity - 1 : k = listStart'
    BY <1>1
  <2>2. k + 1 - 1 = k /\ ~(k >= Capacity)
    BY <1>1
  <2>3. Wrap(k + 1 - 1) = k
    BY <2>2 DEF Wrap
  <2> QED BY <2>1, <2>3
<1>3. Jobs' = [i \in 1 .. Used' |-> operations'[Wrap(listStart' + i - 1)]]
  BY DEF Jobs, Wrap
<1>4. Jobs'[1] = operations'[Wrap(listStart' + 1 - 1)]
  BY <1>3
<1> QED BY <1>2, <1>4 DEF Oldest

\* A panic changes nothing else.
LEMMA PanicKeepsHdInv ==
    ASSUME HdInv, UNCHANGED <<ring, kernel, device, clients, moved>>,
           panic' \in {"no", "assert", "load"}
    PROVE  HdInv'
<1>1. /\ operations' = operations /\ listStart' = listStart /\ listEnd' = listEnd
      /\ listAvailable' = listAvailable /\ idle' = idle /\ phase' = phase
      /\ result' = result /\ hd' = hd /\ irq' = irq /\ waits' = waits
      /\ loading' = loading /\ hasFile' = hasFile /\ answer' = answer
      /\ moved' = moved
  BY DEF ring, kernel, device, clients
<1>2. Used' = Used /\ Oldest' = Oldest
  BY <1>1 DEF Used, Oldest
<1>3. Jobs' = Jobs
  BY <1>1, <1>2 DEF Jobs, Wrap
<1>4. TypeOK' /\ RingInv' /\ Queued(Jobs', waits')
  BY <1>1, <1>2, <1>3 DEF HdInv, TypeOK, RingInv, Wrap
<1>5. MovedInv' /\ FilesInv' /\ LoadingInv' /\ AnswerIsTotal'
  BY <1>1, <1>2 DEF HdInv, MovedInv, Progress, FilesInv, LoadingInv, AnswerIsTotal
<1>6. PhaseInv'
  BY <1>1, <1>2 DEF HdInv, PhaseInv, DeviceQuiet, Serving
<1> QED BY <1>4, <1>5, <1>6 DEF HdInv

\* A client that waits for nothing makes a request.
LEMMA SubmitKeepsHdInv ==
    ASSUME HdInv, panic = "no",
           NEW c \in Clients, NEW op \in Ops, NEW len \in Nat,
           op \notin {"READ", "WRITE"} => len = 0,
           waits[c] = "none",
           \/ phase = "boot" /\ c = Loader /\ op = "OPEN"
           \/ /\ phase = "user" /\ c \in Threads /\ c < loading
              /\ op = "OPEN" <=> c \notin hasFile,
           Submit(c, op, len)
    PROVE  HdInv'
<1> DEFINE es == Entries(c, op, len)
<1>1. CASE ~(Len(es) <= listAvailable)
  <2>1. panic' = "assert" /\ UNCHANGED <<ring, kernel, device, clients, moved>>
    BY <1>1 DEF Submit, Asserting
  <2> QED BY <2>1, PanicKeepsHdInv
<1>2. CASE Len(es) <= listAvailable
  <2>1. /\ operations' = Enqueued(es)
        /\ listEnd' = Wrap(listEnd + Len(es))
        /\ listAvailable' = listAvailable - Len(es)
        /\ phase' = IF idle THEN "next" ELSE "user"
        /\ waits' = [waits EXCEPT ![c] = op]
        /\ answer' = [answer EXCEPT ![c] = 0]
        /\ moved' = [moved EXCEPT ![c] = 0]
        /\ listStart' = listStart /\ idle' = idle /\ result' = result
        /\ hd' = hd /\ irq' = irq /\ loading' = loading /\ hasFile' = hasFile
        /\ panic' = panic
    BY <1>2 DEF Submit, Asserting, AfterRequest, device
  <2>2. /\ Request(es, c, op) /\ es \in Seq(Operation)
        /\ Len(es) \in Nat /\ Len(es) > 0
    BY EntriesAreRequest
  <2> HIDE DEF es
  <2>3. TypeOK /\ RingInv /\ Queued(Jobs, waits)
    BY DEF HdInv
  <2>4. /\ operations' \in [Slots -> Operation]
        /\ listEnd' \in Slots /\ listAvailable' \in 0 .. Capacity
        /\ RingInv' /\ Used' = Used + Len(es) /\ Jobs' = Jobs \o es
    BY <1>2, <2>1, <2>2, <2>3, RequestedJobs
  <2>5. Used \in Nat /\ Used' \in Nat /\ Used' > 0
    BY <2>2, <2>3, <2>4, JobsFacts
  <2>6. TypeOK'
    BY <2>1, <2>3, <2>4 DEF TypeOK
  <2>7. \A i \in DOMAIN Jobs : Jobs[i].client # c
    BY <2>3, OldestFacts, JobsFacts
  <2>8. Queued(Jobs', waits')
    <3>1. Queued(Jobs \o es, [waits EXCEPT ![c] = op])
      BY <2>2, <2>3, <2>7, JobsFacts, AppendQueued DEF TypeOK
    <3> QED BY <3>1, <2>1, <2>4
  <2>9. waits'[c] = op /\ moved'[c] = 0 /\ op # "none"
    BY <2>1, <2>3 DEF TypeOK, Ops
  <2>10. \A d \in Clients : d # c =>
           waits'[d] = waits[d] /\ moved'[d] = moved[d] /\ answer'[d] = answer[d]
    BY <2>1, <2>3 DEF TypeOK
  <2>11. ASSUME Used = 0 PROVE MovedInv' /\ PhaseInv'
    <3>1. DeviceQuiet /\ idle
      BY <2>11 DEF HdInv, PhaseInv
    <3>2. phase' = "next" /\ DeviceQuiet' /\ idle'
      BY <2>1, <3>1 DEF DeviceQuiet
    <3>3. Oldest'.client = c /\ Oldest'.intermediate = 0
      <4>1. Oldest' = Jobs'[1]
        BY <2>5, <2>6, OldestNext DEF TypeOK
      <4>2. Jobs'[1] = es[1]
        BY <2>2, <2>3, <2>4, <2>11, JobsFacts, ConcatProperties
      <4> QED BY <4>1, <4>2, <2>2 DEF Request
    <3>4. MovedInv'
      BY <2>9, <2>10, <2>11, <3>2, <3>3 DEF HdInv, MovedInv, Progress
    <3>5. PhaseInv'
      BY <3>2, <2>5 DEF PhaseInv
    <3> QED BY <3>4, <3>5
  <2>12. ASSUME Used > 0 PROVE MovedInv' /\ PhaseInv'
    <3>1. phase = "user" /\ ~idle /\ Serving(Oldest)
      BY <2>12 DEF HdInv, PhaseInv
    <3>2. phase' = "user" /\ ~idle'
      BY <2>1, <3>1
    <3>3. Oldest' = Oldest /\ Oldest.client # c
      <4>1. Oldest = Jobs[1] /\ Oldest' = Jobs'[1]
        BY <2>3, <2>5, <2>6, <2>12, JobsFacts, OldestNext DEF TypeOK
      <4>2. Jobs'[1] = Jobs[1]
        BY <2>2, <2>3, <2>4, <2>5, <2>12, JobsFacts, ConcatProperties
      <4> QED BY <4>1, <4>2, <2>3, <2>5, <2>7, <2>12, JobsFacts
    <3>4. MovedInv'
      BY <2>1, <2>5, <2>9, <2>10, <2>12, <3>1, <3>2, <3>3
         DEF HdInv, MovedInv, Progress
    <3>5. Serving(Oldest)'
      BY <2>1, <3>1, <3>3 DEF Serving
    <3>6. PhaseInv'
      BY <3>2, <3>5, <2>5 DEF PhaseInv
    <3> QED BY <3>4, <3>6
  <2>13. FilesInv'
    <3>1. \A d \in Clients : d # c =>
            /\ waits'[d] \in {"READ", "WRITE"} => d \in hd'.opened
            /\ d \in hasFile' /\ waits'[d] = "none" => d \in hd'.opened
            /\ waits'[d] = "OPEN" => d \notin hasFile'
      BY <2>1, <2>10 DEF HdInv, FilesInv
    <3>2. /\ op \in {"READ", "WRITE"} => c \in hd.opened
          /\ op = "OPEN" => c \notin hasFile
      BY <2>3 DEF HdInv, FilesInv, TypeOK, Threads, Loader
    <3>3. phase' # "processed"
      BY <2>1
    <3> QED BY <2>1, <2>9, <3>1, <3>2, <3>3 DEF FilesInv
  <2>14. LoadingInv'
    <3>1. c = Loader => loading = 1
      BY <2>3 DEF HdInv, PhaseInv, Threads, Loader
    <3> QED BY <2>1, <2>9, <2>10, <3>1, ProgramsAssumption
            DEF HdInv, LoadingInv, Clients, Threads, Loader
  <2>15. AnswerIsTotal'
    BY <2>9, <2>10 DEF HdInv, AnswerIsTotal
  <2> QED BY <2>4, <2>5, <2>6, <2>8, <2>11, <2>12, <2>13, <2>14, <2>15 DEF HdInv
<1> QED BY <1>1, <1>2

\* A step that leaves the ring and its clients alone.
LEMMA RingUnchanged ==
    ASSUME UNCHANGED ring
    PROVE  Used' = Used /\ Oldest' = Oldest /\ Jobs' = Jobs /\ RingInv' = RingInv
<1>1. /\ operations' = operations /\ listStart' = listStart /\ listEnd' = listEnd
      /\ listAvailable' = listAvailable
  BY DEF ring
<1>2. Used' = Used /\ Oldest' = Oldest
  BY <1>1 DEF Used, Oldest
<1>3. Jobs' = Jobs
  BY <1>1, <1>2 DEF Jobs, Wrap
<1>4. RingInv' = RingInv
  BY <1>1, <1>2 DEF RingInv, Wrap
<1> QED BY <1>2, <1>3, <1>4

\* What is known when the driver starts the oldest job.
LEMMA StartFacts ==
    ASSUME HdInv, phase = "next"
    PROVE  /\ Used > 0 /\ DeviceQuiet /\ hd \in Device
           /\ Oldest.client \in Files /\ Oldest.len \in Nat
           /\ waits[Oldest.client] = Oldest.op
           /\ moved[Oldest.client] = Oldest.intermediate
           /\ \A c \in Clients :
                waits[c] # "none" /\ c # Oldest.client => moved[c] = 0
<1>1. Used > 0 /\ DeviceQuiet /\ TypeOK /\ Queued(Jobs, waits)
  BY DEF HdInv, PhaseInv
<1>2. /\ Oldest.client \in Clients /\ Oldest.len \in Nat /\ Oldest.op # "none"
      /\ waits[Oldest.client] = Oldest.op /\ Oldest.intermediate \in Nat
  BY <1>1, OldestFacts DEF Ops
<1>3. Progress = 0
  BY DEF Progress
<1>4. /\ moved[Oldest.client] = Oldest.intermediate
      /\ \A c \in Clients :
           waits[c] # "none" /\ c # Oldest.client => moved[c] = 0
  BY <1>1, <1>2, <1>3 DEF HdInv, MovedInv
<1> QED BY <1>1, <1>2, <1>4, FilesAssumption DEF TypeOK

\* A transfer is left to the device.
LEMMA LeftToKeepsHdInv ==
    ASSUME HdInv, phase = "next", NEW d \in Device, LeftTo(d), panic' = panic,
           Oldest.op \in {"READ", "WRITE"},
           d.file = Oldest.client, d.fileBytes = Oldest.len,
           d.opened = hd.opened, d.mustInterrupt = hd.mustInterrupt,
           d.state = IF Oldest.op = "READ" THEN "READING" ELSE "WRITTING"
    PROVE  HdInv'
<1>1. /\ hd' = d /\ idle' = FALSE /\ phase' = "user" /\ result' = result
      /\ irq' = irq /\ waits' = waits /\ loading' = loading
      /\ hasFile' = hasFile /\ answer' = answer /\ moved' = moved
      /\ UNCHANGED ring
  BY DEF LeftTo, clients
<1>2. /\ TypeOK /\ RingInv /\ Queued(Jobs, waits) /\ Used > 0 /\ DeviceQuiet
      /\ waits[Oldest.client] = Oldest.op /\ Oldest.client \in Clients
      /\ Oldest.len \in Nat
  BY StartFacts, FilesAssumption DEF HdInv
<1>3. Used' = Used /\ Oldest' = Oldest /\ Jobs' = Jobs /\ RingInv'
  BY <1>1, <1>2, RingUnchanged
<1>4. TypeOK'
  BY <1>1, <1>2 DEF TypeOK, ring
<1>5. MovedInv'
  <2>1. Progress = 0 /\ Progress' = 0
    BY <1>1, <1>2 DEF Progress, DeviceQuiet
  <2> QED BY <2>1, <1>1, <1>3 DEF HdInv, MovedInv
<1>6. FilesInv'
  BY <1>1, <1>3 DEF HdInv, FilesInv
<1>7. PhaseInv'
  <2>1. Oldest.client \in hd.opened
    BY <1>2 DEF HdInv, FilesInv
  <2>2. Serving(Oldest)'
    BY <2>1, <1>1, <1>2, <1>3 DEF Serving, DeviceQuiet
  <2> QED BY <2>2, <1>1, <1>2, <1>3 DEF PhaseInv
<1>8. LoadingInv' /\ AnswerIsTotal'
  BY <1>1 DEF HdInv, LoadingInv, AnswerIsTotal
<1> QED BY <1>1, <1>2, <1>3, <1>4, <1>5, <1>6, <1>7, <1>8 DEF HdInv

\* The oldest job is a read.
LEMMA StartReadKeepsHdInv ==
    ASSUME HdInv, StartRead
    PROVE  HdInv'
<1>1. At("next") /\ Oldest.op = "READ"
  BY DEF StartRead, Starts
<1>2. phase = "next" /\ panic = "no"
  BY <1>1 DEF At
<1>3. CASE hd.state = "IDLE"
  <2>1. LeftTo(Command(Addressed, "READ_SECTOR")) /\ panic' = panic
    BY <1>3 DEF StartRead, Asserting
  <2> DEFINE a == Addressed
             d == Command(a, "READ_SECTOR")
  <2>2. /\ a \in Device /\ a.state = "IDLE" /\ a.file = Oldest.client
        /\ a.fileBytes = Oldest.len /\ a.opened = hd.opened
        /\ a.mustInterrupt = hd.mustInterrupt
    BY <1>2, <1>3, StartFacts, AddressFacts DEF Addressed
  <2> HIDE DEF a
  <2>3. /\ d \in Device /\ d.state = "READING" /\ d.file = a.file
        /\ d.fileBytes = a.fileBytes /\ d.opened = a.opened
        /\ d.mustInterrupt = a.mustInterrupt
    BY <2>2, CommandFacts DEF CommandState
  <2>4. LeftTo(d)
    BY <2>1 DEF a
  <2> HIDE DEF d
  <2> QED BY <2>1, <2>2, <2>3, <2>4, <1>1, <1>2, LeftToKeepsHdInv
<1>4. CASE hd.state # "IDLE"
  BY <1>2, <1>4, PanicKeepsHdInv DEF StartRead, Asserting
<1> QED BY <1>3, <1>4

\* The oldest job is a write.
LEMMA StartWriteKeepsHdInv ==
    ASSUME HdInv, StartWrite
    PROVE  HdInv'
<1> DEFINE a == Addressed
           w == Command(a, "WRITE_FILE_BUFFER")
           s == SendBytes(w, Oldest.len)
           d == Command(s, "WRITE_SECTOR")
           C == /\ hd.state = "IDLE" /\ w.state = "WAIT_WBUFFER"
                /\ s.state = "IDLE"
<1>1. At("next") /\ Oldest.op = "WRITE"
  BY DEF StartWrite, Starts
<1>2. phase = "next" /\ panic = "no"
  BY <1>1 DEF At
<1>3. CASE C
  <2>1. LeftTo(d) /\ panic' = panic
    BY <1>3 DEF StartWrite, Asserting
  <2>2. /\ a \in Device /\ a.state = "IDLE" /\ a.file = Oldest.client
        /\ a.fileBytes = Oldest.len /\ a.opened = hd.opened
        /\ a.mustInterrupt = hd.mustInterrupt
    BY <1>2, <1>3, StartFacts, AddressFacts DEF Addressed
  <2> HIDE DEF a
  <2>3. /\ w \in Device /\ w.state = "WAIT_WBUFFER" /\ w.file = a.file
        /\ w.fileBytes = a.fileBytes /\ w.opened = a.opened
        /\ w.mustInterrupt = a.mustInterrupt
    BY <2>2, CommandFacts DEF CommandState
  <2>4. s = SendBytes(w, w.fileBytes)
    BY <2>2, <2>3
  <2> HIDE DEF w
  <2>5. /\ s \in Device /\ s.state = "IDLE" /\ s.file = w.file
        /\ s.fileBytes = w.fileBytes /\ s.opened = w.opened
        /\ s.mustInterrupt = w.mustInterrupt
    BY <2>3, <2>4, <1>3, SendFacts
  <2> HIDE DEF s
  <2>6. /\ d \in Device /\ d.state = "WRITTING" /\ d.file = s.file
        /\ d.fileBytes = s.fileBytes /\ d.opened = s.opened
        /\ d.mustInterrupt = s.mustInterrupt
    BY <2>5, CommandFacts DEF CommandState
  <2> HIDE DEF d
  <2> QED BY <2>1, <2>2, <2>3, <2>5, <2>6, <1>1, <1>2, LeftToKeepsHdInv
<1>4. CASE ~C
  BY <1>2, <1>4, PanicKeepsHdInv DEF StartWrite, Asserting
<1> QED BY <1>3, <1>4

\* The device answered the oldest job at once.
LEMMA DoneByKeepsHdInv ==
    ASSUME HdInv, phase = "next", NEW d \in Device, NEW r \in {0, 1},
           DoneBy(d, r), panic' = panic,
           Oldest.op \in {"OPEN", "CLOSE"},
           d.state = "IDLE", d.mustInterrupt = hd.mustInterrupt,
           IF Oldest.op = "CLOSE" THEN d.opened = hd.opened \ {Oldest.client}
           ELSE /\ hd.opened \subseteq d.opened
                /\ r # 0 => Oldest.client \in d.opened
    PROVE  HdInv'
<1>1. /\ hd' = d /\ idle' = FALSE /\ phase' = "processed" /\ result' = r
      /\ irq' = irq /\ waits' = waits /\ loading' = loading
      /\ hasFile' = hasFile /\ answer' = answer
      /\ moved' = [moved EXCEPT ![Oldest.client] = r]
      /\ UNCHANGED ring
  BY DEF DoneBy, clients
<1>2. /\ TypeOK /\ RingInv /\ Queued(Jobs, waits) /\ Used > 0 /\ DeviceQuiet
      /\ waits[Oldest.client] = Oldest.op /\ Oldest.client \in Clients
      /\ \A c \in Clients :
           waits[c] # "none" /\ c # Oldest.client => moved[c] = 0
  BY StartFacts, FilesAssumption DEF HdInv
<1>3. Oldest.intermediate = 0
  BY <1>2, OldestFacts
<1>4. Used' = Used /\ Oldest' = Oldest /\ Jobs' = Jobs /\ RingInv'
  BY <1>1, <1>2, RingUnchanged
<1>5. r \in Nat
  OBVIOUS
<1>6. TypeOK'
  BY <1>1, <1>2, <1>5 DEF TypeOK, ring
<1>7. /\ moved'[Oldest.client] = r
      /\ \A c \in Clients : c # Oldest.client => moved'[c] = moved[c]
  BY <1>1, <1>2 DEF TypeOK
<1>8. MovedInv'
  <2>1. Progress' = r
    BY <1>1 DEF Progress
  <2>2. \A c \in Clients : waits'[c] # "none" =>
          moved'[c] = IF Used' > 0 /\ c = Oldest'.client
                      THEN Oldest'.intermediate + Progress' ELSE 0
    BY <2>1, <1>1, <1>2, <1>3, <1>4, <1>5, <1>7
  <2> QED BY <2>2 DEF MovedInv
<1>9. FilesInv'
  <2>1. \A c \in Clients : waits[c] # Oldest.op => c # Oldest.client
    BY <1>2
  <2>2. ASSUME NEW c \in Clients, c \in hd.opened, waits[c] \in {"READ", "WRITE", "none"}
        PROVE  c \in d.opened
    BY <2>1, <2>2
  <2>3. \A c \in Clients :
          /\ waits[c] \in {"READ", "WRITE"} => c \in hd.opened
          /\ c \in hasFile /\ waits[c] = "none" => c \in hd.opened
          /\ waits[c] = "OPEN" => c \notin hasFile
    BY DEF HdInv, FilesInv
  <2>4. \A c \in Clients :
          /\ waits'[c] \in {"READ", "WRITE"} => c \in hd'.opened
          /\ c \in hasFile' /\ waits'[c] = "none" => c \in hd'.opened
          /\ waits'[c] = "OPEN" => c \notin hasFile'
    BY <1>1, <2>2, <2>3
  <2>5. Oldest'.op = "OPEN" /\ result' # 0 => Oldest'.client \in hd'.opened
    BY <1>1, <1>4
  <2> QED BY <2>4, <2>5 DEF FilesInv
<1>10. PhaseInv'
  <2>1. DeviceQuiet' /\ ~idle' /\ phase' = "processed"
    BY <1>1, <1>2 DEF DeviceQuiet
  <2>2. result' \in IF Oldest'.op \in {"READ", "WRITE"} THEN 0 .. Oldest'.len
                    ELSE {0, 1}
    BY <1>1, <1>4
  <2> QED BY <2>1, <2>2, <1>2, <1>4 DEF PhaseInv
<1>11. LoadingInv'
  BY <1>1 DEF HdInv, LoadingInv
<1>12. AnswerIsTotal'
  <2>1. \A c \in Clients : waits[c] = "none" => c # Oldest.client
    BY <1>2
  <2> QED BY <2>1, <1>1, <1>7 DEF HdInv, AnswerIsTotal
<1> QED BY <1>1, <1>2, <1>4, <1>6, <1>8, <1>9, <1>10, <1>11, <1>12 DEF HdInv

\* The oldest job opens a file.
LEMMA StartOpenKeepsHdInv ==
    ASSUME HdInv, StartOpen
    PROVE  HdInv'
<1> DEFINE named == Command(Command(hd, "FNAME_START"), "FNAME_END")
           e == FileInfo(OpenFile(named, Oldest.client, TRUE), FilePos)
           f == OpenFile(named, Oldest.client, FALSE)
<1>1. At("next") /\ Oldest.op = "OPEN"
  BY DEF StartOpen, Starts
<1>2. phase = "next" /\ panic = "no"
  BY <1>1 DEF At
<1>3. CASE hd.state = "IDLE" /\ named.state = "IDLE"
  <2>1. (DoneBy(e, 1) \/ DoneBy(f, 0)) /\ panic' = panic
    BY <1>3 DEF StartOpen, Asserting
  <2>2. /\ named \in Device /\ named.state = "IDLE" /\ named.opened = hd.opened
        /\ named.mustInterrupt = hd.mustInterrupt
    BY <1>2, <1>3, StartFacts, NameFacts
  <2> HIDE DEF named
  <2>3. Oldest.client \in Files /\ FilePos \in Nat
    BY <1>2, StartFacts, LengthAssumption
  <2>4. /\ e \in Device /\ e.state = "IDLE"
        /\ e.opened = named.opened \cup {Oldest.client}
        /\ e.mustInterrupt = named.mustInterrupt
        /\ f \in Device /\ f.state = "IDLE" /\ f.opened = named.opened
        /\ f.mustInterrupt = named.mustInterrupt
    <3>1. PICK c \in Files : c = Oldest.client
      BY <2>3
    <3>2. /\ LET a == FileInfo(OpenFile(named, c, TRUE), FilePos) IN
             /\ a \in Device /\ a.state = "IDLE"
             /\ a.opened = named.opened \cup {c}
             /\ a.mustInterrupt = named.mustInterrupt
          /\ LET a == OpenFile(named, c, FALSE) IN
             /\ a \in Device /\ a.state = "IDLE" /\ a.opened = named.opened
             /\ a.mustInterrupt = named.mustInterrupt
      BY <2>2, <2>3, OpenFacts
    <3> QED BY <3>1, <3>2
  <2> HIDE DEF e, f
  <2>5. CASE DoneBy(e, 1)
    BY <2>1, <2>2, <2>4, <2>5, <1>1, <1>2, DoneByKeepsHdInv
  <2>6. CASE DoneBy(f, 0)
    BY <2>1, <2>2, <2>4, <2>6, <1>1, <1>2, DoneByKeepsHdInv
  <2> QED BY <2>1, <2>5, <2>6
<1>4. CASE ~(hd.state = "IDLE" /\ named.state = "IDLE")
  BY <1>2, <1>4, PanicKeepsHdInv DEF StartOpen, Asserting
<1> QED BY <1>3, <1>4

\* The oldest job closes a file.
LEMMA StartCloseKeepsHdInv ==
    ASSUME HdInv, StartClose
    PROVE  HdInv'
<1> DEFINE e == CloseFile(SelectFile(hd, Oldest.client))
<1>1. At("next") /\ Oldest.op = "CLOSE"
  BY DEF StartClose, Starts
<1>2. phase = "next" /\ panic = "no"
  BY <1>1 DEF At
<1>3. CASE hd.state = "IDLE"
  <2>1. DoneBy(e, 1) /\ panic' = panic
    BY <1>3 DEF StartClose, Asserting
  <2>2. /\ e \in Device /\ e.state = "IDLE"
        /\ e.opened = hd.opened \ {Oldest.client}
        /\ e.mustInterrupt = hd.mustInterrupt
    BY <1>2, <1>3, StartFacts, CloseFacts
  <2> HIDE DEF e
  <2> QED BY <2>1, <2>2, <1>1, <1>2, DoneByKeepsHdInv
<1>4. CASE hd.state # "IDLE"
  BY <1>2, <1>4, PanicKeepsHdInv DEF StartClose, Asserting
<1> QED BY <1>3, <1>4

\* A transfer ends in the device.
LEMMA DeviceTransfersKeepsHdInv ==
    ASSUME HdInv, DeviceTransfers
    PROVE  HdInv'
<1>1. /\ TypeOK /\ RingInv /\ Queued(Jobs, waits) /\ hd \in Device
      /\ hd.state \in {"READING", "WRITTING"} /\ ~hd.mustInterrupt
  BY DEF HdInv, TypeOK, DeviceTransfers, Transferring
<1>2. phase = "user" /\ Used > 0 /\ ~idle /\ Serving(Oldest)
  BY <1>1 DEF HdInv, PhaseInv, DeviceQuiet
<1>3. /\ Oldest.op \in {"READ", "WRITE"} /\ hd.file = Oldest.client
      /\ hd.file \in hd.opened /\ hd.fileBytes <= Oldest.len /\ ~irq
      /\ hd.state = IF Oldest.op = "READ" THEN "READING" ELSE "WRITTING"
  BY <1>1, <1>2 DEF Serving
<1>4. PICK n \in 0 .. hd.fileBytes :
         hd' = Transferred(hd, n) /\ moved' = [moved EXCEPT ![hd.file] = @ + n]
  BY DEF DeviceTransfers
<1>5. /\ UNCHANGED ring /\ idle' = idle /\ phase' = phase /\ result' = result
      /\ irq' = irq /\ waits' = waits /\ loading' = loading
      /\ hasFile' = hasFile /\ answer' = answer /\ panic' = panic
  BY DEF DeviceTransfers, kernel, clients
<1>6. /\ Oldest.client \in Clients /\ Oldest.len \in Nat
      /\ Oldest.intermediate \in Nat /\ waits[Oldest.client] = Oldest.op
  BY <1>1, <1>2, OldestFacts
<1>7. n \in Nat /\ hd.fileBytes \in Nat /\ n <= Oldest.len
  <2>1. hd.fileBytes \in Nat
    BY <1>1 DEF Device
  <2> QED BY <2>1, <1>3, <1>4, <1>6
<1>8. /\ hd' \in Device /\ hd'.file = hd.file /\ hd'.fileBytes = n
      /\ hd'.opened = hd.opened /\ hd'.mustInterrupt
      /\ hd'.state = IF hd.state = "READING" /\ n > 0 THEN "WAIT_READ" ELSE "IDLE"
  BY <1>1, <1>4, <1>7, TransferFacts
<1>9. Used' = Used /\ Oldest' = Oldest /\ Jobs' = Jobs /\ RingInv'
  BY <1>1, <1>5, RingUnchanged
<1>10. moved[Oldest.client] = Oldest.intermediate
  <2>1. Progress = 0
    BY <1>1, <1>2, <1>3 DEF Progress
  <2> QED BY <2>1, <1>2, <1>3, <1>6 DEF HdInv, MovedInv
<1>11. /\ moved' \in [Clients -> Nat]
       /\ moved'[Oldest.client] = Oldest.intermediate + n
       /\ \A c \in Clients : c # Oldest.client => moved'[c] = moved[c]
  <2>1. moved' = [moved EXCEPT ![Oldest.client] = Oldest.intermediate + n]
    BY <1>3, <1>4, <1>10
  <2>2. moved \in [Clients -> Nat] /\ Oldest.intermediate + n \in Nat
    BY <1>1, <1>6, <1>7 DEF TypeOK
  <2> QED BY <2>1, <2>2, <1>6
<1>12. TypeOK'
  BY <1>1, <1>5, <1>8, <1>11 DEF TypeOK, ring
<1>13. MovedInv'
  <2>1. Progress' = n
    BY <1>2, <1>5, <1>8 DEF Progress
  <2>2. \A c \in Clients : waits[c] # "none" /\ c # Oldest.client => moved[c] = 0
    BY DEF HdInv, MovedInv
  <2>3. \A c \in Clients : waits'[c] # "none" =>
          moved'[c] = IF Used' > 0 /\ c = Oldest'.client
                      THEN Oldest'.intermediate + Progress' ELSE 0
    BY <2>1, <2>2, <1>2, <1>5, <1>9, <1>11
  <2> QED BY <2>3 DEF MovedInv
<1>14. FilesInv'
  BY <1>5, <1>8, <1>9 DEF HdInv, FilesInv
<1>15. PhaseInv'
  <2>1. Serving(Oldest)'
    BY <1>3, <1>5, <1>7, <1>8, <1>9 DEF Serving
  <2> QED BY <2>1, <1>2, <1>5, <1>9 DEF PhaseInv
<1>16. LoadingInv'
  BY <1>5 DEF HdInv, LoadingInv
<1>17. AnswerIsTotal'
  <2>1. \A c \in Clients : waits[c] = "none" => c # Oldest.client
    BY <1>3, <1>6
  <2> QED BY <2>1, <1>5, <1>11 DEF HdInv, AnswerIsTotal
<1> QED BY <1>1, <1>5, <1>9, <1>12, <1>13, <1>14, <1>15, <1>16, <1>17 DEF HdInv

\* The processor accepts the device's interrupt.
LEMMA InterruptAcceptedKeepsHdInv ==
    ASSUME HdInv, InterruptAccepted
    PROVE  HdInv'
<1>1. TypeOK /\ RingInv /\ Queued(Jobs, waits) /\ hd \in Device
  BY DEF HdInv, TypeOK
<1>2. /\ hd.mustInterrupt /\ ~irq /\ hd' = InterruptWon(hd) /\ irq' = TRUE
      /\ UNCHANGED ring /\ idle' = idle /\ phase' = phase /\ result' = result
      /\ waits' = waits /\ loading' = loading /\ hasFile' = hasFile
      /\ answer' = answer /\ moved' = moved /\ panic' = panic
  BY DEF InterruptAccepted, kernel, clients
<1>3. phase = "user" /\ Used > 0 /\ ~idle /\ Serving(Oldest)
  BY <1>2 DEF HdInv, PhaseInv, DeviceQuiet
<1>4. /\ hd' \in Device /\ hd'.file = hd.file /\ hd'.fileBytes = hd.fileBytes
      /\ hd'.opened = hd.opened /\ ~hd'.mustInterrupt /\ hd'.state = hd.state
  <2>1. 0 \in Nat
    OBVIOUS
  <2> QED BY <2>1, <1>1, <1>2, TransferFacts
<1>5. Used' = Used /\ Oldest' = Oldest /\ Jobs' = Jobs /\ RingInv'
  BY <1>1, <1>2, RingUnchanged
<1>6. TypeOK'
  BY <1>1, <1>2, <1>4 DEF TypeOK, ring
<1>7. MovedInv'
  <2>1. Progress' = Progress
    BY <1>2, <1>3, <1>4 DEF Progress
  <2> QED BY <2>1, <1>2, <1>5 DEF HdInv, MovedInv
<1>8. FilesInv' /\ LoadingInv' /\ AnswerIsTotal'
  BY <1>2, <1>4, <1>5 DEF HdInv, FilesInv, LoadingInv, AnswerIsTotal
<1>9. PhaseInv'
  <2>1. Serving(Oldest)'
    BY <1>2, <1>3, <1>4, <1>5 DEF Serving
  <2> QED BY <2>1, <1>2, <1>3, <1>5 DEF PhaseInv
<1> QED BY <1>1, <1>2, <1>5, <1>6, <1>7, <1>8, <1>9 DEF HdInv

\* The interrupt handler: the transfer of the oldest job is done.
LEMMA HdInterruptKeepsHdInv ==
    ASSUME HdInv, HdInterrupt
    PROVE  HdInv'
<1> DEFINE reads == Oldest.op = "READ"
           emptied == IF reads THEN TakeBytes(hd, hd.fileBytes) ELSE hd
           C == /\ Oldest.op \in {"READ", "WRITE"}
                /\ reads /\ hd.fileBytes > 0 => hd.state = "WAIT_READ"
                /\ emptied.state = "IDLE"
<1>1. /\ TypeOK /\ RingInv /\ Queued(Jobs, waits) /\ hd \in Device
      /\ phase = "user" /\ panic = "no" /\ irq
  BY DEF HdInv, TypeOK, HdInterrupt, At
<1>2. CASE C
  <2>1. /\ hd' = FileInfo(emptied, FilePos) /\ result' = hd.fileBytes
        /\ irq' = FALSE /\ phase' = "processed" /\ UNCHANGED ring /\ idle' = idle
        /\ waits' = waits /\ loading' = loading /\ hasFile' = hasFile
        /\ answer' = answer /\ moved' = moved /\ panic' = panic
    BY <1>2 DEF HdInterrupt, Asserting, clients
  <2>2. Used > 0 /\ ~idle /\ Serving(Oldest)
    BY <1>1 DEF HdInv, PhaseInv, DeviceQuiet
  <2>3. /\ Oldest.op \in {"READ", "WRITE"} /\ ~hd.mustInterrupt
        /\ hd.fileBytes <= Oldest.len /\ hd.fileBytes \in Nat
    BY <2>2, <1>1 DEF Serving, Device
  <2>4. /\ hd' \in Device /\ hd'.state = "IDLE" /\ hd'.opened = hd.opened
        /\ ~hd'.mustInterrupt
    <3>1. reads \in BOOLEAN /\ FilePos \in Nat
      BY LengthAssumption
    <3> HIDE DEF reads
    <3>2. LET e == FileInfo(emptied, FilePos) IN
          /\ e \in Device /\ e.state = emptied.state /\ e.opened = hd.opened
          /\ e.mustInterrupt = hd.mustInterrupt
      BY <3>1, <1>1, EmptyFacts
    <3> HIDE DEF emptied
    <3> QED BY <3>2, <2>1, <2>3, <1>2
  <2>5. Used' = Used /\ Oldest' = Oldest /\ Jobs' = Jobs /\ RingInv'
    BY <1>1, <2>1, RingUnchanged
  <2>6. TypeOK'
    BY <1>1, <2>1, <2>3, <2>4 DEF TypeOK, ring
  <2>7. MovedInv'
    <3>1. Progress' = hd.fileBytes /\ Progress = hd.fileBytes
      BY <1>1, <2>1 DEF Progress
    <3> QED BY <3>1, <2>1, <2>5 DEF HdInv, MovedInv
  <2>8. FilesInv'
    <3>1. Oldest.op # "OPEN"
      BY <2>3
    <3> QED BY <3>1, <2>1, <2>4, <2>5 DEF HdInv, FilesInv
  <2>9. PhaseInv'
    <3>1. DeviceQuiet' /\ ~idle' /\ phase' = "processed"
      BY <2>1, <2>2, <2>4 DEF DeviceQuiet
    <3>2. hd.fileBytes \in 0 .. Oldest.len
      BY <2>2, <2>3, <1>1, OldestFacts
    <3> QED BY <3>1, <3>2, <2>1, <2>2, <2>3, <2>5 DEF PhaseInv
  <2>10. LoadingInv' /\ AnswerIsTotal'
    BY <2>1 DEF HdInv, LoadingInv, AnswerIsTotal
  <2> QED BY <1>1, <2>1, <2>5, <2>6, <2>7, <2>8, <2>9, <2>10 DEF HdInv
<1>3. CASE ~C
  BY <1>1, <1>3, PanicKeepsHdInv DEF HdInterrupt, Asserting
<1> QED BY <1>2, <1>3

\* A part of a transfer is done and the next one follows.
LEMMA PartProcessedKeepsHdInv ==
    ASSUME HdInv, PartProcessed
    PROVE  HdInv'
<1>1. /\ phase = "processed" /\ panic = "no" /\ ~Oldest.last
      /\ TypeOK /\ RingInv /\ Queued(Jobs, waits) /\ Used > 0
  BY DEF PartProcessed, At, HdInv, PhaseInv
<1>2. CASE hd.state = "IDLE"
  <2>1. /\ operations' =
             [operations EXCEPT ![Wrap(listStart + 1)].intermediate = Total]
        /\ listAvailable' = listAvailable + 1 /\ listEnd' = listEnd
        /\ listStart' = Wrap(listStart + 1) /\ idle' = TRUE
        /\ phase' = AfterJob(listAvailable') /\ result' = result
        /\ hd' = hd /\ irq' = irq /\ waits' = waits /\ loading' = loading
        /\ hasFile' = hasFile /\ answer' = answer /\ moved' = moved
        /\ panic' = panic
    BY <1>2 DEF PartProcessed, Asserting, device, clients
  <2>2. /\ Oldest.client \in Clients /\ Oldest.intermediate \in Nat
        /\ waits[Oldest.client] = Oldest.op /\ Oldest.op # "none"
        /\ Used > 1
    BY <1>1, OldestFacts DEF Ops
  <2>3. Total \in Nat /\ result \in Nat
    BY <1>1, <2>2 DEF Total, TypeOK
  <2>4. /\ operations' \in [Slots -> Operation] /\ listStart' \in Slots
        /\ listAvailable' \in 0 .. Capacity /\ RingInv' /\ Used' = Used - 1
        /\ \A i \in 1 .. Used - 1 : Jobs'[i] =
             IF i = 1 THEN [Jobs[2] EXCEPT !.intermediate = Total] ELSE Jobs[i + 1]
    BY <1>1, <2>1, <2>2, <2>3, PartJobs
  <2>5. /\ Jobs \in Seq(Operation) /\ Len(Jobs) = Used /\ Jobs # <<>>
        /\ Used \in Nat /\ Oldest = Jobs[1]
        /\ \A i \in 1 .. Used : Jobs[i] \in Operation
    BY <1>1, JobsFacts, ElementOfSeq
  <2>6. Used' \in Nat /\ Used' > 0 /\ 1 \in 1 .. Used - 1 /\ 2 \in 1 .. Used
    BY <2>2, <2>4, <2>5
  <2>7. DOMAIN Jobs' = 1 .. Used - 1
    <3>1. Jobs' = [i \in 1 .. Used' |-> operations'[Wrap(listStart' + i - 1)]]
      BY DEF Jobs, Wrap
    <3> QED BY <3>1, <2>4
  <2>8. /\ Jobs'[1].client = Jobs[2].client /\ Jobs'[1].op = Jobs[2].op
        /\ Jobs'[1].last = Jobs[2].last /\ Jobs'[1].intermediate = Total
    <3>1. Jobs'[1] = [Jobs[2] EXCEPT !.intermediate = Total]
      BY <2>4, <2>6
    <3>2. Jobs[2] \in Operation
      BY <2>5, <2>6
    <3> QED BY <3>1, <3>2 DEF Operation
  <2>9. \A i \in 1 .. Used - 1 :
           /\ Jobs'[i].client = Jobs[i + 1].client /\ Jobs'[i].op = Jobs[i + 1].op
           /\ Jobs'[i].last = Jobs[i + 1].last
           /\ i # 1 => Jobs'[i].intermediate = Jobs[i + 1].intermediate
    <3>1. ASSUME NEW i \in 1 .. Used - 1
          PROVE  /\ Jobs'[i].client = Jobs[i + 1].client
                 /\ Jobs'[i].op = Jobs[i + 1].op
                 /\ Jobs'[i].last = Jobs[i + 1].last
                 /\ i # 1 => Jobs'[i].intermediate = Jobs[i + 1].intermediate
      <4>1. CASE i = 1
        BY <4>1, <2>8
      <4>2. CASE i # 1
        BY <4>2, <2>4
      <4> QED BY <4>1, <4>2
    <3> QED BY <3>1
  <2>10. Jobs[2].client = Jobs[1].client /\ Queued(Jobs', waits)
    <3>1. PICK J \in Seq(Operation) : J = Jobs
      BY <2>5
    <3>2. PICK K : K = Jobs'
      OBVIOUS
    <3>3. /\ Queued(J, waits) /\ J # <<>> /\ ~J[1].last
          /\ DOMAIN K = 1 .. Len(J) - 1
      BY <1>1, <2>5, <2>7, <3>1, <3>2
    <3>4. \A i \in 1 .. Len(J) - 1 :
             /\ K[i].client = J[i + 1].client /\ K[i].op = J[i + 1].op
             /\ K[i].last = J[i + 1].last
             /\ i # 1 => K[i].intermediate = J[i + 1].intermediate
      BY <2>5, <2>9, <3>1, <3>2
    <3>5. J[2].client = J[1].client /\ Queued(K, waits)
      BY <3>3, <3>4, PartQueued
    <3> QED BY <3>1, <3>2, <3>5
  <2>11. /\ Oldest'.client = Oldest.client
         /\ Oldest'.intermediate = result + Oldest.intermediate
    <3>1. Oldest' = Jobs'[1]
      BY <2>4, <2>6, OldestNext
    <3> QED BY <3>1, <2>5, <2>8, <2>10 DEF Total
  <2>12. phase' = "next"
    <3>1. listAvailable' < Capacity
      BY <2>4, <2>6, RingAssumption DEF Used
    <3> QED BY <3>1, <2>1 DEF AfterJob
  <2>13. TypeOK'
    BY <1>1, <2>1, <2>4, <2>12 DEF TypeOK
  <2>14. MovedInv'
    <3>1. Progress = result /\ Progress' = 0
      BY <1>1, <2>12 DEF Progress
    <3>2. moved[Oldest.client] = Oldest.intermediate + result
      BY <3>1, <1>1, <2>2 DEF HdInv, MovedInv
    <3>3. \A c \in Clients : waits[c] # "none" /\ c # Oldest.client => moved[c] = 0
      BY DEF HdInv, MovedInv
    <3>4. \A c \in Clients : waits'[c] # "none" =>
            moved'[c] = IF Used' > 0 /\ c = Oldest'.client
                        THEN Oldest'.intermediate + Progress' ELSE 0
      BY <3>1, <3>2, <3>3, <2>1, <2>2, <2>3, <2>6, <2>11
    <3> QED BY <3>4 DEF MovedInv
  <2>15. FilesInv'
    BY <2>1, <2>12 DEF HdInv, FilesInv
  <2>16. PhaseInv'
    <3>1. DeviceQuiet
      BY <1>1 DEF HdInv, PhaseInv
    <3> QED BY <3>1, <2>1, <2>6, <2>12 DEF PhaseInv, DeviceQuiet
  <2>17. LoadingInv' /\ AnswerIsTotal'
    BY <2>1 DEF HdInv, LoadingInv, AnswerIsTotal
  <2> QED BY <2>1, <2>4, <2>10, <2>13, <2>14, <2>15, <2>16, <2>17 DEF HdInv
<1>3. CASE hd.state # "IDLE"
  BY <1>1, <1>3, PanicKeepsHdInv DEF PartProcessed, Asserting
<1> QED BY <1>2, <1>3

\* The oldest job is done and its callback has made the request es for op,
\* or none.
LEMMA FinishedFacts ==
    ASSUME HdInv, phase = "processed", Oldest.last,
           NEW es \in Seq(Operation), Len(es) <= listAvailable,
           Finished(es), Answers, NEW op,
           waits' = [waits EXCEPT ![Oldest.client] = op],
           \/ es = <<>> /\ op = "none" /\ moved' = moved
           \/ /\ Request(es, Oldest.client, op) /\ op \in Ops
              /\ moved' = [moved EXCEPT ![Oldest.client] = 0]
    PROVE  /\ operations' \in [Slots -> Operation]
           /\ listStart' \in Slots /\ listEnd' \in Slots
           /\ listAvailable' \in 0 .. Capacity
           /\ phase' \in {"next", "user"} /\ idle' = TRUE /\ result' = result
           /\ hd' = hd /\ irq' = irq
           /\ waits' \in [Clients -> Ops \cup {"none"}]
           /\ answer' \in [Clients -> Nat] /\ moved' \in [Clients -> Nat]
           /\ waits'[Oldest.client] = op
           /\ \A c \in Clients : c # Oldest.client => waits'[c] = waits[c]
           /\ RingInv' /\ Queued(Jobs', waits') /\ MovedInv' /\ PhaseInv'
           /\ AnswerIsTotal'
<1>1. /\ TypeOK /\ RingInv /\ Queued(Jobs, waits) /\ Used > 0 /\ DeviceQuiet
  BY DEF HdInv, PhaseInv
<1>2. /\ Oldest.client \in Clients /\ Oldest.intermediate \in Nat
      /\ waits[Oldest.client] = Oldest.op /\ Oldest.op # "none"
  BY <1>1, OldestFacts DEF Ops
<1>3. /\ operations' = Enqueued(es) /\ listEnd' = Wrap(listEnd + Len(es))
      /\ listAvailable' = listAvailable - Len(es) + 1
      /\ listStart' = Wrap(listStart + 1) /\ idle' = TRUE
      /\ phase' = AfterJob(listAvailable') /\ result' = result
      /\ hd' = hd /\ irq' = irq
  BY DEF Finished, device
<1>4. /\ operations' \in [Slots -> Operation]
      /\ listEnd' \in Slots /\ listStart' \in Slots
      /\ listAvailable' \in 0 .. Capacity /\ RingInv'
      /\ Used' = Used + Len(es) - 1 /\ Jobs' = Tail(Jobs) \o es
  BY <1>1, <1>3, FinishedJobs
<1>5. Total \in Nat /\ Total = Oldest.intermediate + result /\ result \in Nat
  BY <1>1, <1>2 DEF Total, TypeOK
<1>6. op \in Ops \cup {"none"} /\ (op = "none" <=> es = <<>>)
  BY DEF Request, Ops
<1>7. /\ waits' \in [Clients -> Ops \cup {"none"}] /\ waits'[Oldest.client] = op
      /\ \A c \in Clients : c # Oldest.client => waits'[c] = waits[c]
  BY <1>1, <1>2, <1>6 DEF TypeOK
<1>8. /\ answer' \in [Clients -> Nat] /\ answer'[Oldest.client] = Total
      /\ \A c \in Clients : c # Oldest.client => answer'[c] = answer[c]
  BY <1>1, <1>2, <1>5 DEF TypeOK, Answers
<1>9. moved[Oldest.client] = Total
  <2>1. Progress = result
    BY DEF Progress
  <2> QED BY <2>1, <1>1, <1>2, <1>5 DEF HdInv, MovedInv
<1>10. /\ moved' \in [Clients -> Nat]
       /\ moved'[Oldest.client] = IF op = "none" THEN Total ELSE 0
       /\ \A c \in Clients : c # Oldest.client => moved'[c] = moved[c]
  <2>1. CASE op = "none"
    <3>1. moved' = moved
      BY <2>1 DEF Ops
    <3> QED BY <3>1, <2>1, <1>1, <1>2, <1>9 DEF TypeOK
  <2>2. CASE op # "none"
    <3>1. moved' = [moved EXCEPT ![Oldest.client] = 0]
      BY <2>2
    <3> QED BY <3>1, <2>2, <1>1, <1>2 DEF TypeOK
  <2> QED BY <2>1, <2>2
<1>11. AnswerIsTotal'
  <2>1. \A c \in Clients : waits[c] = "none" => answer[c] = moved[c]
    BY DEF HdInv, AnswerIsTotal
  <2>2. \A c \in Clients : waits'[c] = "none" => answer'[c] = moved'[c]
    BY <2>1, <1>7, <1>8, <1>10
  <2> QED BY <2>2 DEF AnswerIsTotal
<1>12. PICK J \in Seq(Operation) :
         /\ J = Jobs /\ J # <<>> /\ Len(J) = Used /\ Used \in Nat
         /\ J[1] = Oldest
  BY <1>1, JobsFacts
<1>13. PICK w \in [Clients -> Ops \cup {"none"}] : w = waits
  BY <1>1 DEF TypeOK
<1> DEFINE w0 == [w EXCEPT ![J[1].client] = "none"]
<1>14. /\ Tail(J) \in Seq(Operation) /\ Queued(Tail(J), w0)
       /\ \A i \in DOMAIN Tail(J) : Tail(J)[i].client # J[1].client
  BY <1>1, <1>12, <1>13, TailQueued
<1>15. w0 \in [Clients -> Ops \cup {"none"}]
  OBVIOUS
<1>16. Queued(Jobs', waits')
  <2>1. CASE op = "none"
    <3>1. Jobs' = Tail(J) /\ waits' = w0
      BY <2>1, <1>4, <1>6, <1>12, <1>13, <1>14, ConcatEmptySeq
    <3> QED BY <3>1, <1>14
  <2>2. CASE op # "none"
    <3>1. Request(es, J[1].client, op) /\ op \in Ops /\ J[1].client \in Clients
      BY <2>2, <1>2, <1>12
    <3>2. Queued(Tail(J) \o es, [w0 EXCEPT ![J[1].client] = op])
      <4> HIDE DEF w0
      <4> QED BY <3>1, <1>14, <1>15, AppendQueued
    <3>3. [w0 EXCEPT ![J[1].client] = op] = [w EXCEPT ![J[1].client] = op]
      BY <3>1
    <3> QED BY <3>2, <3>3, <1>4, <1>12, <1>13
  <2> QED BY <2>1, <2>2
<1>17. Used' \in Nat /\ (phase' = IF Used' > 0 THEN "next" ELSE "user")
  BY <1>3, <1>4, RingAssumption DEF Used, AfterJob
<1>18. Used' > 0 => Oldest'.intermediate = 0
  <2> SUFFICES ASSUME Used' > 0 PROVE Oldest'.intermediate = 0
    OBVIOUS
  <2>1. Oldest' = (Tail(J) \o es)[1]
    BY <1>4, <1>12, <1>17, OldestNext
  <2>2. PICK T \in Seq(Operation) : T = Tail(J)
    BY <1>14
  <2>3. /\ Len(T) = Used - 1 /\ Len(T) \in Nat /\ Len(es) \in Nat
        /\ \A i \in 1 .. Len(T) : T[i] = J[i + 1]
    BY <2>2, <1>12, HeadTailProperties, LenProperties
  <2>4. \A i \in 1 .. Len(T) + Len(es) :
           (T \o es)[i] = IF i <= Len(T) THEN T[i] ELSE es[i - Len(T)]
    BY ConcatProperties
  <2>5. CASE Len(T) > 0
    <3>1. 1 \in 1 .. Len(T) /\ 1 \in 1 .. Len(T) + Len(es) /\ 1 <= Len(T)
      BY <2>3, <2>5
    <3>2. (T \o es)[1] = J[1 + 1]
      BY <3>1, <2>3, <2>4
    <3>3. 2 \in DOMAIN J /\ 1 + 1 = 2
      BY <2>3, <2>5, <1>12, LenProperties
    <3> QED BY <3>2, <3>3, <2>1, <2>2, <1>1, <1>12 DEF Queued, NothingBefore
  <2>6. CASE Len(T) = 0
    <3>1. Len(es) > 0
      <4>1. Used = 1 /\ Used' = Used + Len(es) - 1
        BY <2>3, <2>6, <1>4, <1>12
      <4> QED BY <4>1, <2>3
    <3>2. es # <<>> /\ 1 \in 1 .. Len(es)
      BY <3>1, <2>3
    <3>3. (T \o es)[1] = es[1]
      BY <3>1, <2>3, <2>4, <2>6
    <3>4. Request(es, Oldest.client, op)
      BY <3>2
    <3>5. es[1].intermediate = 0
      BY <3>2, <3>4 DEF Request
    <3>6. Oldest' = es[1]
      BY <3>3, <2>1, <2>2, Zenon
    <3> QED BY <3>5, <3>6
  <2>7. Len(T) > 0 \/ Len(T) = 0
    <3>1. Len(T) \in Nat
      BY <2>3
    <3> QED BY <3>1
  <2> QED BY <2>5, <2>6, <2>7
<1>19. MovedInv'
  <2>1. \A c \in Clients : waits[c] # "none" /\ c # Oldest.client => moved[c] = 0
    BY DEF HdInv, MovedInv
  <2>2. \A c \in Clients : waits'[c] # "none" => moved'[c] = 0
    BY <2>1, <1>7, <1>10
  <2>3. Used' > 0 => Progress' = 0
    BY <1>17 DEF Progress
  <2>4. \A c \in Clients : waits'[c] # "none" =>
          moved'[c] = IF Used' > 0 /\ c = Oldest'.client
                      THEN Oldest'.intermediate + Progress' ELSE 0
    BY <2>2, <2>3, <1>18
  <2> QED BY <2>4 DEF MovedInv
<1>20. PhaseInv'
  BY <1>1, <1>3, <1>17 DEF PhaseInv, DeviceQuiet
<1>21. phase' \in {"next", "user"}
  BY <1>17
<1> QED BY <1>3, <1>4, <1>7, <1>8, <1>10, <1>11, <1>16, <1>19, <1>20, <1>21

\* No entries.
LEMMA NoEntries ==
    ASSUME TypeOK
    PROVE  <<>> \in Seq(Operation) /\ Len(<<>>) = 0 /\ Len(<<>>) <= listAvailable
BY RingAssumption, EmptySeq DEF TypeOK

\* A thread is called back.
LEMMA SyscallDoneKeepsHdInv ==
    ASSUME HdInv, NEW t \in Threads, SyscallDone(t)
    PROVE  HdInv'
<1>1. /\ phase = "processed" /\ panic = "no" /\ Oldest.last /\ Oldest.client = t
      /\ TypeOK /\ RingInv /\ Queued(Jobs, waits) /\ Used > 0
  BY DEF SyscallDone, CallsBack, At, HdInv, PhaseInv
<1> DEFINE C == waits[t] = Oldest.op /\ hd.state = "IDLE"
<1>2. CASE C
  <2>1. /\ Finished(<<>>) /\ Answers /\ waits' = [waits EXCEPT ![t] = "none"]
        /\ hasFile' = CASE Oldest.op = "OPEN" /\ result # 0 -> hasFile \cup {t}
                        [] Oldest.op = "CLOSE" -> hasFile \ {t}
                        [] OTHER -> hasFile
        /\ loading' = loading /\ moved' = moved /\ panic' = panic
    BY <1>2 DEF SyscallDone, Asserting
  <2>2. /\ operations' \in [Slots -> Operation]
        /\ listStart' \in Slots /\ listEnd' \in Slots
        /\ listAvailable' \in 0 .. Capacity
        /\ phase' \in {"next", "user"} /\ idle' = TRUE /\ result' = result
        /\ hd' = hd /\ irq' = irq
        /\ waits' \in [Clients -> Ops \cup {"none"}]
        /\ answer' \in [Clients -> Nat] /\ moved' \in [Clients -> Nat]
        /\ waits'[t] = "none"
        /\ \A c \in Clients : c # t => waits'[c] = waits[c]
        /\ RingInv' /\ Queued(Jobs', waits') /\ MovedInv' /\ PhaseInv'
        /\ AnswerIsTotal'
    BY <1>1, <2>1, NoEntries, FinishedFacts
  <2>3. hasFile' \subseteq Threads
    BY <1>1, <2>1 DEF TypeOK
  <2>4. TypeOK'
    BY <1>1, <2>1, <2>2, <2>3 DEF TypeOK
  <2>5. /\ waits[t] = Oldest.op /\ Oldest.op \in Ops /\ t \in Clients
    BY <1>1, <1>2, OldestFacts DEF Clients
  <2>6. t \in hasFile' => t \in hd.opened
    <3>1. CASE Oldest.op = "OPEN" /\ result # 0
      BY <3>1, <1>1 DEF HdInv, FilesInv
    <3>2. CASE Oldest.op = "OPEN" /\ result = 0
      BY <3>2, <2>1, <2>5 DEF HdInv, FilesInv
    <3>3. CASE Oldest.op = "CLOSE"
      BY <3>3, <2>1
    <3>4. CASE Oldest.op \in {"READ", "WRITE"}
      BY <3>4, <2>5 DEF HdInv, FilesInv
    <3> QED BY <3>1, <3>2, <3>3, <3>4, <2>5 DEF Ops
  <2>7. \A c \in Clients : c # t => (c \in hasFile' <=> c \in hasFile)
    BY <2>1
  <2>8. FilesInv'
    <3>1. \A c \in Clients : c # t =>
            /\ waits'[c] \in {"READ", "WRITE"} => c \in hd'.opened
            /\ c \in hasFile' /\ waits'[c] = "none" => c \in hd'.opened
            /\ waits'[c] = "OPEN" => c \notin hasFile'
      BY <2>2, <2>7 DEF HdInv, FilesInv
    <3> QED BY <3>1, <2>2, <2>6 DEF FilesInv
  <2>9. LoadingInv'
    <3>1. t # Loader
      BY DEF Threads, Loader
    <3> QED BY <3>1, <2>1, <2>2 DEF HdInv, LoadingInv, Clients
  <2> QED BY <2>2, <2>4, <2>8, <2>9 DEF HdInv
<1>3. CASE ~C
  BY <1>1, <1>3, PanicKeepsHdInv DEF SyscallDone, Asserting
<1> QED BY <1>2, <1>3

\* The loader is called back and makes its next request.
LEMMA LoaderGoesOnKeepsHdInv ==
    ASSUME HdInv, CallsBack(Loader), NEW op \in {"OPEN", "READ"}, NEW len \in Nat,
           \/ op = "READ" /\ Oldest.op = "OPEN" /\ result # 0
           \/ op = "OPEN" /\ len = 0 /\ loading < Programs,
           LoaderGoesOn(op, len)
    PROVE  HdInv'
<1>1. /\ phase = "processed" /\ panic = "no" /\ Oldest.last
      /\ Oldest.client = Loader
      /\ TypeOK /\ RingInv /\ Queued(Jobs, waits) /\ Used > 0
  BY DEF CallsBack, At, HdInv, PhaseInv
<1> DEFINE es == Entries(Loader, op, len)
           C == Len(es) <= listAvailable /\ hd.state = "IDLE"
<1>2. CASE C
  <2>1. /\ Finished(es) /\ Answers /\ waits' = [waits EXCEPT ![Loader] = op]
        /\ moved' = [moved EXCEPT ![Loader] = 0]
        /\ loading' = IF op = "OPEN" THEN loading + 1 ELSE loading
        /\ hasFile' = hasFile /\ panic' = panic
    BY <1>2 DEF LoaderGoesOn, Asserting
  <2>2. op \in Ops /\ Loader \in Clients
    BY DEF Ops, Clients
  <2>3. Request(es, Loader, op) /\ es \in Seq(Operation) /\ Len(es) <= listAvailable
    BY <1>2, <2>2, EntriesAreRequest
  <2> HIDE DEF es
  <2>4. /\ operations' \in [Slots -> Operation]
        /\ listStart' \in Slots /\ listEnd' \in Slots
        /\ listAvailable' \in 0 .. Capacity
        /\ phase' \in {"next", "user"} /\ idle' = TRUE /\ result' = result
        /\ hd' = hd /\ irq' = irq
        /\ waits' \in [Clients -> Ops \cup {"none"}]
        /\ answer' \in [Clients -> Nat] /\ moved' \in [Clients -> Nat]
        /\ waits'[Loader] = op
        /\ \A c \in Clients : c # Loader => waits'[c] = waits[c]
        /\ RingInv' /\ Queued(Jobs', waits') /\ MovedInv' /\ PhaseInv'
        /\ AnswerIsTotal'
    BY <1>1, <2>1, <2>2, <2>3, FinishedFacts
  <2>5. waits[Loader] # "none" /\ Loader \notin Threads
    BY <1>1, OldestFacts DEF Ops, Threads, Loader
  <2>6. loading <= Programs /\ loading \in 1 .. Programs + 1
    BY <1>1, <2>5 DEF HdInv, LoadingInv, TypeOK
  <2>7. loading' \in 1 .. Programs /\ loading <= loading'
    BY <2>1, <2>6, ProgramsAssumption
  <2>8. TypeOK'
    BY <1>1, <2>1, <2>4, <2>7, ProgramsAssumption DEF TypeOK
  <2>9. FilesInv'
    <3>1. \A c \in Clients : c # Loader =>
            /\ waits'[c] \in {"READ", "WRITE"} => c \in hd'.opened
            /\ c \in hasFile' /\ waits'[c] = "none" => c \in hd'.opened
            /\ waits'[c] = "OPEN" => c \notin hasFile'
      BY <2>1, <2>4 DEF HdInv, FilesInv
    <3>2. Loader \notin hasFile'
      BY <2>1, <2>5, <1>1 DEF TypeOK
    <3>3. op = "READ" => Loader \in hd.opened
      BY <1>1 DEF HdInv, FilesInv
    <3> QED BY <3>1, <3>2, <3>3, <2>4 DEF FilesInv
  <2>10. LoadingInv'
    <3>1. loading' <= Programs
      BY <2>7, ProgramsAssumption
    <3>2. ASSUME NEW t \in Threads, waits'[t] # "none"
          PROVE  t < loading'
      <4>1. waits[t] # "none" /\ t \in Nat
        BY <3>2, <2>4, <2>5 DEF Clients, Threads
      <4>2. t < loading
        BY <4>1 DEF HdInv, LoadingInv
      <4> QED BY <4>1, <4>2, <2>6, <2>7
    <3> QED BY <3>1, <3>2 DEF LoadingInv
  <2> QED BY <2>4, <2>8, <2>9, <2>10 DEF HdInv
<1>3. CASE ~C
  BY <1>1, <1>3, PanicKeepsHdInv DEF LoaderGoesOn, Asserting
<1> QED BY <1>2, <1>3

\* The loader is called back after its last read.
LEMMA LastProgramLoadedKeepsHdInv ==
    ASSUME HdInv, LastProgramLoaded
    PROVE  HdInv'
<1>1. /\ phase = "processed" /\ panic = "no" /\ Oldest.last
      /\ Oldest.client = Loader /\ loading = Programs
      /\ TypeOK /\ RingInv /\ Queued(Jobs, waits) /\ Used > 0
  BY DEF LastProgramLoaded, CallsBack, At, HdInv, PhaseInv
<1>2. CASE hd.state = "IDLE"
  <2>1. /\ Finished(<<>>) /\ Answers /\ waits' = [waits EXCEPT ![Loader] = "none"]
        /\ loading' = loading + 1
        /\ hasFile' = hasFile /\ moved' = moved /\ panic' = panic
    BY <1>2 DEF LastProgramLoaded, Asserting
  <2>2. /\ operations' \in [Slots -> Operation]
        /\ listStart' \in Slots /\ listEnd' \in Slots
        /\ listAvailable' \in 0 .. Capacity
        /\ phase' \in {"next", "user"} /\ idle' = TRUE /\ result' = result
        /\ hd' = hd /\ irq' = irq
        /\ waits' \in [Clients -> Ops \cup {"none"}]
        /\ answer' \in [Clients -> Nat] /\ moved' \in [Clients -> Nat]
        /\ waits'[Loader] = "none"
        /\ \A c \in Clients : c # Loader => waits'[c] = waits[c]
        /\ RingInv' /\ Queued(Jobs', waits') /\ MovedInv' /\ PhaseInv'
        /\ AnswerIsTotal'
    BY <1>1, <2>1, NoEntries, FinishedFacts
  <2>3. loading' \in 1 .. Programs + 1
    BY <1>1, <2>1, ProgramsAssumption
  <2>4. TypeOK'
    BY <1>1, <2>1, <2>2, <2>3 DEF TypeOK
  <2>5. Loader \notin hasFile
    BY <1>1 DEF TypeOK, Threads, Loader
  <2>6. FilesInv'
    <3>1. \A c \in Clients : c # Loader =>
            /\ waits'[c] \in {"READ", "WRITE"} => c \in hd'.opened
            /\ c \in hasFile' /\ waits'[c] = "none" => c \in hd'.opened
            /\ waits'[c] = "OPEN" => c \notin hasFile'
      BY <2>1, <2>2 DEF HdInv, FilesInv
    <3> QED BY <3>1, <2>1, <2>2, <2>5 DEF FilesInv
  <2>7. LoadingInv'
    <3>1. ASSUME NEW t \in Threads
          PROVE  t < loading'
      BY <1>1, <2>1, ProgramsAssumption DEF Threads
    <3> QED BY <3>1, <2>2 DEF LoadingInv
  <2> QED BY <2>2, <2>4, <2>6, <2>7 DEF HdInv
<1>3. CASE hd.state # "IDLE"
  BY <1>1, <1>3, PanicKeepsHdInv DEF LastProgramLoaded, Asserting
<1> QED BY <1>2, <1>3

\* A system call of a thread that is not blocked.
LEMMA SyscallKeepsHdInv ==
    ASSUME HdInv, NEW t \in Threads, Syscall(t)
    PROVE  HdInv'
<1>1. phase = "user" /\ panic = "no" /\ t < loading /\ waits[t] = "none"
  BY DEF Syscall, SyscallOpen, SyscallRead, SyscallWrite, SyscallClose, Calls, At
<1>2. PICK op \in Ops, len \in Nat :
        /\ op \notin {"READ", "WRITE"} => len = 0
        /\ op = "OPEN" <=> t \notin hasFile
        /\ Submit(t, op, len)
  <2>1. CASE SyscallOpen(t)
    BY <2>1 DEF SyscallOpen, Ops
  <2>2. CASE SyscallRead(t)
    BY <2>2, LengthAssumption DEF SyscallRead, Ops
  <2>3. CASE SyscallWrite(t)
    BY <2>3, LengthAssumption DEF SyscallWrite, Ops
  <2>4. CASE SyscallClose(t)
    BY <2>4 DEF SyscallClose, Ops
  <2> QED BY <2>1, <2>2, <2>3, <2>4 DEF Syscall
<1>3. t \in Clients
  BY DEF Clients
<1> QED BY <1>1, <1>2, <1>3, SubmitKeepsHdInv

\* The initial states satisfy the invariant.
LEMMA InitHdInv == Init => HdInv
<1> SUFFICES ASSUME Init PROVE HdInv
  OBVIOUS
<1>1. Unused \in Operation
  BY DEF Unused, Operation, Clients, Ops
<1>2. DeviceAtStart \in Device
  BY DEF DeviceAtStart, Device, DeviceStates
<1>3. TypeOK
  <2>1. /\ operations \in [Slots -> Operation] /\ hd \in Device
        /\ phase = "boot" /\ result = 0 /\ hasFile = {}
        /\ idle = TRUE /\ irq = FALSE /\ panic = "no"
    BY <1>1, <1>2 DEF Init
  <2>2. /\ listStart \in Slots /\ listEnd \in Slots
        /\ listAvailable \in 0 .. Capacity
    BY RingAssumption DEF Init, Slots
  <2>3. loading \in 1 .. Programs + 1
    BY ProgramsAssumption DEF Init
  <2>4. /\ waits \in [Clients -> Ops \cup {"none"}]
        /\ answer \in [Clients -> Nat] /\ moved \in [Clients -> Nat]
    BY DEF Init
  <2> QED BY <2>1, <2>2, <2>3, <2>4 DEF TypeOK
<1>4. Used = 0
  BY RingAssumption DEF Init, Used
<1>5. RingInv
  BY <1>4, RingAssumption DEF Init, RingInv, Wrap
<1>6. Queued(Jobs, waits)
  <2>1. DOMAIN Jobs = {}
    BY <1>3, <1>4, JobsFacts
  <2> QED BY <2>1 DEF Queued, AllAwaited, Grouped, NothingBefore, OthersWhole
<1>7. \A c \in Clients : waits[c] = "none" /\ answer[c] = 0 /\ moved[c] = 0
  BY DEF Init
<1>8. phase = "boot" /\ hasFile = {} /\ loading = 1
  BY DEF Init
<1>9. MovedInv /\ FilesInv /\ LoadingInv /\ AnswerIsTotal
  BY <1>7, <1>8, ProgramsAssumption
     DEF MovedInv, FilesInv, LoadingInv, AnswerIsTotal, Clients
<1>10. PhaseInv
  BY <1>4, <1>7, <1>8 DEF Init, PhaseInv, DeviceQuiet, DeviceAtStart
<1> QED BY <1>3, <1>5, <1>6, <1>9, <1>10 DEF HdInv

\* Every step keeps the invariant.
LEMMA NextKeepsHdInv == HdInv /\ [Next]_vars => HdInv'
<1> SUFFICES ASSUME HdInv, [Next]_vars PROVE HdInv'
  OBVIOUS
<1>1. CASE Boot
  <2>1. /\ phase = "boot" /\ panic = "no" /\ waits[Loader] = "none"
        /\ Loader \in Clients /\ "OPEN" \in Ops
        /\ Submit(Loader, "OPEN", 0)
    BY <1>1 DEF Boot, At, HdInv, PhaseInv, Clients, Ops
  <2> QED BY <2>1, SubmitKeepsHdInv
<1>2. ASSUME NEW t \in Threads, Syscall(t)
      PROVE  HdInv'
  BY <1>2, SyscallKeepsHdInv
<1>3. CASE NextRequest
  BY <1>3, StartReadKeepsHdInv, StartWriteKeepsHdInv, StartOpenKeepsHdInv,
     StartCloseKeepsHdInv DEF NextRequest
<1>4. CASE PartProcessed
  BY <1>4, PartProcessedKeepsHdInv
<1>5. CASE ProgramOpened
  <2>1. PICK len \in LoadLens : LoaderGoesOn("READ", len)
    BY <1>5 DEF ProgramOpened
  <2>2. len \in Nat /\ CallsBack(Loader) /\ Oldest.op = "OPEN" /\ result # 0
    BY <1>5, LengthAssumption DEF ProgramOpened
  <2> QED BY <2>1, <2>2, LoaderGoesOnKeepsHdInv
<1>6. CASE ProgramMissing
  <2>1. panic' \in {"no", "assert", "load"}
    BY <1>6 DEF ProgramMissing
  <2> QED BY <2>1, <1>6, PanicKeepsHdInv DEF ProgramMissing
<1>7. CASE ProgramLoaded
  BY <1>7, LoaderGoesOnKeepsHdInv DEF ProgramLoaded
<1>8. CASE LastProgramLoaded
  BY <1>8, LastProgramLoadedKeepsHdInv
<1>9. ASSUME NEW t \in Threads, SyscallDone(t)
      PROVE  HdInv'
  BY <1>9, SyscallDoneKeepsHdInv
<1>10. CASE HdInterrupt
  BY <1>10, HdInterruptKeepsHdInv
<1>11. CASE DeviceTransfers
  BY <1>11, DeviceTransfersKeepsHdInv
<1>12. CASE InterruptAccepted
  BY <1>12, InterruptAcceptedKeepsHdInv
<1>13. CASE UNCHANGED vars
  <2>1. UNCHANGED <<ring, kernel, device, clients, moved>> /\ panic' = panic
    BY <1>13 DEF vars
  <2>2. panic \in {"no", "assert", "load"}
    BY DEF HdInv, TypeOK
  <2> QED BY <2>1, <2>2, PanicKeepsHdInv
<1> QED BY <1>1, <1>2, <1>3, <1>4, <1>5, <1>6, <1>7, <1>8, <1>9, <1>10, <1>11,
           <1>12, <1>13
        DEF Next, KernelStep, RequestProcessed, LoaderDone, Halted

\* The invariant holds in every reachable state.
LEMMA HdInvHolds == Spec => []HdInv
BY InitHdInv, NextKeepsHdInv, PTL DEF Spec

-----------------------------------------------------------------------------
\* Every variable keeps its type: in particular the two ends of the ring and
\* the number of its free entries stay inside it, whatever lengths are
\* requested and however many requests are made.
THEOREM TypeCorrect == Spec => []TypeOK
<1>1. HdInv => TypeOK
  BY DEF HdInv
<1> QED BY <1>1, HdInvHolds, PTL

\* No wake-up is lost and no interrupt comes for a job that is gone:
\* whenever the kernel is left with jobs in the ring, the device works for the
\* oldest one, on its file, and will interrupt.
THEOREM DriverAndDeviceAgreeHolds == Spec => []DriverAndDeviceAgree
<1>1. HdInv => DriverAndDeviceAgree
  BY DEF HdInv, PhaseInv, DriverAndDeviceAgree
<1> QED BY <1>1, HdInvHolds, PTL

\* A callback receives the sum of what the device did for all parts of its
\* client's request.
THEOREM AnswerIsTotalHolds == Spec => []AnswerIsTotal
<1>1. HdInv => AnswerIsTotal
  BY DEF HdInv
<1> QED BY <1>1, HdInvHolds, PTL

-----------------------------------------------------------------------------
\* The ring has room.

\* Two positions of the same remainder are a multiple apart.
LEMMA ModFacts ==
    ASSUME NEW i \in Nat, NEW j \in Nat, NEW k \in Nat \ {0},
           i % k = j % k, j - i < k, i - j < k
    PROVE  i = j
<1>1. /\ i \div k \in Int /\ j \div k \in Int /\ i % k \in Int
      /\ i = (k * (i \div k)) + (i % k) /\ j = (k * (j \div k)) + (j % k)
  BY SMTT(20)
<1>2. PICK a \in Int, b \in Int, r \in Int :
         i = (k * a) + r /\ j = (k * b) + r
  BY <1>1
<1>3. k * b - k * a < k /\ k * a - k * b < k
  BY <1>2, SMTT(20)
<1>4. k * (b - a) < k /\ k * (a - b) < k
  BY <1>3, SMTT(20)
<1>5. ~(b - a >= 1) /\ ~(a - b >= 1)
  BY <1>4, SMTT(20)
<1>6. a = b
  BY <1>5
<1> QED BY <1>2, <1>6

\* Positions of few clients, those of each one near to each other, are few.
LEMMA CountByClient ==
    ASSUME NEW J, NEW I \in SUBSET Nat, NEW k \in Nat \ {0},
           NEW T, IsFiniteSet(T),
           \A i \in I : J[i].client \in T,
           \A i, j \in I : J[i].client = J[j].client => j - i < k
    PROVE  IsFiniteSet(I) /\ Cardinality(I) <= Cardinality(T) * k
<1> DEFINE S == T \X (0 .. k - 1)
           f == [i \in I |-> <<J[i].client, i % k>>]
<1>1. IsFiniteSet(0 .. k - 1) /\ Cardinality(0 .. k - 1) = k
  <2>1. 0 \in Int /\ k - 1 \in Int /\ ~(0 > k - 1) /\ k - 1 - 0 + 1 = k
    OBVIOUS
  <2> QED BY <2>1, FS_Interval
<1>2. IsFiniteSet(S) /\ Cardinality(S) = Cardinality(T) * k
  BY <1>1, FS_Product
<1>3. \A i \in I : i % k \in 0 .. k - 1
  BY SMTT(20)
<1>4. f \in [I -> S]
  BY <1>3
<1>5. ASSUME NEW i \in I, NEW j \in I, f[i] = f[j]
      PROVE  i = j
  <2>1. J[i].client = J[j].client /\ i % k = j % k
    BY <1>5
  <2>2. j - i < k /\ i - j < k
    BY <2>1
  <2> QED BY <2>1, <2>2, ModFacts
<1>6. f \in Injection(I, S)
  BY <1>4, <1>5 DEF Injection, IsInjective
<1> QED BY <1>2, <1>6, FS_Injection

\* A request keeps the jobs of each client near to each other.
LEMMA AppendRoom ==
    ASSUME NEW m \in Nat, NEW l \in Nat, NEW J \in Seq(Operation),
           RoomInv(J, m, l), NEW c, NEW op, NEW es, Request(es, c, op),
           Len(es) <= MostOf(c, m, l),
           \A i \in 1 .. Len(es) : op = "WRITE" => es[i].len > 0,
           \A i \in DOMAIN J : J[i].client # c
    PROVE  RoomInv(J \o es, m, l)
<1> DEFINE Q == J \o es
<1>1. PICK n \in Nat, k \in Nat : n = Len(J) /\ k = Len(es)
  BY LenProperties DEF Request
<1>2. DOMAIN J = 1 .. n
  BY <1>1, LenProperties
<1>3. /\ DOMAIN Q = 1 .. n + k
      /\ \A i \in 1 .. n + k : Q[i] = IF i <= n THEN J[i] ELSE es[i - n]
  BY <1>1, ConcatProperties, LenProperties DEF Request
<1> HIDE DEF Q
<1>4. \A i \in 1 .. n : Q[i] = J[i] /\ i \in DOMAIN J
  BY <1>2, <1>3
<1>5. ASSUME NEW i \in n + 1 .. n + k
      PROVE  /\ Q[i].client = c
             /\ Q[i].op = "WRITE" => Q[i].len > 0
  <2>1. Q[i] = es[i - n] /\ i - n \in 1 .. Len(es)
    BY <1>1, <1>3
  <2>2. es[i - n].client = c /\ es[i - n].op = op
    BY <2>1 DEF Request
  <2> QED BY <2>1, <2>2
<1>6. Near(Q, m, l)
  <2>1. ASSUME NEW i \in 1 .. n + k, NEW j \in 1 .. n + k,
               Q[i].client = Q[j].client
        PROVE  j - i < MostOf(Q[i].client, m, l)
    <3>1. CASE i \in 1 .. n /\ j \in 1 .. n
      BY <3>1, <2>1, <1>4 DEF RoomInv, Near
    <3>2. CASE i \in n + 1 .. n + k /\ j \in n + 1 .. n + k
      <4>1. j - i < k
        BY <3>2
      <4>2. Q[i].client = c /\ MostOf(c, m, l) \in Nat
        BY <3>2, <1>5 DEF MostOf
      <4> QED BY <4>1, <4>2, <1>1
    <3>3. CASE i \in 1 .. n /\ j \in n + 1 .. n + k
      BY <3>3, <2>1, <1>4, <1>5
    <3>4. CASE i \in n + 1 .. n + k /\ j \in 1 .. n
      BY <3>4, <2>1, <1>4, <1>5
    <3> QED BY <3>1, <3>2, <3>3, <3>4
  <2> QED BY <2>1, <1>3 DEF Near
<1>7. WritesMove(Q)
  <2>1. ASSUME NEW i \in 1 .. n + k, Q[i].op = "WRITE"
        PROVE  Q[i].len > 0
    <3>1. CASE i \in 1 .. n
      BY <3>1, <2>1, <1>4 DEF RoomInv, WritesMove
    <3>2. CASE i \in n + 1 .. n + k
      BY <3>2, <2>1, <1>5
    <3> QED BY <3>1, <3>2
  <2> QED BY <2>1, <1>3 DEF WritesMove
<1> QED BY <1>6, <1>7 DEF RoomInv, Q

\* So does the end of a job.
LEMMA TailRoom ==
    ASSUME NEW m \in Nat, NEW l \in Nat, NEW J \in Seq(Operation), J # <<>>,
           RoomInv(J, m, l), NEW K, DOMAIN K = 1 .. Len(J) - 1,
           \A i \in 1 .. Len(J) - 1 :
              /\ K[i].client = J[i + 1].client /\ K[i].op = J[i + 1].op
              /\ K[i].len = J[i + 1].len
    PROVE  RoomInv(K, m, l)
<1>1. PICK n \in Nat : n = Len(J)
  BY LenProperties
<1>2. DOMAIN J = 1 .. n /\ \A i \in 1 .. n - 1 : i + 1 \in 1 .. n
  BY <1>1, LenProperties
<1>3. Near(K, m, l)
  <2>1. ASSUME NEW i \in 1 .. n - 1, NEW j \in 1 .. n - 1,
               K[i].client = K[j].client
        PROVE  j - i < MostOf(K[i].client, m, l)
    <3>1. K[i].client = J[i + 1].client /\ K[j].client = J[j + 1].client
      BY <1>1
    <3>2. (j + 1) - (i + 1) < MostOf(J[i + 1].client, m, l)
      BY <3>1, <2>1, <1>2 DEF RoomInv, Near
    <3>3. (j + 1) - (i + 1) = j - i
      OBVIOUS
    <3> QED BY <3>1, <3>2, <3>3
  <2> QED BY <2>1, <1>1 DEF Near
<1>4. WritesMove(K)
  BY <1>1, <1>2 DEF RoomInv, WritesMove
<1> QED BY <1>3, <1>4 DEF RoomInv

\* The jobs after a request, unless it has no room.
LEMMA SubmitJobs ==
    ASSUME HdInv, NEW c \in Clients, NEW op \in Ops, NEW len \in Nat,
           op \notin {"READ", "WRITE"} => len = 0,
           waits[c] = "none", Submit(c, op, len)
    PROVE  /\ \A i \in DOMAIN Jobs : Jobs[i].client # c
           /\ Jobs' \in {Jobs, Jobs \o Entries(c, op, len)}
<1> DEFINE es == Entries(c, op, len)
<1>1. TypeOK /\ RingInv /\ Queued(Jobs, waits)
  BY DEF HdInv
<1>2. \A i \in DOMAIN Jobs : Jobs[i].client # c
  <2>1. CASE Used > 0
    BY <2>1, <1>1, OldestFacts, JobsFacts
  <2>2. CASE ~(Used > 0)
    BY <2>2, <1>1, JobsFacts
  <2> QED BY <2>1, <2>2
<1>3. CASE ~(Len(es) <= listAvailable)
  <2>1. UNCHANGED ring
    BY <1>3 DEF Submit, Asserting
  <2> QED BY <2>1, <1>2, RingUnchanged
<1>4. CASE Len(es) <= listAvailable
  <2>1. /\ operations' = Enqueued(es) /\ listEnd' = Wrap(listEnd + Len(es))
        /\ listAvailable' = listAvailable - Len(es) /\ listStart' = listStart
    BY <1>4 DEF Submit, Asserting
  <2>2. es \in Seq(Operation)
    BY EntriesAreRequest
  <2> HIDE DEF es
  <2>3. Jobs' = Jobs \o es
    BY <1>1, <1>4, <2>1, <2>2, RequestedJobs
  <2> QED BY <2>3, <1>2 DEF es
<1> QED BY <1>3, <1>4

\* The jobs after the oldest one is finished and es requested.
LEMMA FinishJobs ==
    ASSUME HdInv, phase = "processed", NEW es \in Seq(Operation),
           Len(es) <= listAvailable, Finished(es)
    PROVE  Jobs' = Tail(Jobs) \o es
<1>1. TypeOK /\ RingInv /\ Used > 0
  BY DEF HdInv, PhaseInv
<1>2. /\ operations' = Enqueued(es) /\ listEnd' = Wrap(listEnd + Len(es))
      /\ listAvailable' = listAvailable - Len(es) + 1
      /\ listStart' = Wrap(listStart + 1)
  BY DEF Finished
<1> QED BY <1>1, <1>2, FinishedJobs

\* The jobs after a part is done.
LEMMA PartProcessedJobs ==
    ASSUME HdInv, PartProcessed
    PROVE  \/ Jobs' = Jobs
           \/ /\ ~Oldest.last /\ Used > 1 /\ Used' = Used - 1
              /\ Total \in Nat /\ DOMAIN Jobs' = 1 .. Used - 1
              /\ \A i \in 1 .. Used - 1 : Jobs'[i] =
                   IF i = 1 THEN [Jobs[2] EXCEPT !.intermediate = Total]
                   ELSE Jobs[i + 1]
<1>1. /\ TypeOK /\ RingInv /\ Queued(Jobs, waits) /\ Used > 0 /\ ~Oldest.last
  BY DEF HdInv, PhaseInv, PartProcessed, At
<1>2. CASE hd.state = "IDLE"
  <2>1. /\ operations' =
             [operations EXCEPT ![Wrap(listStart + 1)].intermediate = Total]
        /\ listAvailable' = listAvailable + 1 /\ listEnd' = listEnd
        /\ listStart' = Wrap(listStart + 1)
    BY <1>2 DEF PartProcessed, Asserting
  <2>2. Used > 1 /\ Total \in Nat
    BY <1>1, OldestFacts DEF TypeOK, Total
  <2>3. /\ Used' = Used - 1
        /\ \A i \in 1 .. Used - 1 : Jobs'[i] =
             IF i = 1 THEN [Jobs[2] EXCEPT !.intermediate = Total] ELSE Jobs[i + 1]
    BY <1>1, <2>1, <2>2, PartJobs
  <2>4. DOMAIN Jobs' = 1 .. Used - 1
    <3>1. Jobs' = [i \in 1 .. Used' |-> operations'[Wrap(listStart' + i - 1)]]
      BY DEF Jobs, Wrap
    <3> QED BY <3>1, <2>3
  <2> QED BY <1>1, <2>2, <2>3, <2>4
<1>3. CASE hd.state # "IDLE"
  <2>1. UNCHANGED ring
    BY <1>3 DEF PartProcessed, Asserting
  <2> QED BY <2>1, RingUnchanged
<1> QED BY <1>2, <1>3

\* The tail of the jobs.
LEMMA TailJobs ==
    ASSUME TypeOK, Used > 0
    PROVE  /\ Jobs \in Seq(Operation) /\ Jobs # <<>> /\ Tail(Jobs) \in Seq(Operation)
           /\ Len(Jobs) = Used /\ Used \in Nat
           /\ DOMAIN Jobs = 1 .. Used /\ DOMAIN Tail(Jobs) = 1 .. Used - 1
           /\ \A i \in 1 .. Used - 1 : Tail(Jobs)[i] = Jobs[i + 1]
<1>1. /\ Jobs \in Seq(Operation) /\ Jobs # <<>> /\ Len(Jobs) = Used
      /\ Used \in Nat /\ DOMAIN Jobs = 1 .. Used
  BY JobsFacts
<1>2. PICK J \in Seq(Operation) : J = Jobs /\ J # <<>>
  BY <1>1
<1>3. PICK T \in Seq(Operation) : /\ T = Tail(J) /\ Len(T) = Len(J) - 1
                                  /\ \A i \in 1 .. Len(T) : T[i] = J[i + 1]
  BY <1>2, HeadTailProperties
<1>4. DOMAIN T = 1 .. Used - 1
  BY <1>1, <1>2, <1>3, LenProperties
<1> QED BY <1>1, <1>2, <1>3, <1>4

\* A request has at most as many jobs as its client may have.
LEMMA RequestRoom ==
    ASSUME NEW m, NEW l, RingHasRoom(m, l), 0 \notin WriteLens,
           NEW c \in Clients, NEW op \in Ops, NEW len \in Nat,
           \/ op \in {"OPEN", "CLOSE"} /\ len = 0
           \/ c \in Threads /\ op = "READ" /\ len \in ReadLens
           \/ c \in Threads /\ op = "WRITE" /\ len \in WriteLens
           \/ c = Loader /\ op = "READ" /\ len \in LoadLens
    PROVE  /\ Request(Entries(c, op, len), c, op)
           /\ Entries(c, op, len) \in Seq(Operation)
           /\ Len(Entries(c, op, len)) \in Nat
           /\ Len(Entries(c, op, len)) <= MostOf(c, m, l)
           /\ \A i \in 1 .. Len(Entries(c, op, len)) :
                op = "WRITE" => Entries(c, op, len)[i].len > 0
<1>1. op \notin {"READ", "WRITE"} => len = 0
  OBVIOUS
<1>2. /\ Request(Entries(c, op, len), c, op)
      /\ Entries(c, op, len) \in Seq(Operation)
      /\ Len(Entries(c, op, len)) = Parts(len)
      /\ Len(Entries(c, op, len)) \in Nat
  BY <1>1, EntriesAreRequest
<1>3. Parts(0) = 1
  BY DEF Parts, FullSectors
<1>4. Parts(len) <= MostOf(c, m, l)
  <2>1. MostOf(c, m, l) \in Nat \ {0}
    BY DEF MostOf, RingHasRoom
  <2>2. c \in Threads => MostOf(c, m, l) = m
    BY DEF MostOf, Threads, Loader
  <2>3. CASE op \in {"OPEN", "CLOSE"} /\ len = 0
    BY <2>1, <2>3, <1>3
  <2>4. CASE c \in Threads /\ len \in ReadLens \cup WriteLens
    BY <2>2, <2>4 DEF RingHasRoom
  <2>5. CASE c = Loader /\ len \in LoadLens
    BY <2>5 DEF RingHasRoom, MostOf
  <2> QED BY <2>3, <2>4, <2>5
<1>5. ASSUME NEW i \in 1 .. Parts(len), op = "WRITE"
      PROVE  Entries(c, op, len)[i].len > 0
  <2>1. len > 0
    BY <1>5
  <2> QED BY <2>1, EntriesFacts
<1> QED BY <1>2, <1>4, <1>5

\* What a thread may request.
LEMMA SyscallIsRequest ==
    ASSUME NEW t \in Threads, Syscall(t)
    PROVE  /\ phase = "user" /\ panic = "no" /\ t < loading /\ waits[t] = "none"
           /\ t \in Clients
           /\ \E op \in Ops, len \in Nat :
                /\ \/ op \in {"OPEN", "CLOSE"} /\ len = 0
                   \/ op = "READ" /\ len \in ReadLens
                   \/ op = "WRITE" /\ len \in WriteLens
                /\ Submit(t, op, len)
<1>1. phase = "user" /\ panic = "no" /\ t < loading /\ waits[t] = "none"
  BY DEF Syscall, SyscallOpen, SyscallRead, SyscallWrite, SyscallClose, Calls, At
<1>2. \E op \in Ops, len \in Nat :
         /\ \/ op \in {"OPEN", "CLOSE"} /\ len = 0
            \/ op = "READ" /\ len \in ReadLens
            \/ op = "WRITE" /\ len \in WriteLens
         /\ Submit(t, op, len)
  <2>1. CASE SyscallOpen(t)
    BY <2>1 DEF SyscallOpen, Ops
  <2>2. CASE SyscallRead(t)
    BY <2>2, LengthAssumption DEF SyscallRead, Ops
  <2>3. CASE SyscallWrite(t)
    BY <2>3, LengthAssumption DEF SyscallWrite, Ops
  <2>4. CASE SyscallClose(t)
    BY <2>4 DEF SyscallClose, Ops
  <2> QED BY <2>1, <2>2, <2>3, <2>4 DEF Syscall
<1> QED BY <1>1, <1>2 DEF Clients

\* The steps that start a job and those of the device leave the ring alone.
LEMMA RingStays ==
    ASSUME NextRequest \/ HdInterrupt \/ DeviceTransfers \/ InterruptAccepted
             \/ ProgramMissing \/ UNCHANGED vars
    PROVE  UNCHANGED ring
BY DEF NextRequest, StartRead, StartWrite, StartOpen, StartClose, HdInterrupt,
       DeviceTransfers, InterruptAccepted, ProgramMissing, Asserting, LeftTo,
       DoneBy, vars

\* The jobs after the loader has made a request from its callback.
LEMMA LoaderJobs ==
    ASSUME HdInv, CallsBack(Loader), NEW op \in {"OPEN", "READ"}, NEW len \in Nat,
           op = "OPEN" => len = 0, LoaderGoesOn(op, len)
    PROVE  /\ Used > 0
           /\ Jobs' \in {Jobs, Tail(Jobs) \o Entries(Loader, op, len)}
           /\ \A i \in DOMAIN Tail(Jobs) : Tail(Jobs)[i].client # Loader
<1> DEFINE es == Entries(Loader, op, len)
           C == Len(es) <= listAvailable /\ hd.state = "IDLE"
<1>1. /\ phase = "processed" /\ Oldest.last /\ Oldest.client = Loader
      /\ TypeOK /\ Queued(Jobs, waits) /\ Used > 0
  BY DEF CallsBack, At, HdInv, PhaseInv
<1>2. /\ Jobs \in Seq(Operation) /\ Jobs # <<>>
      /\ Jobs[1] = Oldest /\ waits \in [Clients -> Ops \cup {"none"}]
  BY <1>1, JobsFacts DEF TypeOK
<1>3. \A i \in DOMAIN Tail(Jobs) : Tail(Jobs)[i].client # Loader
  <2>1. PICK J \in Seq(Operation), w \in [Clients -> Ops \cup {"none"}] :
          J = Jobs /\ w = waits
    BY <1>2
  <2>2. Queued(J, w) /\ J # <<>> /\ J[1].last /\ J[1].client = Loader
    BY <1>1, <1>2, <2>1
  <2>3. \A i \in DOMAIN Tail(J) : Tail(J)[i].client # Loader
    BY <2>2, TailQueued
  <2> QED BY <2>1, <2>3
<1>4. CASE C
  <2>1. Finished(es)
    BY <1>4 DEF LoaderGoesOn, Asserting
  <2>2. es \in Seq(Operation)
    BY EntriesAreRequest DEF Clients, Ops
  <2> HIDE DEF es
  <2>3. Jobs' = Tail(Jobs) \o es
    BY <1>1, <1>4, <2>1, <2>2, FinishJobs
  <2> QED BY <1>1, <1>3, <2>3 DEF es
<1>5. CASE ~C
  <2>1. UNCHANGED ring
    BY <1>5 DEF LoaderGoesOn, Asserting
  <2> QED BY <2>1, <1>1, <1>3, RingUnchanged
<1> QED BY <1>4, <1>5

\* The jobs after a callback that makes no request.
LEMMA CalledBackJobs ==
    ASSUME HdInv, LastProgramLoaded \/ \E t \in Threads : SyscallDone(t)
    PROVE  Used > 0 /\ Jobs' \in {Jobs, Tail(Jobs)}
<1>1. phase = "processed" /\ TypeOK /\ Used > 0
  BY DEF LastProgramLoaded, SyscallDone, CallsBack, At, HdInv, PhaseInv
<1>2. CASE Finished(<<>>)
  <2>1. Jobs' = Tail(Jobs) \o <<>>
    BY <1>1, <1>2, NoEntries, FinishJobs
  <2>2. Tail(Jobs) \in Seq(Operation)
    BY <1>1, TailJobs
  <2>3. Jobs' = Tail(Jobs)
    BY <2>1, <2>2, ConcatEmptySeq
  <2> QED BY <1>1, <2>3
<1>3. CASE UNCHANGED ring
  BY <1>1, <1>3, RingUnchanged
<1>4. Finished(<<>>) \/ UNCHANGED ring
  BY DEF LastProgramLoaded, SyscallDone, Asserting
<1> QED BY <1>2, <1>3, <1>4

\* Every step keeps the jobs of each client near to each other.
LEMMA NextKeepsRoomInv ==
    ASSUME NEW m, NEW l, RingHasRoom(m, l), 0 \notin WriteLens,
           HdInv, RoomInv(Jobs, m, l), [Next]_vars
    PROVE  RoomInv(Jobs', m, l)
<1>1. m \in Nat /\ l \in Nat /\ TypeOK
  BY DEF RingHasRoom, HdInv
<1>2. Jobs \in Seq(Operation)
  BY <1>1, JobsFacts
<1>3. ASSUME NEW c \in Clients, NEW op \in Ops, NEW len \in Nat,
             \/ op \in {"OPEN", "CLOSE"} /\ len = 0
             \/ c \in Threads /\ op = "READ" /\ len \in ReadLens
             \/ c \in Threads /\ op = "WRITE" /\ len \in WriteLens,
             waits[c] = "none", Submit(c, op, len)
      PROVE  RoomInv(Jobs', m, l)
  <2> DEFINE es == Entries(c, op, len)
  <2>1. /\ \A i \in DOMAIN Jobs : Jobs[i].client # c
        /\ Jobs' \in {Jobs, Jobs \o es}
    BY <1>3, SubmitJobs
  <2>2. /\ Request(es, c, op) /\ Len(es) <= MostOf(c, m, l)
        /\ \A i \in 1 .. Len(es) : op = "WRITE" => es[i].len > 0
    BY <1>3, RequestRoom
  <2> HIDE DEF es
  <2>3. RoomInv(Jobs \o es, m, l)
    BY <1>1, <1>2, <2>1, <2>2, AppendRoom
  <2> QED BY <2>1, <2>3
<1>4. Used > 0 => /\ Tail(Jobs) \in Seq(Operation)
                 /\ RoomInv(Tail(Jobs), m, l)
  <2> SUFFICES ASSUME Used > 0
               PROVE  Tail(Jobs) \in Seq(Operation) /\ RoomInv(Tail(Jobs), m, l)
    OBVIOUS
  <2>1. /\ Jobs \in Seq(Operation) /\ Jobs # <<>> /\ Tail(Jobs) \in Seq(Operation)
        /\ DOMAIN Tail(Jobs) = 1 .. Len(Jobs) - 1
        /\ \A i \in 1 .. Len(Jobs) - 1 : Tail(Jobs)[i] = Jobs[i + 1]
    BY <1>1, TailJobs
  <2> QED BY <2>1, <1>1, TailRoom
<1>5. ASSUME NEW op \in {"OPEN", "READ"}, NEW len \in Nat,
             op = "OPEN" => len = 0, op = "READ" => len \in LoadLens,
             CallsBack(Loader), LoaderGoesOn(op, len)
      PROVE  RoomInv(Jobs', m, l)
  <2> DEFINE es == Entries(Loader, op, len)
  <2>1. /\ Used > 0 /\ Jobs' \in {Jobs, Tail(Jobs) \o es}
        /\ \A i \in DOMAIN Tail(Jobs) : Tail(Jobs)[i].client # Loader
    BY <1>5, LoaderJobs
  <2>2. /\ Request(es, Loader, op) /\ Len(es) <= MostOf(Loader, m, l)
        /\ \A i \in 1 .. Len(es) : op = "WRITE" => es[i].len > 0
    BY <1>5, RequestRoom DEF Clients, Ops
  <2> HIDE DEF es
  <2>3. RoomInv(Tail(Jobs) \o es, m, l)
    BY <1>1, <1>4, <2>1, <2>2, AppendRoom
  <2> QED BY <2>1, <2>3
<1>6. CASE Boot
  <2>1. waits[Loader] = "none" /\ Submit(Loader, "OPEN", 0)
    BY <1>6 DEF Boot, At, HdInv, PhaseInv, Clients
  <2> QED BY <2>1, <1>3 DEF Clients, Ops
<1>7. ASSUME NEW t \in Threads, Syscall(t)
      PROVE  RoomInv(Jobs', m, l)
  BY <1>3, <1>7, SyscallIsRequest
<1>8. CASE PartProcessed
  <2>1. CASE Jobs' = Jobs
    BY <2>1
  <2>2. CASE Jobs' # Jobs
    <3>1. /\ Used > 1 /\ DOMAIN Jobs' = 1 .. Used - 1
          /\ \A i \in 1 .. Used - 1 : Jobs'[i] =
               IF i = 1 THEN [Jobs[2] EXCEPT !.intermediate = Total]
               ELSE Jobs[i + 1]
      BY <1>8, <2>2, PartProcessedJobs
    <3>2. Used \in Nat /\ Len(Jobs) = Used /\ Jobs # <<>> /\ Jobs[2] \in Operation
      BY <1>1, <3>1, JobsFacts, ElementOfSeq
    <3>3. \A i \in 1 .. Used - 1 :
             /\ Jobs'[i].client = Jobs[i + 1].client
             /\ Jobs'[i].op = Jobs[i + 1].op
             /\ Jobs'[i].len = Jobs[i + 1].len
      <4>1. LET o == [Jobs[2] EXCEPT !.intermediate = Total] IN
            /\ o.client = Jobs[2].client /\ o.op = Jobs[2].op /\ o.len = Jobs[2].len
        BY <3>2 DEF Operation
      <4>2. ASSUME NEW i \in 1 .. Used - 1
            PROVE  /\ Jobs'[i].client = Jobs[i + 1].client
                   /\ Jobs'[i].op = Jobs[i + 1].op
                   /\ Jobs'[i].len = Jobs[i + 1].len
        <5>1. CASE i = 1
          <6>1. Jobs'[1] = [Jobs[2] EXCEPT !.intermediate = Total] /\ 1 + 1 = 2
            BY <5>1, <3>1
          <6> QED BY <6>1, <5>1, <4>1
        <5>2. CASE i # 1
          BY <5>2, <3>1
        <5> QED BY <5>1, <5>2
      <4> QED BY <4>2
    <3>4. PICK K : K = Jobs'
      OBVIOUS
    <3>5. RoomInv(K, m, l)
      BY <3>1, <3>2, <3>3, <3>4, <1>1, <1>2, TailRoom
    <3> QED BY <3>4, <3>5
  <2> QED BY <2>1, <2>2
<1>9. CASE ProgramOpened
  BY <1>5, <1>9, LengthAssumption DEF ProgramOpened
<1>10. CASE ProgramLoaded
  BY <1>5, <1>10 DEF ProgramLoaded
<1>11. CASE LastProgramLoaded \/ \E t \in Threads : SyscallDone(t)
  BY <1>4, <1>11, CalledBackJobs
<1>12. CASE NextRequest \/ HdInterrupt \/ DeviceTransfers \/ InterruptAccepted
             \/ ProgramMissing \/ UNCHANGED vars
  <2>1. UNCHANGED ring
    BY <1>12, RingStays
  <2> QED BY <2>1, RingUnchanged
<1> QED BY <1>6, <1>7, <1>8, <1>9, <1>10, <1>11, <1>12
        DEF Next, KernelStep, RequestProcessed, LoaderDone, Halted

\* Jobs outside I belong to threads of T, which have at most m jobs each.
LEMMA CountJobs ==
    ASSUME NEW m \in Nat \ {0}, NEW l \in Nat, NEW J \in Seq(Operation),
           Near(J, m, l), NEW T \in SUBSET Threads, NEW I \in SUBSET DOMAIN J,
           IsFiniteSet(T), \A i \in DOMAIN J \ I : J[i].client \in T
    PROVE  /\ IsFiniteSet(I) /\ Cardinality(I) \in Nat
           /\ Len(J) <= Cardinality(T) * m + Cardinality(I)
<1> DEFINE D == DOMAIN J \ I
<1>1. /\ DOMAIN J = 1 .. Len(J) /\ Len(J) \in Nat
  BY LenProperties
<1>2. IsFiniteSet(DOMAIN J) /\ Cardinality(DOMAIN J) = Len(J)
  <2>1. 1 \in Int /\ Len(J) \in Int /\ (IF 1 > Len(J) THEN 0 ELSE Len(J) - 1 + 1) = Len(J)
    BY <1>1
  <2> QED BY <2>1, <1>1, FS_Interval
<1>3. IsFiniteSet(I) /\ Cardinality(I) \in Nat
  BY <1>2, FS_Subset, FS_CardinalityType
<1>4. IsFiniteSet(D) /\ Cardinality(D) = Len(J) - Cardinality(I)
  <2>1. /\ IsFiniteSet(D)
        /\ Cardinality(D) = Cardinality(DOMAIN J) - Cardinality(DOMAIN J \cap I)
    BY <1>2, FS_Difference
  <2>2. DOMAIN J \cap I = I
    OBVIOUS
  <2> QED BY <2>1, <2>2, <1>2
<1>5. Cardinality(D) <= Cardinality(T) * m
  <2>1. D \in SUBSET Nat /\ \A i \in D : J[i].client \in T
    BY <1>1
  <2>2. \A i, j \in D : J[i].client = J[j].client => j - i < m
    <3>1. \A i \in D : MostOf(J[i].client, m, l) = m
      BY <2>1 DEF MostOf, Threads, Loader
    <3> QED BY <3>1 DEF Near
  <2> QED BY <2>1, <2>2, CountByClient
<1>6. Cardinality(T) * m \in Nat
  <2>1. Cardinality(T) \in Nat
    BY FS_CardinalityType
  <2> QED BY <2>1
<1> QED BY <1>1, <1>3, <1>4, <1>5, <1>6

\* How many threads there are, without some of them.
LEMMA CountThreads ==
    /\ \A t \in Threads : /\ IsFiniteSet(Threads \ {t})
                          /\ Cardinality(Threads \ {t}) = Programs - 1
    /\ IsFiniteSet(1 .. Programs - 1) /\ Cardinality(1 .. Programs - 1) = Programs - 1
    /\ \A t \in 1 .. Programs - 1 :
         /\ IsFiniteSet((1 .. Programs - 1) \ {t})
         /\ Cardinality((1 .. Programs - 1) \ {t}) = Programs - 2
<1>1. IsFiniteSet(Threads) /\ Cardinality(Threads) = Programs
  <2>1. /\ 1 \in Int /\ Programs \in Int /\ ~(1 > Programs)
        /\ Programs - 1 + 1 = Programs
    BY ProgramsAssumption
  <2> QED BY <2>1, FS_Interval DEF Threads
<1>2. IsFiniteSet(1 .. Programs - 1) /\ Cardinality(1 .. Programs - 1) = Programs - 1
  <2>1. /\ 1 \in Int /\ Programs - 1 \in Int
        /\ (IF 1 > Programs - 1 THEN 0 ELSE (Programs - 1) - 1 + 1) = Programs - 1
    BY ProgramsAssumption
  <2> QED BY <2>1, FS_Interval
<1>3. ASSUME NEW t \in Threads
      PROVE  IsFiniteSet(Threads \ {t}) /\ Cardinality(Threads \ {t}) = Programs - 1
  BY <1>1, FS_RemoveElement
<1>4. ASSUME NEW t \in 1 .. Programs - 1
      PROVE  /\ IsFiniteSet((1 .. Programs - 1) \ {t})
             /\ Cardinality((1 .. Programs - 1) \ {t}) = Programs - 2
  <2>1. /\ IsFiniteSet((1 .. Programs - 1) \ {t})
        /\ Cardinality((1 .. Programs - 1) \ {t}) = (Programs - 1) - 1
    BY <1>2, FS_RemoveElement
  <2> QED BY <2>1, ProgramsAssumption
<1> QED BY <1>2, <1>3, <1>4

\* The clients of the jobs wait, and a thread that waits is loaded.
LEMMA JobClients ==
    ASSUME HdInv, NEW i \in DOMAIN Jobs
    PROVE  /\ Jobs[i].client \in Clients /\ waits[Jobs[i].client] # "none"
           /\ Jobs[i].client # Loader =>
                Jobs[i].client \in Threads /\ Jobs[i].client < loading
<1>1. TypeOK /\ Queued(Jobs, waits)
  BY DEF HdInv
<1>2. Used > 0 /\ i \in 1 .. Used
  BY <1>1, JobsFacts
<1>3. Jobs[i].client \in Clients
  <2>1. Jobs[i] \in Operation
    BY <1>1, <1>2, JobsFacts, ElementOfSeq
  <2> QED BY <2>1 DEF Operation
<1>4. waits[Jobs[i].client] # "none"
  BY <1>1, <1>2, OldestFacts
<1> QED BY <1>3, <1>4 DEF HdInv, LoadingInv, Clients

\* A thread that is not blocked finds room for its request.
LEMMA RoomForThread ==
    ASSUME NEW m, NEW l, RingHasRoom(m, l), HdInv, RoomInv(Jobs, m, l),
           NEW t \in Threads, t < loading, waits[t] = "none"
    PROVE  Used + m <= Capacity
<1>1. /\ m \in Nat \ {0} /\ l \in Nat \ {0} /\ Near(Jobs, m, l)
      /\ Programs \in Nat \ {0} /\ Capacity \in Nat
      /\ t \in 1 .. Programs
      /\ Programs * m <= Capacity /\ (Programs - 1) * m + l + 1 <= Capacity
  BY ProgramsAssumption, RingAssumption DEF RingHasRoom, RoomInv, Threads
<1>2. TypeOK /\ loading \in 1 .. Programs + 1
  BY DEF HdInv, TypeOK
<1>3. /\ Jobs \in Seq(Operation) /\ Len(Jobs) = Used /\ Used \in Nat
  BY <1>2, JobsFacts
<1>4. CASE waits[Loader] = "none"
  <2> DEFINE T == Threads \ {t}
  <2>1. T \in SUBSET Threads /\ IsFiniteSet(T) /\ Cardinality(T) = Programs - 1
    BY CountThreads
  <2>2. \A i \in DOMAIN Jobs \ {} : Jobs[i].client \in T
    BY <1>4, JobClients
  <2> HIDE DEF T
  <2>3. Used <= (Programs - 1) * m + 0
    <3>1. Len(Jobs) <= Cardinality(T) * m + Cardinality({})
      BY <1>1, <1>3, <2>1, <2>2, CountJobs
    <3> QED BY <3>1, <2>1, <1>3, FS_EmptySet
  <2>4. (Programs - 1) * m + m = Programs * m
    BY <1>1, SMTT(20)
  <2>5. PICK a \in Int : a = (Programs - 1) * m
    BY <1>1
  <2> QED BY <2>3, <2>4, <2>5, <1>1, <1>3
<1>5. CASE waits[Loader] # "none"
  <2>1. loading <= Programs
    BY <1>5 DEF HdInv, LoadingInv
  <2> DEFINE T == (1 .. Programs - 1) \ {t}
             I == {i \in DOMAIN Jobs : Jobs[i].client = Loader}
  <2>2. t \in 1 .. Programs - 1
    BY <1>1, <1>2, <2>1
  <2>3. T \in SUBSET Threads /\ IsFiniteSet(T) /\ Cardinality(T) = Programs - 2
    <3>1. T \in SUBSET Threads
      BY <1>1 DEF Threads
    <3> QED BY <3>1, <2>2, CountThreads
  <2>4. \A i \in DOMAIN Jobs \ I : Jobs[i].client \in T
    <3>1. ASSUME NEW i \in DOMAIN Jobs \ I
          PROVE  Jobs[i].client \in T
      <4>1. /\ Jobs[i].client \in 1 .. Programs /\ Jobs[i].client < loading
            /\ Jobs[i].client # t
        BY <3>1, JobClients DEF Threads
      <4> QED BY <4>1, <1>1, <1>2, <2>1
    <3> QED BY <3>1
  <2>5. /\ \A i \in I : Jobs[i].client \in {Loader}
        /\ \A i, j \in I : Jobs[i].client = Jobs[j].client => j - i < l
    BY <1>1 DEF Near, MostOf
  <2>6. I \in SUBSET DOMAIN Jobs /\ DOMAIN Jobs \in SUBSET Nat
    BY <1>3, LenProperties
  <2> HIDE DEF T, I
  <2>7. Len(Jobs) <= (Programs - 2) * m + Cardinality(I) /\ Cardinality(I) \in Nat
    BY <1>1, <1>3, <2>3, <2>4, <2>6, CountJobs
  <2>8. Cardinality(I) <= l
    <3>1. IsFiniteSet({Loader}) /\ Cardinality({Loader}) = 1
      BY FS_Singleton
    <3>2. Cardinality(I) <= Cardinality({Loader}) * l
      BY <3>1, <2>5, <2>6, <1>1, CountByClient
    <3> QED BY <3>1, <3>2, <1>1
  <2>9. (Programs - 2) * m + m = (Programs - 1) * m
    BY <1>1, SMTT(20)
  <2>10. PICK a \in Int, b \in Int :
           a = (Programs - 2) * m /\ b = (Programs - 1) * m
    BY <1>1
  <2> QED BY <2>7, <2>8, <2>9, <2>10, <1>1, <1>3
<1> QED BY <1>4, <1>5

\* The loader finds room for the request it makes from its callback, while the
\* job it is called back for is still in the ring.
LEMMA RoomForLoader ==
    ASSUME NEW m, NEW l, RingHasRoom(m, l), HdInv, RoomInv(Jobs, m, l),
           CallsBack(Loader)
    PROVE  Used + l <= Capacity
<1>1. /\ m \in Nat \ {0} /\ l \in Nat \ {0} /\ Near(Jobs, m, l)
      /\ Programs \in Nat \ {0} /\ Capacity \in Nat
      /\ (Programs - 1) * m + l + 1 <= Capacity
  BY ProgramsAssumption, RingAssumption DEF RingHasRoom, RoomInv
<1>2. /\ TypeOK /\ Queued(Jobs, waits) /\ Used > 0
      /\ Oldest.last /\ Oldest.client = Loader
  BY DEF HdInv, PhaseInv, CallsBack, At
<1>3. /\ Jobs \in Seq(Operation) /\ Len(Jobs) = Used /\ Used \in Nat
      /\ Oldest = Jobs[1] /\ DOMAIN Jobs = 1 .. Used
  BY <1>2, JobsFacts
<1>4. waits[Loader] # "none" /\ loading \in 1 .. Programs + 1
  BY <1>2, OldestFacts DEF Ops, TypeOK
<1>5. loading <= Programs
  BY <1>4 DEF HdInv, LoadingInv
<1> DEFINE T == 1 .. Programs - 1
<1>6. T \in SUBSET Threads /\ IsFiniteSet(T) /\ Cardinality(T) = Programs - 1
  BY <1>1, CountThreads DEF Threads
<1>7. \A i \in DOMAIN Jobs \ {1} : Jobs[i].client \in T
  <2>1. ASSUME NEW i \in DOMAIN Jobs \ {1}
        PROVE  Jobs[i].client \in T
    <3>1. 1 \in DOMAIN Jobs /\ 1 < i
      BY <1>2, <1>3
    <3>2. Jobs[i].client # Loader
      BY <3>1, <1>2, <1>3 DEF Queued, Grouped
    <3>3. Jobs[i].client \in 1 .. Programs /\ Jobs[i].client < loading
      BY <3>2, JobClients DEF Threads
    <3> QED BY <3>3, <1>1, <1>4, <1>5
  <2> QED BY <2>1
<1>8. {1} \in SUBSET DOMAIN Jobs
  BY <1>2, <1>3
<1> HIDE DEF T
<1>9. Len(Jobs) <= (Programs - 1) * m + 1
  <2>1. Len(Jobs) <= Cardinality(T) * m + Cardinality({1})
    BY <1>1, <1>3, <1>6, <1>7, <1>8, CountJobs
  <2> QED BY <2>1, <1>6, FS_Singleton
<1>10. PICK a \in Int : a = (Programs - 1) * m
  BY <1>1
<1> QED BY <1>1, <1>3, <1>9, <1>10

\* No assertion fails in a step.
LEMMA NextKeepsAssertions ==
    ASSUME NEW m, NEW l, RingHasRoom(m, l), 0 \notin WriteLens,
           HdInv, RoomInv(Jobs, m, l), AssertionsHold, [Next]_vars
    PROVE  AssertionsHold'
<1>1. /\ TypeOK /\ RingInv /\ Queued(Jobs, waits) /\ panic # "assert"
      /\ hd \in Device /\ listAvailable \in 0 .. Capacity
      /\ Used = Capacity - listAvailable /\ Used \in Nat /\ Capacity \in Nat
      /\ m \in Nat /\ l \in Nat
  BY RingAssumption DEF HdInv, TypeOK, AssertionsHold, Used, RingHasRoom
<1>2. phase \in {"next", "processed"} => hd.state = "IDLE" /\ Used > 0
  BY DEF HdInv, PhaseInv, DeviceQuiet
<1>3. CASE Boot
  <2>1. Len(Entries(Loader, "OPEN", 0)) = 1
    <3>1. Parts(0) = 1
      BY DEF Parts, FullSectors
    <3> QED BY <3>1, EntriesAreRequest DEF Clients, Ops
  <2>2. Used = 0
    BY <1>3 DEF Boot, At, HdInv, PhaseInv
  <2>3. listAvailable >= 1
    BY <2>2, <1>1, RingAssumption
  <2>4. Len(Entries(Loader, "OPEN", 0)) <= listAvailable
    BY <2>1, <2>3, <1>1
  <2> QED BY <2>4, <1>1, <1>3 DEF Boot, Submit, Asserting, AssertionsHold
<1>4. ASSUME NEW t \in Threads, Syscall(t)
      PROVE  AssertionsHold'
  <2>1. /\ t < loading /\ waits[t] = "none" /\ t \in Clients
    BY <1>4, SyscallIsRequest
  <2>2. PICK op \in Ops, len \in Nat :
          /\ \/ op \in {"OPEN", "CLOSE"} /\ len = 0
             \/ op = "READ" /\ len \in ReadLens
             \/ op = "WRITE" /\ len \in WriteLens
          /\ Submit(t, op, len)
    BY <1>4, SyscallIsRequest
  <2>3. PICK n \in Nat : n = Len(Entries(t, op, len)) /\ n <= m
    BY <2>1, <2>2, RequestRoom DEF MostOf, Threads, Loader
  <2>4. Used + m <= Capacity
    BY <2>1, RoomForThread
  <2>5. n <= listAvailable
    BY <2>3, <2>4, <1>1
  <2> QED BY <2>2, <2>3, <2>5, <1>1 DEF Submit, Asserting, AssertionsHold
<1>5. CASE StartRead
  BY <1>1, <1>2, <1>5 DEF StartRead, Starts, At, Asserting, AssertionsHold
<1>6. CASE StartWrite
  <2> DEFINE a == Addressed
             w == Command(a, "WRITE_FILE_BUFFER")
             s == SendBytes(w, Oldest.len)
  <2>1. phase = "next" /\ Oldest.op = "WRITE" /\ hd.state = "IDLE" /\ Used > 0
    BY <1>2, <1>6 DEF StartWrite, Starts, At
  <2>2. Oldest.len > 0
    <3>1. 1 \in DOMAIN Jobs /\ Oldest = Jobs[1]
      BY <1>1, <2>1, JobsFacts
    <3> QED BY <3>1, <2>1 DEF RoomInv, WritesMove
  <2>3. a \in Device /\ a.state = "IDLE" /\ a.fileBytes = Oldest.len
    BY <2>1, StartFacts, AddressFacts DEF Addressed
  <2> HIDE DEF a
  <2>4. w \in Device /\ w.state = "WAIT_WBUFFER" /\ w.fileBytes = a.fileBytes
    BY <2>3, CommandFacts DEF CommandState
  <2>5. s = SendBytes(w, w.fileBytes)
    BY <2>3, <2>4
  <2> HIDE DEF w
  <2>6. s.state = "IDLE"
    BY <2>2, <2>3, <2>4, <2>5, SendFacts
  <2>7. panic' = panic
    <3>1. hd.state = "IDLE" /\ w.state = "WAIT_WBUFFER" /\ s.state = "IDLE"
      BY <2>1, <2>4, <2>6
    <3> QED BY <3>1, <1>6 DEF StartWrite, Asserting, a, w
  <2> QED BY <2>7, <1>1 DEF AssertionsHold
<1>7. CASE StartOpen
  <2>1. phase = "next" /\ hd.state = "IDLE"
    BY <1>2, <1>7 DEF StartOpen, Starts, At
  <2>2. Command(Command(hd, "FNAME_START"), "FNAME_END").state = "IDLE"
    BY <1>1, <2>1, NameFacts
  <2> QED BY <2>1, <2>2, <1>1, <1>7 DEF StartOpen, Asserting, AssertionsHold
<1>8. CASE StartClose
  BY <1>1, <1>2, <1>8 DEF StartClose, Starts, At, Asserting, AssertionsHold
<1>9. CASE PartProcessed
  BY <1>1, <1>2, <1>9 DEF PartProcessed, At, Asserting, AssertionsHold
<1>10. ASSUME NEW op \in {"OPEN", "READ"}, NEW len \in Nat,
              op = "OPEN" => len = 0, op = "READ" => len \in LoadLens,
              CallsBack(Loader), LoaderGoesOn(op, len)
       PROVE  AssertionsHold'
  <2>1. PICK n \in Nat : n = Len(Entries(Loader, op, len)) /\ n <= l
    BY <1>10, RequestRoom DEF MostOf, Clients, Ops
  <2>2. Used + l <= Capacity
    BY <1>10, RoomForLoader
  <2>3. n <= listAvailable
    BY <2>1, <2>2, <1>1
  <2>4. hd.state = "IDLE"
    BY <1>2, <1>10 DEF CallsBack, At
  <2> QED BY <2>1, <2>3, <2>4, <1>1, <1>10 DEF LoaderGoesOn, Asserting, AssertionsHold
<1>11. CASE ProgramOpened
  BY <1>10, <1>11, LengthAssumption DEF ProgramOpened
<1>12. CASE ProgramLoaded
  BY <1>10, <1>12 DEF ProgramLoaded
<1>13. CASE ProgramMissing
  BY <1>13 DEF ProgramMissing, AssertionsHold
<1>14. CASE LastProgramLoaded
  BY <1>1, <1>2, <1>14 DEF LastProgramLoaded, CallsBack, At, Asserting, AssertionsHold
<1>15. ASSUME NEW t \in Threads, SyscallDone(t)
       PROVE  AssertionsHold'
  <2>1. phase = "processed" /\ hd.state = "IDLE" /\ Oldest.client = t /\ Used > 0
    BY <1>2, <1>15 DEF SyscallDone, CallsBack, At
  <2>2. waits[t] = Oldest.op
    BY <2>1, <1>1, OldestFacts
  <2> QED BY <2>1, <2>2, <1>1, <1>15 DEF SyscallDone, Asserting, AssertionsHold
<1>16. CASE HdInterrupt
  <2> DEFINE reads == Oldest.op = "READ"
             emptied == IF reads THEN TakeBytes(hd, hd.fileBytes) ELSE hd
  <2>1. phase = "user" /\ irq
    BY <1>16 DEF HdInterrupt, At
  <2>2. Serving(Oldest)
    BY <2>1 DEF HdInv, PhaseInv, DeviceQuiet
  <2>3. /\ Oldest.op \in {"READ", "WRITE"}
        /\ hd.state = IF reads /\ hd.fileBytes > 0 THEN "WAIT_READ" ELSE "IDLE"
    BY <2>1, <2>2 DEF Serving
  <2>4. emptied.state = IF reads /\ hd.state = "WAIT_READ" /\ hd.fileBytes > 0
                        THEN "IDLE" ELSE hd.state
    <3>1. reads \in BOOLEAN /\ 0 \in Nat
      OBVIOUS
    <3> HIDE DEF reads
    <3> QED BY <3>1, <1>1, EmptyFacts
  <2>5. emptied.state = "IDLE"
    BY <2>3, <2>4
  <2>6. panic' = panic
    BY <2>3, <2>5, <1>16 DEF HdInterrupt, Asserting
  <2> QED BY <2>6, <1>1 DEF AssertionsHold
<1>17. CASE DeviceTransfers \/ InterruptAccepted \/ UNCHANGED vars
  BY <1>1, <1>17 DEF DeviceTransfers, InterruptAccepted, vars, AssertionsHold
<1> QED BY <1>3, <1>4, <1>5, <1>6, <1>7, <1>8, <1>9, <1>11, <1>12, <1>13, <1>14,
           <1>15, <1>16, <1>17
        DEF Next, NextRequest, KernelStep, RequestProcessed, LoaderDone, Halted

\* No assertion of the driver or of a callback fails, the one for the room in
\* the ring included, when the ring has a place for every part of a request of
\* every thread and of the loader, and no thread writes nothing (the run
\* hd_empty_write shows what a write of no bytes does).
THEOREM AssertionsHoldAlways ==
    ASSUME NEW CONSTANT m, NEW CONSTANT l,
           RingHasRoom(m, l), 0 \notin WriteLens
    PROVE  Spec => []AssertionsHold
<1> DEFINE Inv == HdInv /\ RoomInv(Jobs, m, l) /\ AssertionsHold
<1>1. Init => Inv
  <2> SUFFICES ASSUME Init PROVE Inv
    OBVIOUS
  <2>1. HdInv
    BY InitHdInv
  <2>2. DOMAIN Jobs = {}
    <3>1. TypeOK
      BY <2>1 DEF HdInv
    <3>2. Used = 0
      BY RingAssumption DEF Init, Used
    <3> QED BY <3>1, <3>2, JobsFacts
  <2>3. RoomInv(Jobs, m, l)
    BY <2>2 DEF RoomInv, Near, WritesMove
  <2>4. AssertionsHold
    BY DEF Init, AssertionsHold
  <2> QED BY <2>1, <2>3, <2>4
<1>2. Inv /\ [Next]_vars => Inv'
  <2> SUFFICES ASSUME Inv, [Next]_vars PROVE Inv'
    OBVIOUS
  <2>1. HdInv'
    BY NextKeepsHdInv
  <2>2. RoomInv(Jobs, m, l)'
    <3>1. RoomInv(Jobs', m, l)
      BY NextKeepsRoomInv
    <3> QED BY <3>1 DEF RoomInv, Near, WritesMove, MostOf
  <2>3. AssertionsHold'
    BY NextKeepsAssertions
  <2> QED BY <2>1, <2>2, <2>3
<1>3. Inv => AssertionsHold
  OBVIOUS
<1> QED BY <1>1, <1>2, <1>3, PTL DEF Spec
=============================================================================
