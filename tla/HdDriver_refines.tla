-------------------------- MODULE HdDriver_refines -------------------------
(***************************************************************************)
(* The hd driver implements HdQueue: its ring, with the chain of callbacks *)
(* and the device behind it, is a queue served first come first served.    *)
(* A request of a client is Request, a part of a transfer that hands its   *)
(* result to the next one Advance, a callback Answer, whether or not it    *)
(* makes the next request; all other steps, those of the device among      *)
(* them, change nothing the clients of the queue can see.                  *)
(***************************************************************************)
EXTENDS HdDriver_proofs

\* The ring as HdQueue sees it.
JobsOf(J) == [i \in DOMAIN J |-> JobOf(J[i])]

Got == IF Used = 0 THEN 0 ELSE Oldest.intermediate

Pending == {c \in Clients : waits[c] # "none"}

-----------------------------------------------------------------------------
\* Lemmas about JobsOf.

\* The queue holds the jobs of the ring.
LEMMA QueueIsJobs == Queue = JobsOf(Jobs) /\ Queue' = JobsOf(Jobs')
BY DEF Queue, JobsOf, Jobs

\* A job of the ring is one of the queue.
LEMMA JobsOfFacts ==
    ASSUME NEW J \in Seq(Operation)
    PROVE  /\ JobsOf(J) \in Seq(Abstract!Job)
           /\ Len(JobsOf(J)) = Len(J) /\ Len(J) \in Nat
           /\ DOMAIN JobsOf(J) = 1 .. Len(J)
           /\ \A i \in 1 .. Len(J) : JobsOf(J)[i] = JobOf(J[i])
<1>1. DOMAIN J = 1 .. Len(J) /\ Len(J) \in Nat
  BY LenProperties
<1>2. \A i \in 1 .. Len(J) : JobOf(J[i]) \in Abstract!Job
  <2>1. \A i \in 1 .. Len(J) : J[i] \in Operation
    BY ElementOfSeq
  <2> QED BY <2>1 DEF Operation, Abstract!Job, Abstract!JobOps, JobOf, Ops
<1>3. JobsOf(J) = [i \in 1 .. Len(J) |-> JobOf(J[i])]
  BY <1>1 DEF JobsOf
<1> QED BY <1>1, <1>2, <1>3

\* A request appended to the ring is appended to the queue.
LEMMA JobsOfConcat ==
    ASSUME NEW J \in Seq(Operation), NEW E \in Seq(Operation)
    PROVE  JobsOf(J \o E) = JobsOf(J) \o JobsOf(E)
<1> DEFINE a == JobsOf(J \o E)
           b == JobsOf(J) \o JobsOf(E)
<1>1. /\ J \o E \in Seq(Operation) /\ Len(J \o E) = Len(J) + Len(E)
      /\ \A i \in 1 .. Len(J) + Len(E) : (J \o E)[i] =
           IF i <= Len(J) THEN J[i] ELSE E[i - Len(J)]
  BY ConcatProperties
<1>2. /\ a \in Seq(Abstract!Job) /\ Len(a) = Len(J) + Len(E)
      /\ \A i \in 1 .. Len(J) + Len(E) : a[i] = JobOf((J \o E)[i])
  BY <1>1, JobsOfFacts
<1>3. /\ JobsOf(J) \in Seq(Abstract!Job) /\ JobsOf(E) \in Seq(Abstract!Job)
      /\ Len(JobsOf(J)) = Len(J) /\ Len(JobsOf(E)) = Len(E)
      /\ Len(J) \in Nat /\ Len(E) \in Nat
      /\ \A i \in 1 .. Len(J) : JobsOf(J)[i] = JobOf(J[i])
      /\ \A i \in 1 .. Len(E) : JobsOf(E)[i] = JobOf(E[i])
  BY JobsOfFacts
<1>4. /\ b \in Seq(Abstract!Job) /\ Len(b) = Len(J) + Len(E)
      /\ \A i \in 1 .. Len(J) + Len(E) : b[i] =
           IF i <= Len(J) THEN JobsOf(J)[i] ELSE JobsOf(E)[i - Len(J)]
  <2>1. PICK x \in Seq(Abstract!Job), y \in Seq(Abstract!Job) :
          x = JobsOf(J) /\ y = JobsOf(E)
    BY <1>3
  <2>2. /\ x \o y \in Seq(Abstract!Job) /\ Len(x \o y) = Len(x) + Len(y)
        /\ \A i \in 1 .. Len(x) + Len(y) :
             (x \o y)[i] = IF i <= Len(x) THEN x[i] ELSE y[i - Len(x)]
    BY ConcatProperties
  <2>3. b = x \o y /\ Len(x) = Len(J) /\ Len(y) = Len(E)
    BY <2>1, <1>3
  <2> HIDE DEF b
  <2> QED BY <2>1, <2>2, <2>3
<1>5. \A i \in 1 .. Len(J) + Len(E) : a[i] = b[i]
  <2>1. ASSUME NEW i \in 1 .. Len(J) + Len(E)
        PROVE  a[i] = b[i]
    <3>1. CASE i <= Len(J)
      <4>1. i \in 1 .. Len(J)
        BY <1>3, <3>1
      <4> QED BY <4>1, <3>1, <1>1, <1>2, <1>3, <1>4
    <3>2. CASE ~(i <= Len(J))
      <4>1. i - Len(J) \in 1 .. Len(E)
        BY <1>3, <3>2
      <4> QED BY <4>1, <3>2, <1>1, <1>2, <1>3, <1>4
    <3> QED BY <3>1, <3>2
  <2> QED BY <2>1
<1> HIDE DEF a, b
<1>6. a = b
  BY <1>2, <1>4, <1>5, SeqEqual
<1> QED BY <1>6 DEF a, b

\* A ring whose jobs follow the oldest one of J is the tail of the queue.
LEMMA JobsOfTail ==
    ASSUME NEW J \in Seq(Operation), J # <<>>, NEW K \in Seq(Operation),
           Len(K) = Len(J) - 1,
           \A i \in 1 .. Len(J) - 1 : JobOf(K[i]) = JobOf(J[i + 1])
    PROVE  /\ JobsOf(K) = Tail(JobsOf(J)) /\ JobsOf(J) # <<>>
           /\ Head(JobsOf(J)) = JobOf(J[1])
<1> DEFINE a == JobsOf(K)
           q == JobsOf(J)
<1>1. /\ Len(J) \in Nat /\ Len(J) # 0
      /\ a \in Seq(Abstract!Job) /\ Len(a) = Len(J) - 1
      /\ \A i \in 1 .. Len(J) - 1 : a[i] = JobOf(J[i + 1])
      /\ q \in Seq(Abstract!Job) /\ Len(q) = Len(J)
      /\ \A i \in 1 .. Len(J) : q[i] = JobOf(J[i])
  BY JobsOfFacts, EmptySeq
<1> HIDE DEF a, q
<1>2. q # <<>>
  BY <1>1
<1>3. /\ Tail(q) \in Seq(Abstract!Job) /\ Len(Tail(q)) = Len(J) - 1
      /\ \A i \in 1 .. Len(J) - 1 : Tail(q)[i] = q[i + 1]
  BY <1>1, <1>2, HeadTailProperties
<1>4. \A i \in 1 .. Len(J) - 1 : q[i + 1] = JobOf(J[i + 1])
  BY <1>1
<1>5. a = Tail(q)
  BY <1>1, <1>3, <1>4, SeqEqual
<1>6. Head(q) = q[1] /\ q[1] = JobOf(J[1])
  BY <1>1, <1>2
<1> QED BY <1>2, <1>5, <1>6 DEF a, q

\* The entries of a request are a request of the queue.
LEMMA RequestOf ==
    ASSUME NEW c, NEW op, NEW es, Request(es, c, op)
    PROVE  /\ Abstract!IsRequest(JobsOf(es))
           /\ JobsOf(es)[1].client = c
           /\ JobsOf(es) \in Seq(Abstract!Job) /\ JobsOf(es) # <<>>
<1>1. /\ es \in Seq(Operation) /\ es # <<>>
      /\ \A i \in 1 .. Len(es) :
           es[i].client = c /\ es[i].op = op /\ (es[i].last <=> i = Len(es))
  BY DEF Request
<1> DEFINE js == JobsOf(es)
<1>2. /\ js \in Seq(Abstract!Job) /\ Len(js) = Len(es) /\ Len(es) \in Nat
      /\ DOMAIN js = 1 .. Len(es) /\ Len(es) # 0
      /\ \A i \in 1 .. Len(es) : js[i] = JobOf(es[i])
  BY <1>1, JobsOfFacts, EmptySeq
<1> HIDE DEF js
<1>3. \A i \in 1 .. Len(es) :
         js[i].client = c /\ js[i].op = op /\ (js[i].last <=> i = Len(js))
  <2>1. ASSUME NEW i \in 1 .. Len(es)
        PROVE  js[i].client = c /\ js[i].op = op /\ (js[i].last <=> i = Len(js))
    <3>1. js[i] = JobOf(es[i]) /\ Len(js) = Len(es)
      BY <1>2
    <3>2. /\ JobOf(es[i]).client = es[i].client /\ JobOf(es[i]).op = es[i].op
          /\ JobOf(es[i]).last = es[i].last
      BY DEF JobOf
    <3> QED BY <3>1, <3>2, <1>1
  <2> QED BY <2>1
<1>4. js # <<>> /\ 1 \in 1 .. Len(es)
  BY <1>2
<1> QED BY <1>2, <1>3, <1>4 DEF js, Abstract!IsRequest

\* What a step appends is what follows the queue it leaves.
LEMMA AppendedIs ==
    ASSUME NEW S, NEW q \in Seq(S), NEW e \in Seq(S)
    PROVE  SubSeq(q \o e, Len(q) + 1, Len(q \o e)) = e
<1> DEFINE w == q \o e
           a == SubSeq(w, Len(q) + 1, Len(w))
<1>1. /\ w \in Seq(S) /\ Len(w) = Len(q) + Len(e)
      /\ \A i \in 1 .. Len(q) + Len(e) : w[i] =
           IF i <= Len(q) THEN q[i] ELSE e[i - Len(q)]
      /\ Len(q) \in Nat /\ Len(e) \in Nat
  BY ConcatProperties, LenProperties
<1> HIDE DEF w
<1>2. \A i \in Len(q) + 1 .. Len(w) : w[i] \in S
  <2>1. \A i \in Len(q) + 1 .. Len(w) : i \in 1 .. Len(w)
    BY <1>1
  <2> QED BY <2>1, <1>1, ElementOfSeq
<1>3. /\ a \in Seq(S)
      /\ Len(a) = IF Len(q) + 1 <= Len(w) THEN Len(w) - (Len(q) + 1) + 1 ELSE 0
      /\ \A i \in 1 .. Len(w) - (Len(q) + 1) + 1 : a[i] = w[Len(q) + 1 + i - 1]
  <2>1. Len(q) + 1 \in Int /\ Len(w) \in Int
    BY <1>1
  <2> QED BY <2>1, <1>2, SubSeqProperties
<1> HIDE DEF a
<1>4. Len(a) = Len(e) /\ Len(w) - (Len(q) + 1) + 1 = Len(e)
  BY <1>1, <1>3
<1>5. \A i \in 1 .. Len(e) : a[i] = e[i]
  <2>1. ASSUME NEW i \in 1 .. Len(e)
        PROVE  a[i] = e[i]
    <3>1. PICK n \in Nat, k \in Nat : n = Len(q) /\ k = Len(e)
      BY <1>1
    <3>2. /\ n + 1 + i - 1 = n + i /\ n + i \in 1 .. n + k
          /\ ~(n + i <= n) /\ (n + i) - n = i
      BY <3>1
    <3>3. a[i] = w[n + i]
      BY <3>1, <3>2, <1>3, <1>4
    <3>4. w[n + i] = e[i]
      BY <3>1, <3>2, <1>1
    <3> QED BY <3>3, <3>4
  <2> QED BY <2>1
<1>6. a = e
  BY <1>3, <1>4, <1>5, SeqEqual
<1> QED BY <1>6 DEF a, w
-----------------------------------------------------------------------------
\* The steps of the queue, in terms of what they append.

\* A client that waits for nothing requests jobs.
LEMMA IsRequestStep ==
    ASSUME NEW J \in Seq(Abstract!Job), Queue \in Seq(Abstract!Job),
           Abstract!IsRequest(J), Queue' = Queue \o J,
           J[1].client \notin Pending, Pending' = Pending \cup {J[1].client},
           answer' = [answer EXCEPT ![J[1].client] = 0], Got' = Got
    PROVE  Abstract!Request
<1>1. SubSeq(Queue', Len(Queue) + 1, Len(Queue')) = J
  BY AppendedIs
<1>2. Abstract!Appended(Queue) = J
  BY <1>1 DEF Abstract!Appended
<1> QED BY <1>2 DEF Abstract!Request, Got, Pending

\* The oldest job is not the last of its request.
LEMMA IsAdvanceStep ==
    ASSUME Queue # <<>>, ~Head(Queue).last, Queue' = Tail(Queue),
           NEW r \in Abstract!Results(Head(Queue)), Got' = Got + r,
           Pending' = Pending, answer' = answer
    PROVE  Abstract!Advance
BY DEF Abstract!Advance, Got, Pending

\* The oldest job is the last of its request and its client is answered.
LEMMA IsAnswerStep ==
    ASSUME NEW J \in Seq(Abstract!Job), Queue \in Seq(Abstract!Job),
           Queue # <<>>, Head(Queue).last, Queue' = Tail(Queue) \o J,
           Got' = 0, NEW r \in Abstract!Results(Head(Queue)),
           answer' = [answer EXCEPT ![Head(Queue).client] = Got + r],
           \/ J = <<>> /\ Pending' = Pending \ {Head(Queue).client}
           \/ /\ Abstract!IsRequest(J) /\ J[1].client = Head(Queue).client
              /\ Pending' = Pending
    PROVE  Abstract!Answer
<1>1. Tail(Queue) \in Seq(Abstract!Job)
  BY HeadTailProperties
<1>2. SubSeq(Queue', Len(Tail(Queue)) + 1, Len(Queue')) = J
  BY <1>1, AppendedIs
<1>3. Abstract!Appended(Tail(Queue)) = J
  BY <1>2 DEF Abstract!Appended
<1> QED BY <1>3 DEF Abstract!Answer, Got, Pending

\* A step that changes nothing the queue shows.
LEMMA IsStutter ==
    ASSUME UNCHANGED <<ring, waits, answer>>
    PROVE  UNCHANGED Abstract!vars
BY DEF ring, Abstract!vars, Queue, Used, Oldest, Wrap
-----------------------------------------------------------------------------
\* The steps of the driver.

\* The jobs after a step.
LEMMA JobsFactsNext ==
    ASSUME TypeOK'
    PROVE  Jobs' \in Seq(Operation) /\ Len(Jobs') = Used'
<1>1. /\ Used' \in 0 .. Capacity /\ listStart' \in 0 .. Capacity - 1
      /\ operations' \in [Slots -> Operation] /\ Capacity \in Nat
  <2>1. /\ listAvailable' \in 0 .. Capacity /\ Capacity \in Nat
        /\ listStart' \in 0 .. Capacity - 1
        /\ operations' \in [Slots -> Operation]
    BY RingAssumption DEF TypeOK, Slots
  <2>2. PICK n \in 0 .. Capacity : n = listAvailable'
    BY <2>1
  <2>3. Capacity - n \in 0 .. Capacity
    BY RingAssumption
  <2> QED BY <2>1, <2>2, <2>3 DEF Used
<1>2. Jobs' = [i \in 1 .. Used' |-> operations'[Wrap(listStart' + i - 1)]]
  BY DEF Jobs, Wrap
<1>3. \A i \in 1 .. Used' : Wrap(listStart' + i - 1) \in Slots
  <2>1. PICK a \in 0 .. Capacity - 1, n \in 0 .. Capacity :
          a = listStart' /\ n = Used'
    BY <1>1
  <2>2. \A i \in 1 .. n : Wrap(a + i - 1) \in Slots
    BY RingAssumption DEF Wrap, Slots
  <2> QED BY <2>1, <2>2
<1>4. \A i \in 1 .. Used' : operations'[Wrap(listStart' + i - 1)] \in Operation
  BY <1>1, <1>3
<1>5. PICK n \in Nat : n = Used'
  BY <1>1
<1> DEFINE K == Jobs'
<1> HIDE DEF K
<1>6. /\ K = [i \in 1 .. n |-> K[i]]
      /\ \A i \in 1 .. n : K[i] \in Operation
  BY <1>2, <1>4, <1>5 DEF K
<1>7. K \in Seq(Operation) /\ Len(K) = n
  BY <1>6
<1> QED BY <1>5, <1>7 DEF K

\* What the client of the oldest job has got so far.
LEMMA GotNext ==
    ASSUME TypeOK'
    PROVE  /\ Used' = 0 => Got' = 0
           /\ Used' > 0 => Got' = Jobs'[1].intermediate
<1>1. listStart' \in Slots /\ Used' \in Nat
  <2>1. listAvailable' \in 0 .. Capacity /\ Capacity \in Nat /\ listStart' \in Slots
    BY RingAssumption DEF TypeOK
  <2>2. PICK n \in 0 .. Capacity : n = listAvailable'
    BY <2>1
  <2>3. Capacity - n \in Nat
    BY RingAssumption
  <2> QED BY <2>1, <2>2, <2>3 DEF Used
<1>2. Used' = 0 => Got' = 0
  BY DEF Got
<1>3. ASSUME Used' > 0
      PROVE  Got' = Jobs'[1].intermediate
  <2>1. Oldest' = Jobs'[1]
    BY <1>1, <1>3, OldestNext
  <2>2. Got' = Oldest'.intermediate
    BY <1>1, <1>3 DEF Got
  <2> QED BY <2>1, <2>2
<1> QED BY <1>2, <1>3

\* A request from outside a callback, unless the ring has no room for it.
LEMMA SubmitRefines ==
    ASSUME HdInv, HdInv', NEW c \in Clients, NEW op \in Ops, NEW len \in Nat,
           op \notin {"READ", "WRITE"} => len = 0,
           waits[c] = "none", Submit(c, op, len)
    PROVE  Abstract!Request \/ UNCHANGED Abstract!vars
<1> DEFINE es == Entries(c, op, len)
           js == JobsOf(es)
<1>1. TypeOK /\ RingInv /\ TypeOK' /\ Jobs \in Seq(Operation) /\ Len(Jobs) = Used
      /\ Used \in Nat
  <2>1. TypeOK /\ RingInv /\ TypeOK'
    BY DEF HdInv
  <2> QED BY <2>1, JobsFacts
<1>2. Request(es, c, op) /\ es \in Seq(Operation) /\ Len(es) \in Nat \ {0}
  BY EntriesAreRequest
<1>3. CASE ~(Len(es) <= listAvailable)
  <2>1. UNCHANGED <<ring, waits, answer>>
    BY <1>3 DEF Submit, Asserting, clients
  <2> QED BY <2>1, IsStutter
<1>4. CASE Len(es) <= listAvailable
  <2>1. /\ operations' = Enqueued(es) /\ listEnd' = Wrap(listEnd + Len(es))
        /\ listAvailable' = listAvailable - Len(es) /\ listStart' = listStart
        /\ waits' = [waits EXCEPT ![c] = op]
        /\ answer' = [answer EXCEPT ![c] = 0]
    BY <1>4 DEF Submit, Asserting
  <2> HIDE DEF es
  <2>2. Jobs' = Jobs \o es /\ Used' = Used + Len(es)
    BY <1>1, <1>2, <1>4, <2>1, RequestedJobs
  <2>3. /\ Abstract!IsRequest(js) /\ js[1].client = c
        /\ js \in Seq(Abstract!Job)
    BY <1>2, RequestOf
  <2>4. Queue' = Queue \o js /\ Queue \in Seq(Abstract!Job)
    <3>1. JobsOf(Jobs \o es) = JobsOf(Jobs) \o JobsOf(es)
      BY <1>1, <1>2, JobsOfConcat
    <3>2. JobsOf(Jobs) \in Seq(Abstract!Job)
      BY <1>1, JobsOfFacts
    <3> QED BY <3>1, <3>2, <2>2, QueueIsJobs
  <2>5. c \notin Pending /\ Pending' = Pending \cup {c}
    BY <1>1, <2>1 DEF Pending, TypeOK, Ops
  <2>6. Got' = Got
    <3>1. Used' > 0 /\ Got' = Jobs'[1].intermediate
      BY <1>1, <1>2, <2>2, GotNext
    <3>2. /\ 1 \in 1 .. Len(Jobs) + Len(es)
          /\ (Jobs \o es)[1] = IF 1 <= Used THEN Jobs[1] ELSE es[1 - Used]
      <4>1. PICK J \in Seq(Operation) : J = Jobs
        BY <1>1
      <4>2. \A i \in 1 .. Len(J) + Len(es) :
              (J \o es)[i] = IF i <= Len(J) THEN J[i] ELSE es[i - Len(J)]
        BY <1>2, ConcatProperties
      <4>3. 1 \in 1 .. Len(J) + Len(es)
        BY <1>1, <1>2, <4>1
      <4> QED BY <4>1, <4>2, <4>3, <1>1
    <3>3. CASE Used = 0
      <4>1. Jobs'[1] = es[1]
        BY <3>2, <3>3, <2>2
      <4>2. es[1].intermediate = 0
        BY <1>2 DEF Request
      <4> QED BY <4>1, <4>2, <3>1, <3>3 DEF Got
    <3>4. CASE Used > 0
      <4>1. Jobs'[1] = Jobs[1] /\ Oldest = Jobs[1]
        BY <3>2, <3>4, <2>2, <1>1, JobsFacts
      <4> QED BY <4>1, <3>1, <3>4, <1>1 DEF Got
    <3> QED BY <3>3, <3>4, <1>1
  <2> HIDE DEF js
  <2> QED BY <2>1, <2>3, <2>4, <2>5, <2>6, IsRequestStep
<1> QED BY <1>3, <1>4

\* A part is done and hands its result to the next one.
LEMMA PartProcessedRefines ==
    ASSUME HdInv, HdInv', PartProcessed
    PROVE  Abstract!Advance \/ UNCHANGED Abstract!vars
<1>1. /\ TypeOK /\ RingInv /\ Queued(Jobs, waits) /\ TypeOK'
      /\ phase = "processed" /\ Used > 0 /\ ~Oldest.last
  BY DEF HdInv, PhaseInv, PartProcessed, At
<1>2. CASE hd.state # "IDLE"
  <2>1. UNCHANGED <<ring, waits, answer>>
    BY <1>2 DEF PartProcessed, Asserting, clients
  <2> QED BY <2>1, IsStutter
<1>3. CASE hd.state = "IDLE"
  <2>1. /\ operations' =
             [operations EXCEPT ![Wrap(listStart + 1)].intermediate = Total]
        /\ listAvailable' = listAvailable + 1 /\ listEnd' = listEnd
        /\ listStart' = Wrap(listStart + 1)
        /\ waits' = waits /\ answer' = answer
    BY <1>3 DEF PartProcessed, Asserting, clients
  <2>2. Used > 1 /\ Total \in Nat
    BY <1>1, OldestFacts DEF TypeOK, Total
  <2>3. /\ Used' = Used - 1
        /\ \A i \in 1 .. Used - 1 : Jobs'[i] =
             IF i = 1 THEN [Jobs[2] EXCEPT !.intermediate = Total] ELSE Jobs[i + 1]
    BY <1>1, <2>1, <2>2, PartJobs
  <2>4. /\ Jobs \in Seq(Operation) /\ Len(Jobs) = Used /\ Used \in Nat
        /\ Jobs # <<>> /\ Oldest = Jobs[1] /\ Jobs[2] \in Operation
    <3>1. /\ Jobs \in Seq(Operation) /\ Len(Jobs) = Used /\ Used \in Nat
          /\ Jobs # <<>> /\ Oldest = Jobs[1]
      BY <1>1, JobsFacts
    <3> QED BY <3>1, <2>2, ElementOfSeq
  <2>5. Jobs' \in Seq(Operation) /\ Len(Jobs') = Used - 1
    <3>1. TypeOK' => Jobs' \in Seq(Operation) /\ Len(Jobs') = Used'
      BY JobsFactsNext
    <3> QED BY <3>1, <1>1, <2>3
  <2>6. \A i \in 1 .. Used - 1 : JobOf(Jobs'[i]) = JobOf(Jobs[i + 1])
    <3>1. JobOf([Jobs[2] EXCEPT !.intermediate = Total]) = JobOf(Jobs[2])
      BY <2>4 DEF JobOf, Operation
    <3>2. ASSUME NEW i \in 1 .. Used - 1
          PROVE  JobOf(Jobs'[i]) = JobOf(Jobs[i + 1])
      <4>1. CASE i = 1
        <5>1. Jobs'[1] = [Jobs[2] EXCEPT !.intermediate = Total] /\ 1 + 1 = 2
          BY <4>1, <3>2, <2>3
        <5> QED BY <5>1, <3>1, <4>1
      <4>2. CASE i # 1
        BY <4>2, <2>3
      <4> QED BY <4>1, <4>2
    <3> QED BY <3>2
  <2>7. /\ Queue' = Tail(Queue) /\ Queue # <<>> /\ Head(Queue) = JobOf(Oldest)
    <3>1. PICK J \in Seq(Operation), K \in Seq(Operation) : J = Jobs /\ K = Jobs'
      BY <2>4, <2>5
    <3>2. /\ J # <<>> /\ Len(K) = Len(J) - 1
          /\ \A i \in 1 .. Len(J) - 1 : JobOf(K[i]) = JobOf(J[i + 1])
      BY <2>4, <2>5, <2>6, <3>1
    <3>3. /\ JobsOf(K) = Tail(JobsOf(J)) /\ JobsOf(J) # <<>>
          /\ Head(JobsOf(J)) = JobOf(J[1])
      BY <3>2, JobsOfTail
    <3> QED BY <3>1, <3>3, <2>4, QueueIsJobs
  <2>8. ~Head(Queue).last /\ result \in Abstract!Results(Head(Queue))
    <3>1. /\ JobOf(Oldest).op = Oldest.op /\ JobOf(Oldest).len = Oldest.len
          /\ JobOf(Oldest).last = Oldest.last
      BY DEF JobOf
    <3>2. result \in IF Oldest.op \in {"READ", "WRITE"} THEN 0 .. Oldest.len
                     ELSE {0, 1}
      BY <1>1 DEF HdInv, PhaseInv
    <3> QED BY <3>1, <3>2, <2>7, <1>1 DEF Abstract!Results
  <2>9. Got' = Got + result
    <3>1. Used' > 0 /\ Got' = Jobs'[1].intermediate
      BY <1>1, <2>2, <2>3, <2>4, GotNext
    <3>2. Jobs'[1] = [Jobs[2] EXCEPT !.intermediate = Total]
      BY <2>2, <2>3, <2>4
    <3>3. Jobs'[1].intermediate = Total
      BY <3>2, <2>4 DEF Operation
    <3>4. Got = Oldest.intermediate /\ Oldest.intermediate \in Nat /\ result \in Nat
      BY <1>1, OldestFacts DEF Got, TypeOK
    <3> QED BY <3>1, <3>3, <3>4 DEF Total
  <2> QED BY <2>1, <2>7, <2>8, <2>9, IsAdvanceStep DEF Pending
<1> QED BY <1>2, <1>3
\* The oldest job leaves the ring and its client is answered.
LEMMA FinishedRefines ==
    ASSUME HdInv, HdInv', phase = "processed", Oldest.last,
           NEW es \in Seq(Operation), Len(es) <= listAvailable,
           Finished(es), Answers, NEW op,
           waits' = [waits EXCEPT ![Oldest.client] = op],
           \/ es = <<>> /\ op = "none"
           \/ Request(es, Oldest.client, op) /\ op \in Ops
    PROVE  Abstract!Answer
<1> DEFINE js == JobsOf(es)
           c == Oldest.client
<1>1. /\ TypeOK /\ RingInv /\ Queued(Jobs, waits) /\ TypeOK' /\ Used > 0
  BY DEF HdInv, PhaseInv
<1>2. /\ Jobs \in Seq(Operation) /\ Jobs # <<>> /\ Tail(Jobs) \in Seq(Operation)
      /\ Len(Jobs) = Used /\ Used \in Nat /\ DOMAIN Jobs = 1 .. Used
      /\ DOMAIN Tail(Jobs) = 1 .. Used - 1 /\ Len(Tail(Jobs)) = Used - 1
      /\ \A i \in 1 .. Used - 1 : Tail(Jobs)[i] = Jobs[i + 1]
      /\ Oldest = Jobs[1]
  BY <1>1, TailJobs, JobsFacts, HeadTailProperties
<1>3. Jobs' = Tail(Jobs) \o es
  BY <1>1, FinishJobs
<1>4. /\ Oldest.client \in Clients /\ Oldest.op \in Ops /\ Oldest.len \in Nat
      /\ Oldest.intermediate \in Nat /\ waits[c] # "none" /\ result \in Nat
  BY <1>1, OldestFacts DEF TypeOK, Ops
<1>5. js \in Seq(Abstract!Job)
  BY JobsOfFacts
<1>6. /\ Queue \in Seq(Abstract!Job) /\ Queue # <<>> /\ Queue' = Tail(Queue) \o js
      /\ Head(Queue) = JobOf(Oldest)
  <2>1. PICK J \in Seq(Operation), T \in Seq(Operation) : J = Jobs /\ T = Tail(Jobs)
    BY <1>2
  <2>2. /\ J # <<>> /\ Len(T) = Len(J) - 1
        /\ \A i \in 1 .. Len(J) - 1 : JobOf(T[i]) = JobOf(J[i + 1])
    BY <1>2, <2>1
  <2>3. /\ JobsOf(T) = Tail(JobsOf(J)) /\ JobsOf(J) # <<>>
        /\ Head(JobsOf(J)) = JobOf(J[1])
    BY <2>2, JobsOfTail
  <2>4. JobsOf(T \o es) = JobsOf(T) \o js /\ JobsOf(J) \in Seq(Abstract!Job)
    BY JobsOfConcat, JobsOfFacts
  <2> HIDE DEF js
  <2> QED BY <2>1, <2>3, <2>4, <1>2, <1>3, QueueIsJobs
<1>7. /\ Head(Queue).last /\ Head(Queue).client = c
      /\ result \in Abstract!Results(Head(Queue))
  <2>1. /\ JobOf(Oldest).op = Oldest.op /\ JobOf(Oldest).len = Oldest.len
        /\ JobOf(Oldest).last = Oldest.last /\ JobOf(Oldest).client = c
    BY DEF JobOf
  <2>2. result \in IF Oldest.op \in {"READ", "WRITE"} THEN 0 .. Oldest.len
                   ELSE {0, 1}
    BY <1>1 DEF HdInv, PhaseInv
  <2> QED BY <2>1, <2>2, <1>6 DEF Abstract!Results
<1>8. answer' = [answer EXCEPT ![c] = Got + result]
  <2>1. Got = Oldest.intermediate
    BY <1>1, <1>2 DEF Got
  <2>2. Total = Got + result
    BY <2>1, <1>4 DEF Total
  <2> QED BY <2>2 DEF Answers
<1>9. Got' = 0
  <2>1. CASE Used' = 0
    BY <2>1, <1>1, GotNext
  <2>2. CASE Used' > 0
    <3>1. Got' = Jobs'[1].intermediate /\ Len(Jobs') = Used' /\ Used' \in Nat
      BY <2>2, <1>1, GotNext, JobsFactsNext, LenProperties
    <3>2. PICK T \in Seq(Operation) : T = Tail(Jobs)
      BY <1>2
    <3>3. /\ Len(T \o es) = Len(T) + Len(es) /\ Len(T) \in Nat /\ Len(es) \in Nat
          /\ \A i \in 1 .. Len(T) + Len(es) :
               (T \o es)[i] = IF i <= Len(T) THEN T[i] ELSE es[i - Len(T)]
      BY ConcatProperties, LenProperties
    <3>4. Len(T) + Len(es) > 0 /\ Jobs'[1] = (T \o es)[1]
      BY <2>2, <3>1, <3>2, <3>3, <1>3
    <3>5. CASE Len(T) = 0
      <4>1. (T \o es)[1] = es[1] /\ Len(es) > 0
        BY <3>3, <3>4, <3>5
      <4>2. es # <<>>
        BY <4>1
      <4>3. es[1].intermediate = 0
        BY <4>1, <4>2, <3>3 DEF Request
      <4> QED BY <4>1, <4>3, <3>1, <3>4
    <3>6. CASE Len(T) > 0
      <4>1. (T \o es)[1] = T[1] /\ 1 \in 1 .. Used - 1 /\ 2 \in DOMAIN Jobs
        BY <3>2, <3>3, <3>6, <1>2
      <4>2. T[1] = Jobs[2]
        <5>1. Tail(Jobs)[1] = Jobs[1 + 1] /\ 1 + 1 = 2
          BY <4>1, <1>2
        <5> QED BY <5>1, <3>2
      <4>3. Jobs[2].intermediate = 0
        BY <4>1, <1>1 DEF Queued, NothingBefore
      <4> QED BY <4>1, <4>2, <4>3, <3>1, <3>4
    <3> QED BY <3>3, <3>5, <3>6
  <2>3. Used' \in Nat
    BY <1>1, JobsFactsNext, LenProperties
  <2> QED BY <2>1, <2>2, <2>3
<1>10. \/ js = <<>> /\ Pending' = Pending \ {c}
       \/ Abstract!IsRequest(js) /\ js[1].client = c /\ Pending' = Pending
  <2>1. waits \in [Clients -> Ops \cup {"none"}]
    BY <1>1 DEF TypeOK
  <2>2. CASE es = <<>> /\ op = "none"
    <3>1. js = <<>>
      <4>1. DOMAIN js = {}
        BY <2>2 DEF JobsOf
      <4>2. Len(js) = 0
        BY <2>2, JobsOfFacts, EmptySeq
      <4> QED BY <4>2, <1>5, EmptySeq
    <3>2. Pending' = Pending \ {c}
      BY <2>1, <2>2, <1>4 DEF Pending
    <3> QED BY <3>1, <3>2
  <2>3. CASE Request(es, c, op) /\ op \in Ops
    <3>1. Abstract!IsRequest(js) /\ js[1].client = c
      BY <2>3, RequestOf
    <3>2. Pending' = Pending
      BY <2>1, <2>3, <1>4 DEF Pending, Ops
    <3> QED BY <3>1, <3>2
  <2> QED BY <2>2, <2>3
<1> HIDE DEF js
<1> QED BY <1>5, <1>6, <1>7, <1>8, <1>9, <1>10, IsAnswerStep
\* A callback that makes no request.
LEMMA CalledBackRefines ==
    ASSUME HdInv, HdInv', LastProgramLoaded \/ \E t \in Threads : SyscallDone(t)
    PROVE  Abstract!Answer \/ UNCHANGED Abstract!vars
<1>1. PICK c \in Clients :
        /\ CallsBack(c)
        /\ \/ UNCHANGED <<ring, waits, answer>>
           \/ Finished(<<>>) /\ Answers /\ waits' = [waits EXCEPT ![c] = "none"]
  <2>1. CASE LastProgramLoaded
    <3>1. Loader \in Clients
      BY DEF Clients
    <3> QED BY <3>1, <2>1 DEF LastProgramLoaded, Asserting, clients
  <2>2. ASSUME NEW t \in Threads, SyscallDone(t)
        PROVE  /\ CallsBack(t)
               /\ \/ UNCHANGED <<ring, waits, answer>>
                  \/ /\ Finished(<<>>) /\ Answers
                     /\ waits' = [waits EXCEPT ![t] = "none"]
    BY <2>2 DEF SyscallDone, Asserting, clients
  <2> QED BY <2>1, <2>2 DEF Clients
<1>2. phase = "processed" /\ Oldest.last /\ Oldest.client = c /\ TypeOK
  BY <1>1 DEF CallsBack, At, HdInv
<1>3. CASE UNCHANGED <<ring, waits, answer>>
  BY <1>3, IsStutter
<1>4. CASE Finished(<<>>) /\ Answers /\ waits' = [waits EXCEPT ![c] = "none"]
  <2>1. <<>> \in Seq(Operation) /\ Len(<<>>) <= listAvailable
    BY <1>2, NoEntries
  <2> QED BY <2>1, <1>2, <1>4, FinishedRefines
<1> QED BY <1>1, <1>3, <1>4

\* The loader is called back and makes its next request from the callback.
LEMMA LoaderGoesOnRefines ==
    ASSUME HdInv, HdInv', CallsBack(Loader), NEW op \in {"OPEN", "READ"},
           NEW len \in Nat, op = "OPEN" => len = 0, LoaderGoesOn(op, len)
    PROVE  Abstract!Answer \/ UNCHANGED Abstract!vars
<1> DEFINE es == Entries(Loader, op, len)
           C == Len(es) <= listAvailable /\ hd.state = "IDLE"
<1>1. phase = "processed" /\ Oldest.last /\ Oldest.client = Loader /\ op \in Ops
  BY DEF CallsBack, At, Ops
<1>2. Request(es, Loader, op) /\ es \in Seq(Operation)
  BY <1>1, EntriesAreRequest DEF Clients
<1>3. CASE C
  <2>1. /\ Finished(es) /\ Answers /\ waits' = [waits EXCEPT ![Loader] = op]
        /\ Len(es) <= listAvailable
    BY <1>3 DEF LoaderGoesOn, Asserting
  <2> HIDE DEF es
  <2> QED BY <2>1, <1>1, <1>2, FinishedRefines
<1>4. CASE ~C
  <2>1. UNCHANGED <<ring, waits, answer>>
    BY <1>4 DEF LoaderGoesOn, Asserting, clients
  <2> QED BY <2>1, IsStutter
<1> QED BY <1>3, <1>4

\* All other steps.
LEMMA OthersStutter ==
    ASSUME NextRequest \/ HdInterrupt \/ DeviceTransfers \/ InterruptAccepted
             \/ ProgramMissing \/ UNCHANGED vars
    PROVE  UNCHANGED Abstract!vars
<1>1. UNCHANGED <<ring, waits, answer>>
  BY DEF NextRequest, StartRead, StartWrite, StartOpen, StartClose, HdInterrupt,
         DeviceTransfers, InterruptAccepted, ProgramMissing, Asserting, LeftTo,
         DoneBy, vars, clients
<1> QED BY <1>1, IsStutter

\* Every step is one of the queue or changes nothing of it.
LEMMA NextRefines ==
    ASSUME HdInv, HdInv', [Next]_vars
    PROVE  [Abstract!Next]_(Abstract!vars)
<1>1. CASE Boot
  <2>1. /\ waits[Loader] = "none" /\ Loader \in Clients /\ "OPEN" \in Ops
        /\ Submit(Loader, "OPEN", 0)
    BY <1>1 DEF Boot, At, HdInv, PhaseInv, Clients, Ops
  <2>2. Abstract!Request \/ UNCHANGED Abstract!vars
    BY <2>1, SubmitRefines
  <2> QED BY <2>2 DEF Abstract!Next
<1>2. ASSUME NEW t \in Threads, Syscall(t)
      PROVE  [Abstract!Next]_(Abstract!vars)
  <2>1. waits[t] = "none" /\ t \in Clients
    BY <1>2, SyscallIsRequest
  <2>2. PICK op \in Ops, len \in Nat :
          /\ op \notin {"READ", "WRITE"} => len = 0
          /\ Submit(t, op, len)
    BY <1>2, SyscallIsRequest
  <2>3. Abstract!Request \/ UNCHANGED Abstract!vars
    BY <2>1, <2>2, SubmitRefines
  <2> QED BY <2>3 DEF Abstract!Next
<1>3. CASE PartProcessed
  BY <1>3, PartProcessedRefines DEF Abstract!Next
<1>4. CASE ProgramOpened
  <2>1. PICK len \in LoadLens : LoaderGoesOn("READ", len)
    BY <1>4 DEF ProgramOpened
  <2>2. len \in Nat /\ CallsBack(Loader)
    BY <1>4, LengthAssumption DEF ProgramOpened
  <2>3. Abstract!Answer \/ UNCHANGED Abstract!vars
    BY <2>1, <2>2, LoaderGoesOnRefines
  <2> QED BY <2>3 DEF Abstract!Next
<1>5. CASE ProgramLoaded
  <2>1. CallsBack(Loader) /\ LoaderGoesOn("OPEN", 0)
    BY <1>5 DEF ProgramLoaded
  <2>2. Abstract!Answer \/ UNCHANGED Abstract!vars
    BY <2>1, LoaderGoesOnRefines
  <2> QED BY <2>2 DEF Abstract!Next
<1>6. CASE LastProgramLoaded \/ \E t \in Threads : SyscallDone(t)
  BY <1>6, CalledBackRefines DEF Abstract!Next
<1>7. CASE NextRequest \/ HdInterrupt \/ DeviceTransfers \/ InterruptAccepted
             \/ ProgramMissing \/ UNCHANGED vars
  BY <1>7, OthersStutter
<1> QED BY <1>1, <1>2, <1>3, <1>4, <1>5, <1>6, <1>7
        DEF Next, KernelStep, RequestProcessed, LoaderDone, Halted

\* The initial ring is the empty queue.
LEMMA InitRefines == Init => Abstract!Init
<1> SUFFICES ASSUME Init PROVE Abstract!Init
  OBVIOUS
<1>1. Used = 0
  BY RingAssumption DEF Init, Used
<1>2. Queue = <<>>
  BY <1>1 DEF Queue
<1> QED BY <1>1, <1>2 DEF Init, Abstract!Init

-----------------------------------------------------------------------------
\* The driver serves the requests first come first served: whatever the sizes
\* of the ring, the sectors and the requests, each request is answered once, to
\* its client, with the sum of what its jobs may have moved, and a client has
\* at most one request in the ring.
THEOREM DriverImplementsQueue == Spec => ImplementsQueue
<1>1. Init => Abstract!Init
  BY InitRefines
<1>2. HdInv /\ HdInv' /\ [Next]_vars => [Abstract!Next]_(Abstract!vars)
  BY NextRefines
<1> QED BY <1>1, <1>2, HdInvHolds, PTL DEF Spec, ImplementsQueue, Abstract!Spec
=============================================================================
