------------------------------ MODULE HdQueue -------------------------------
(***************************************************************************)
(* What the hd driver of the kernel promises: a queue of requests, each    *)
(* cut into jobs of at most one sector, served first come first served.    *)
(* Every request is answered once, to the client that made it, with the    *)
(* sum of what its jobs moved; a client may make its next request from     *)
(* inside the answer of the former one.                                    *)
(***************************************************************************)
EXTENDS Naturals, Sequences

CONSTANT
    Clients     \* those that make requests

VARIABLES
    queue,      \* jobs not finished, oldest first
    got,        \* what the finished jobs of the oldest request moved
    pending,    \* clients whose request is not answered
    answer      \* the answer of a client's last request, 0 before

vars == <<queue, got, pending, answer>>

JobOps == {"OPEN", "READ", "WRITE", "CLOSE"}

Job == [client : Clients, op : JobOps, len : Nat, last : BOOLEAN]

\* What a job may answer: the bytes moved, or whether it succeeded.
Results(job) == IF job.op \in {"READ", "WRITE"} THEN 0 .. job.len ELSE {0, 1}

\* The jobs of one request: all of one client and one operation, and the
\* last one marked.
IsRequest(jobs) ==
    /\ jobs \in Seq(Job)
    /\ jobs # <<>>
    /\ \A i \in DOMAIN jobs :
         /\ jobs[i].client = jobs[1].client
         /\ jobs[i].op = jobs[1].op
         /\ jobs[i].last <=> i = Len(jobs)

\* What a step appends to q.
Appended(q) == SubSeq(queue', Len(q) + 1, Len(queue'))

Init ==
    /\ queue = <<>>
    /\ got = 0
    /\ pending = {}
    /\ answer = [c \in Clients |-> 0]

\* A client that waits for nothing makes a request.
Request ==
    LET jobs == Appended(queue) IN
    /\ IsRequest(jobs)
    /\ jobs[1].client \notin pending
    /\ queue' = queue \o jobs
    /\ pending' = pending \cup {jobs[1].client}
    /\ answer' = [answer EXCEPT ![jobs[1].client] = 0]
    /\ UNCHANGED got

\* A job that is not the last of its request is finished.
Advance ==
    /\ queue # <<>>
    /\ ~Head(queue).last
    /\ queue' = Tail(queue)
    /\ \E r \in Results(Head(queue)) : got' = got + r
    /\ UNCHANGED <<pending, answer>>

\* The last job of a request is finished; its client may go on with a next
\* request at once.
Answer ==
    LET client == Head(queue).client
        more == Appended(Tail(queue))
    IN
    /\ queue # <<>>
    /\ Head(queue).last
    /\ queue' = Tail(queue) \o more
    /\ got' = 0
    /\ \E r \in Results(Head(queue)) :
         answer' = [answer EXCEPT ![client] = got + r]
    /\ \/ more = <<>> /\ pending' = pending \ {client}
       \/ IsRequest(more) /\ more[1].client = client /\ UNCHANGED pending

Next == Request \/ Advance \/ Answer

Spec == Init /\ [][Next]_vars
=============================================================================
