---------------------------- MODULE Kernel_proofs ----------------------------
(***************************************************************************)
(* Theorems about Kernel, for every size of its tables, every number of    *)
(* programs, parts of a transfer and keys: the safety properties the run   *)
(* kernel checks.                                                          *)
(***************************************************************************)
EXTENDS Kernel, TLAPS, FiniteSetTheorems, WellFoundedInduction

\* A handler has saved the registers of the active thread and put it in
\* another state than running.
InHandler == phase \in {"hd_next", "schedule"}

\* Until then the active thread runs with its own registers; after it the
\* global area and the thread have the same ones.
EntryInv ==
    IF InHandler
    THEN /\ saved = context[active]
         /\ \A p \in Slots : thread[p] # "RUNNING"
    ELSE /\ active \in occupied
         /\ regs = Fresh(active)
         /\ \A p \in Slots : thread[p] = "RUNNING" <=> p = active

\* The idle process stays; a thread that is ready has been answered, one
\* that is blocked has not; an empty slot holds no blocked thread.
ThreadsInv ==
    /\ Idle \in occupied
    /\ thread[Idle] \in {"READY", "RUNNING"}
    /\ \A p \in Slots \ occupied : thread[p] \in {"EMPTY", "READY"}
    /\ \A p \in Slots :
         /\ thread[p] = "READY" => context[p] = Fresh(p)
         /\ thread[p] \in FileStates \cup {"BLOCKED_KB"} =>
              context[p] = [of |-> p, asked |-> TRUE]

OneJobEach ==
    \A i, j \in DOMAIN jobs : jobs[i].slot = jobs[j].slot => i = j

JobsMatch ==
    \A i \in DOMAIN jobs :
        /\ jobs[i].slot \in occupied
        /\ thread[jobs[i].slot] =
             IF jobs[i].op \in FileStates THEN jobs[i].op ELSE "EMPTY"
        /\ jobs[i].op = "CLOSE" => opened[jobs[i].slot] > 0

BlockedHaveJobs ==
    \A p \in Slots : thread[p] \in FileStates =>
        \E i \in DOMAIN jobs : jobs[i].slot = p

BuffersMatch ==
    \A p \in Slots : p \in buffers <=> thread[p] \in {"READ", "WRITE"}

\* Who waits for the keyboard is the reader of the programs' window or was
\* replaced, and not both.
ReadersMatch ==
    /\ \A w \in 0 .. Windows - 1 :
           readers[w] # NoSlot => /\ w = ProgramWindow
                                  /\ thread[readers[w]] = "BLOCKED_KB"
                                  /\ readers[w] \notin replaced
    /\ \A p \in replaced : thread[p] = "BLOCKED_KB"
    /\ \A p \in Slots :
           thread[p] = "BLOCKED_KB" =>
               p \in replaced \/ \E w \in 0 .. Windows - 1 : readers[w] = p

\* The request a thread waits for, its buffer, and the reader of a window.
WaitsInv ==
    OneJobEach /\ JobsMatch /\ BlockedHaveJobs /\ BuffersMatch /\ ReadersMatch

\* A finished transfer is announced in exactly one place, and the driver has
\* a transfer in the device whenever it has a request.
DiskInv ==
    /\ hdMust \/ pending = "hd" \/ phase = "hd" <=> hd = "finished"
    /\ ~(hdMust /\ pending = "hd")
    /\ ~(hdMust /\ phase = "hd")
    /\ ~(pending = "hd" /\ phase = "hd")
    /\ phase = "hd_next" => hd = "idle"
    /\ phase # "hd_next" => (jobs = <<>> <=> hd = "idle")
    /\ hd # "idle" => Head(jobs).op \in Transfers

KeyInv == key # NoKey => kbMust \/ pending = "keyboard" \/ phase = "keyboard"

KernelInv ==
    KernelTypeOK /\ EntryInv /\ ThreadsInv /\ WaitsInv /\ DiskInv /\ KeyInv

-----------------------------------------------------------------------------
\* Lemmas about slots and queues.
LEMMA SlotFacts ==
    /\ Idle \in Slots /\ 1 \in ProgramSlots /\ NoSlot \notin Slots
    /\ ProgramSlots = Slots \ {Idle}
    /\ ProgramWindow \in 0 .. Windows /\ KernelWindow \in 0 .. Windows
    /\ 0 .. Windows - 1 \subseteq 0 .. Windows
    /\ ProgramWindow # KernelWindow
    /\ Slots \subseteq Nat
  BY TableAssumption, SizeAssumption
  DEF Idle, ProgramSlots, NoSlot, Slots, ProgramWindow, KernelWindow

\* What is left of a queue without its first element.
LEMMA QueueTail ==
    ASSUME NEW S, NEW q \in Seq(S), q # <<>>
    PROVE  /\ Head(q) = q[1] /\ 1 \in DOMAIN q /\ Head(q) \in S
           /\ Tail(q) \in Seq(S)
           /\ \A i \in DOMAIN Tail(q) : i + 1 \in DOMAIN q /\ Tail(q)[i] = q[i + 1]
           /\ \A i \in DOMAIN q : i # 1 => i - 1 \in DOMAIN Tail(q)
                                           /\ Tail(q)[i - 1] = q[i]
           /\ DOMAIN q \subseteq Nat
  OBVIOUS

\* A queue with an element at its end.
LEMMA QueueAppend ==
    ASSUME NEW S, NEW q \in Seq(S), NEW e \in S
    PROVE  /\ Append(q, e) \in Seq(S)
           /\ Append(q, e) # <<>>
           /\ DOMAIN Append(q, e) = DOMAIN q \cup {Len(q) + 1}
           /\ Len(q) + 1 \notin DOMAIN q
           /\ \A i \in DOMAIN q : Append(q, e)[i] = q[i]
           /\ Append(q, e)[Len(q) + 1] = e
           /\ q # <<>> => Head(Append(q, e)) = Head(q)
           /\ q = <<>> => Head(Append(q, e)) = e
  OBVIOUS

\* The registers of a slot, before and after an answer.
LEMMA FreshType ==
    /\ \A p \in Slots \cup {NoSlot} : Fresh(p) \in Registers
    /\ KernelRegisters \in Registers
    /\ \A r \in Registers : Answer(r) \in Registers
    /\ \A p \in Slots : /\ [of |-> p, asked |-> TRUE] \in Registers
                        /\ Answer([of |-> p, asked |-> TRUE]) = Fresh(p)
    /\ \A p \in Slots : regs = Fresh(p) => Asked = [of |-> p, asked |-> TRUE]
  <1>1. \A p \in Slots \cup {NoSlot} : Fresh(p) \in Registers
    BY DEF Fresh, Registers
  <1>2. KernelRegisters \in Registers
    BY <1>1 DEF KernelRegisters
  <1>3. \A r \in Registers : Answer(r) \in Registers
    BY DEF Registers, Answer
  <1>4. \A p \in Slots : [of |-> p, asked |-> TRUE] \in Registers
    BY DEF Registers
  <1>5. \A p \in Slots : Answer([of |-> p, asked |-> TRUE]) = Fresh(p)
    BY DEF Fresh, Answer
  <1>6. \A p \in Slots : regs = Fresh(p) => Asked = [of |-> p, asked |-> TRUE]
    BY DEF Fresh, Asked
  <1> QED
    BY <1>1, <1>2, <1>3, <1>4, <1>5, <1>6

\* Every request is of a program's slot that is in use.
LEMMA JobFacts ==
    ASSUME KernelInv
    PROVE  /\ jobs \in Seq(Job)
           /\ \A i \in DOMAIN jobs : /\ jobs[i] \in Job
                                     /\ jobs[i].slot \in ProgramSlots
                                     /\ jobs[i].slot \in Slots
                                     /\ jobs[i].slot \in occupied
  <1>1. jobs \in Seq(Job)
    BY DEF KernelInv, KernelTypeOK
  <1>2. \A i \in DOMAIN jobs : jobs[i] \in Job
    BY <1>1
  <1>3. \A job \in Job : job.slot \in ProgramSlots
    BY DEF Job
  <1>4. \A i \in DOMAIN jobs : jobs[i].slot \in occupied
    BY DEF KernelInv, WaitsInv, JobsMatch
  <1> QED
    BY <1>1, <1>2, <1>3, <1>4 DEF ProgramSlots

\* Whoever does not begin or stop to wait for the keyboard leaves the readers
\* alone.
LEMMA ReadersStay ==
    ASSUME KernelInv, UNCHANGED <<readers, replaced>>,
           \A p \in Slots : thread'[p] = "BLOCKED_KB" <=> thread[p] = "BLOCKED_KB"
    PROVE  ReadersMatch'
  <1>1. /\ replaced \subseteq Slots
        /\ \A w \in 0 .. Windows - 1 : readers[w] # NoSlot => readers[w] \in Slots
    BY SlotFacts DEF KernelInv, KernelTypeOK
  <1> QED
    BY <1>1 DEF KernelInv, WaitsInv, ReadersMatch

-----------------------------------------------------------------------------
\* A cycle of the devices keeps the invariant: who loses asks again.
LEMMA IoKeeps ==
    ASSUME KernelInv, Io
    PROVE  KernelInv'
  <1>1. PICK typed \in Keys \cup {NoKey}, finishes \in BOOLEAN,
             timerAsks \in BOOLEAN : IoCycle(typed, finishes, timerAsks)
    BY DEF Io
  <1>2. KernelTypeOK'
    <2>1. kbMust' \in BOOLEAN /\ hdMust' \in BOOLEAN
      BY <1>1 DEF IoCycle, AsksAgain
    <2>2. pending' \in Codes \cup {"none"}
      BY <1>1 DEF KernelInv, KernelTypeOK, IoCycle, Winner, Codes
    <2>3. /\ key' \in Keys \cup {NoKey}
          /\ hd' \in {"idle", "busy", "finished"}
          /\ keysLeft' \in 0 .. MaxKeys
      BY <1>1, SizeAssumption DEF KernelInv, KernelTypeOK, IoCycle
    <2> QED
      BY <1>1, <2>1, <2>2, <2>3 DEF KernelInv, KernelTypeOK, IoCycle, scheduling,
         resources
  <1>3. EntryInv' /\ ThreadsInv' /\ WaitsInv'
    BY <1>1 DEF KernelInv, EntryInv, ThreadsInv, WaitsInv, IoCycle, scheduling,
       resources, InHandler, OneJobEach, JobsMatch, BlockedHaveJobs,
       BuffersMatch, ReadersMatch
  <1>4. DiskInv'
    BY <1>1 DEF KernelInv, KernelTypeOK, DiskInv, IoCycle, resources, Winner
  <1>5. KeyInv'
    BY <1>1 DEF KernelInv, KernelTypeOK, KeyInv, IoCycle, resources, Winner,
       AsksAgain
  <1> QED
    BY <1>2, <1>3, <1>4, <1>5 DEF KernelInv

\* So does taking an interrupt,
LEMMA TakeInterruptKeeps ==
    ASSUME KernelInv, TakeInterrupt
    PROVE  KernelInv'
  <1> USE DEF KernelInv, TakeInterrupt, At, scheduling, resources
  <1>1. KernelTypeOK'
    BY DEF KernelTypeOK
  <1>2. EntryInv' /\ ThreadsInv'
    BY DEF KernelTypeOK, EntryInv, InHandler, ThreadsInv, Codes
  <1>3. WaitsInv'
    BY DEF WaitsInv, OneJobEach, JobsMatch, BlockedHaveJobs, BuffersMatch,
       ReadersMatch
  <1>4. DiskInv' /\ KeyInv'
    BY DEF KernelTypeOK, DiskInv, KeyInv, Codes
  <1> QED
    BY <1>1, <1>2, <1>3, <1>4

\* skipping that of the timer,
LEMMA SkipTimerKeeps ==
    ASSUME KernelInv, SkipTimer
    PROVE  KernelInv'
  <1> USE DEF KernelInv, SkipTimer, scheduling, resources
  <1>1. KernelTypeOK'
    BY DEF KernelTypeOK
  <1>2. EntryInv' /\ ThreadsInv'
    BY DEF EntryInv, InHandler, ThreadsInv
  <1>3. WaitsInv'
    BY DEF WaitsInv, OneJobEach, JobsMatch, BlockedHaveJobs, BuffersMatch,
       ReadersMatch
  <1>4. DiskInv' /\ KeyInv'
    BY DEF DiskInv, KeyInv
  <1> QED
    BY <1>1, <1>2, <1>3, <1>4

\* and stopping.
LEMMA StopKeeps ==
    ASSUME KernelInv, NEW why \in {"panic", "null_reader", "overrun"}, Stop(why)
    PROVE  KernelInv'
  <1> USE DEF KernelInv, Stop, scheduling, resources, devices
  <1>1. KernelTypeOK'
    BY DEF KernelTypeOK
  <1>2. EntryInv' /\ ThreadsInv'
    BY DEF EntryInv, InHandler, ThreadsInv
  <1>3. WaitsInv'
    BY DEF WaitsInv, OneJobEach, JobsMatch, BlockedHaveJobs, BuffersMatch,
       ReadersMatch
  <1>4. DiskInv' /\ KeyInv'
    BY DEF DiskInv, KeyInv
  <1> QED
    BY <1>1, <1>2, <1>3, <1>4

-----------------------------------------------------------------------------
(***************************************************************************)
(* The scheduler.                                                          *)
(***************************************************************************)
\* A set of natural numbers has a least one.
LEMMA LeastNatural ==
    ASSUME NEW T, T \subseteq Nat, T # {}
    PROVE  \E n \in T : \A m \in T : n <= m
  <1> DEFINE R == {ss \in Nat \X Nat : ss[1] < ss[2]}
  <1>1. IsWellFoundedOn(R, Nat)
    BY NatLessThanWellFounded DEF OpToRel
  <1>2. PICK n \in T : \A m \in T : ~(<<m, n>> \in R)
    <2> HIDE DEF R
    <2> QED
      BY <1>1, WFMin
  <1>3. ASSUME NEW m \in T, m < n PROVE FALSE
    BY <1>2, <1>3
  <1> QED
    BY <1>2, <1>3

\* The scheduler chooses a thread that is ready, or else the idle one.
LEMMA ScheduledIsReady ==
    ASSUME KernelInv
    PROVE  Scheduled = Idle \/ (Scheduled \in Slots /\ Runnable(Scheduled))
  <1> SUFFICES ASSUME NEW r \in Slots, Runnable(r)
               PROVE  Scheduled \in Slots /\ Runnable(Scheduled)
    BY DEF Scheduled
  <1> DEFINE T == {Distance(p) : p \in {q \in Slots : Runnable(q)}}
  <1>1. T \subseteq Nat
    <2> SUFFICES ASSUME NEW q \in Slots PROVE Distance(q) \in Nat
      OBVIOUS
    <2>1. q \in Int /\ last \in Int /\ MaxProcess \in Int /\ MaxProcess > 0
      BY TableAssumption DEF KernelInv, KernelTypeOK, Slots
    <2>2. q + MaxProcess - last - 1 \in Int
      BY <2>1
    <2> QED
      BY <2>1, <2>2 DEF Distance
  <1>2. PICK n \in T : \A m \in T : n <= m
    <2>1. T # {}
      OBVIOUS
    <2> HIDE DEF T
    <2> QED
      BY <1>1, <2>1, LeastNatural
  <1>3. PICK p \in Slots : Runnable(p) /\ n = Distance(p)
    OBVIOUS
  <1>4. \A q \in Slots : Runnable(q) => Distance(p) <= Distance(q)
    BY <1>2, <1>3
  <1> QED
    BY <1>3, <1>4 DEF Scheduled

\* The thread that is resumed has been answered, and gets its registers.
LEMMA ScheduleKeeps ==
    ASSUME KernelInv, Schedule
    PROVE  KernelInv'
  <1> USE SlotFacts, FreshType DEF KernelInv
  <1>1. PICK p \in Slots : p = Scheduled /\ p \in occupied /\ thread[p] = "READY"
    BY ScheduledIsReady DEF Runnable, ThreadsInv, EntryInv, InHandler, Schedule, At
  <1>2. phase = "schedule" /\ context[p] = Fresh(p)
    BY <1>1 DEF ThreadsInv, Schedule, At
  <1>3. /\ thread' = [thread EXCEPT ![p] = "RUNNING"]
        /\ active' = p /\ last' = p /\ phase' = "user"
        /\ regs' = Fresh(p) /\ saved' = Fresh(p)
        /\ UNCHANGED <<occupied, context, resources, stopped, devices>>
    BY <1>1, <1>2 DEF Schedule, Resume, EntryInv, InHandler
  <1> USE DEF resources, devices
  <1>4. KernelTypeOK'
    BY <1>1, <1>3 DEF KernelTypeOK, ThreadStates
  <1>5. EntryInv'
    BY <1>1, <1>2, <1>3 DEF KernelTypeOK, EntryInv, InHandler
  <1>10. ThreadsInv'
    BY <1>1, <1>2, <1>3 DEF KernelTypeOK, ThreadsInv, FileStates
  <1>6. OneJobEach' /\ BlockedHaveJobs' /\ BuffersMatch'
    BY <1>1, <1>3, ZenonT(60) DEF KernelTypeOK, WaitsInv, OneJobEach, BlockedHaveJobs,
       BuffersMatch, FileStates
  <1>7. JobsMatch'
    BY <1>1, <1>3 DEF KernelTypeOK, WaitsInv, JobsMatch, FileStates, Job
  <1>8. ReadersMatch'
    BY <1>1, <1>3, ReadersStay DEF KernelTypeOK
  <1>9. DiskInv' /\ KeyInv'
    BY <1>2, <1>3 DEF DiskInv, KeyInv
  <1> QED
    BY <1>4, <1>5, <1>6, <1>7, <1>8, <1>9, <1>10 DEF WaitsInv

-----------------------------------------------------------------------------
(***************************************************************************)
(* Entering the kernel.                                                    *)
(***************************************************************************)
SchedulingTypes ==
    /\ occupied \subseteq Slots
    /\ thread \in [Slots -> ThreadStates]
    /\ context \in [Slots -> Registers]
    /\ saved \in Registers
    /\ regs \in Registers
    /\ active \in Slots
    /\ last \in Slots

\* Nobody but its own registers waits for the thread that runs.
LEMMA ActiveIsFree ==
    ASSUME KernelInv, ~InHandler
    PROVE  /\ active \in Slots /\ active \in occupied
           /\ regs = Fresh(active) /\ regs \in Registers
           /\ thread[active] = "RUNNING"
           /\ \A p \in Slots : p # active => thread[p] # "RUNNING"
           /\ active \notin buffers
           /\ \A i \in DOMAIN jobs : jobs[i].slot # active
           /\ \A w \in 0 .. Windows - 1 : readers[w] # active
  <1> USE DEF KernelInv
  <1>1. /\ active \in Slots /\ active \in occupied
        /\ regs = Fresh(active) /\ regs \in Registers
        /\ thread[active] = "RUNNING"
        /\ \A p \in Slots : p # active => thread[p] # "RUNNING"
    BY DEF KernelTypeOK, EntryInv
  <1>2. active \notin buffers
    BY <1>1 DEF WaitsInv, BuffersMatch
  <1>3. \A i \in DOMAIN jobs : jobs[i].slot # active
    BY <1>1 DEF WaitsInv, JobsMatch, FileStates
  <1>4. \A w \in 0 .. Windows - 1 : readers[w] # active
    BY <1>1, SlotFacts DEF WaitsInv, ReadersMatch
  <1> QED
    BY <1>1, <1>2, <1>3, <1>4

\* What a handler that leaves the active thread in state s keeps.
LEMMA EnteredKeeps ==
    ASSUME KernelInv, ~InHandler, InHandler', UNCHANGED <<active, last>>,
           NEW s \in FileStates \cup {"READY", "BLOCKED_KB"},
           NEW r, Entered(active, s, r, r),
           \/ s = "READY" /\ r = Fresh(active)
           \/ s # "READY" /\ r = [of |-> active, asked |-> TRUE] /\ active # Idle,
           \/ UNCHANGED occupied
           \/ occupied' = occupied \ {active} /\ s = "READY" /\ active # Idle
    PROVE  /\ SchedulingTypes' /\ EntryInv' /\ ThreadsInv'
           /\ thread'[active] = s
           /\ \A p \in Slots : p # active => thread'[p] = thread[p]
  <1> USE SlotFacts, FreshType, ActiveIsFree DEF KernelInv, Entered
  <1>1. SchedulingTypes'
    BY ZenonT(60) DEF KernelTypeOK, SchedulingTypes, ThreadStates, FileStates
  <1>2. /\ thread'[active] = s
        /\ \A p \in Slots : p # active => thread'[p] = thread[p]
    BY DEF KernelTypeOK
  <1>3. /\ context'[active] = r
        /\ \A p \in Slots : p # active => context'[p] = context[p]
    BY DEF KernelTypeOK
  <1>4. EntryInv'
    BY <1>2, <1>3 DEF EntryInv, FileStates
  <1>5. ThreadsInv'
    <2>1. Idle \in occupied' /\ thread'[Idle] \in {"READY", "RUNNING"}
      BY <1>2 DEF ThreadsInv
    <2>2. \A p \in Slots \ occupied' : thread'[p] \in {"EMPTY", "READY"}
      BY <1>2 DEF ThreadsInv
    <2>3. ASSUME NEW p \in Slots
          PROVE  /\ thread'[p] = "READY" => context'[p] = Fresh(p)
                 /\ thread'[p] \in FileStates \cup {"BLOCKED_KB"} =>
                      context'[p] = [of |-> p, asked |-> TRUE]
      <3>1. CASE p = active
        BY <1>2, <1>3, <3>1 DEF FileStates
      <3>2. CASE p # active
        BY <1>2, <1>3, <3>2 DEF ThreadsInv
      <3> QED
        BY <3>1, <3>2
    <2> QED
      BY <2>1, <2>2, <2>3 DEF ThreadsInv, Fresh
  <1> QED
    BY <1>1, <1>2, <1>4, <1>5

\* A thread that enters the kernel and stays ready was awaited by nobody.
LEMMA ReadyKeepsWaits ==
    ASSUME KernelInv, ~InHandler, thread'[active] = "READY",
           \A p \in Slots : p # active => thread'[p] = thread[p],
           UNCHANGED <<jobs, opened, readers, replaced, buffers>>,
           occupied' \in {occupied, occupied \ {active}}
    PROVE  WaitsInv'
  <1> USE SlotFacts, ActiveIsFree DEF KernelInv
  <1>0. jobs' = jobs /\ opened' = opened /\ readers' = readers
    OBVIOUS
  <1>1. OneJobEach'
    BY DEF WaitsInv, OneJobEach
  <1>2. JobsMatch'
    <2>1. \A i \in DOMAIN jobs :
            jobs[i].slot \in Slots /\ jobs[i].slot \in occupied
      BY DEF KernelTypeOK, Job, WaitsInv, JobsMatch
    <2>2. \A i \in DOMAIN jobs :
            /\ jobs[i].slot \in occupied'
            /\ thread'[jobs[i].slot] = thread[jobs[i].slot]
      BY <2>1
    <2> QED
      BY <1>0, <2>2 DEF WaitsInv, JobsMatch
  <1>3. BlockedHaveJobs' /\ BuffersMatch'
    BY DEF WaitsInv, BlockedHaveJobs, BuffersMatch, FileStates
  <1>4. ReadersMatch'
    BY ReadersStay
  <1> QED
    BY <1>1, <1>2, <1>3, <1>4 DEF WaitsInv

\* An interrupt that ends in the scheduler.
LEMMA InterruptedKeeps ==
    ASSUME KernelInv, Interrupted, phase \in {"timer", "keyboard"},
           phase' = "schedule",
           UNCHANGED <<occupied, active, last, opened, readers, buffers, jobs,
                       loading, replaced, stopped, pending, hd, hdMust, keysLeft>>,
           focus' \in 0 .. Windows, kbUsed' \in [Slots -> 0 .. KbSize - 1],
           key' \in Keys \cup {NoKey}, kbMust' \in BOOLEAN, KeyInv'
    PROVE  KernelInv'
  <1>1. ~InHandler /\ InHandler'
    BY DEF InHandler
  <1>2. regs = Fresh(active)
    BY <1>1, ActiveIsFree
  <1>3. /\ SchedulingTypes' /\ EntryInv' /\ ThreadsInv'
        /\ thread'[active] = "READY"
        /\ \A p \in Slots : p # active => thread'[p] = thread[p]
    BY <1>1, <1>2, EnteredKeeps DEF Interrupted
  <1>4. WaitsInv'
    BY <1>1, <1>3, ReadyKeepsWaits
  <1>5. KernelTypeOK'
    BY <1>3 DEF KernelInv, KernelTypeOK, SchedulingTypes
  <1>6. DiskInv'
    BY DEF KernelInv, DiskInv
  <1> QED
    BY <1>3, <1>4, <1>5, <1>6 DEF KernelInv

\* The timer only sends the kernel to the scheduler.
LEMMA TimerInterruptKeeps ==
    ASSUME KernelInv, TimerInterrupt
    PROVE  KernelInv'
  <1>1. KeyInv'
    BY DEF KernelInv, KeyInv, TimerInterrupt, At, devices
  <1>2. /\ focus' \in 0 .. Windows /\ kbUsed' \in [Slots -> 0 .. KbSize - 1]
        /\ key' \in Keys \cup {NoKey} /\ kbMust' \in BOOLEAN
    BY DEF KernelInv, KernelTypeOK, TimerInterrupt, resources, devices
  <1> QED
    BY <1>1, <1>2, InterruptedKeeps DEF TimerInterrupt, At, resources, devices

\* So do a key that is discarded,
LEMMA KeyDiscardedKeeps ==
    ASSUME KernelInv, KeyDiscarded
    PROVE  KernelInv'
  <1>1. KeyInv'
    BY DEF KeyInv, KeyDiscarded, KeyRead
  <1>2. /\ focus' \in 0 .. Windows /\ kbUsed' \in [Slots -> 0 .. KbSize - 1]
        /\ key' \in Keys \cup {NoKey} /\ kbMust' \in BOOLEAN
    BY DEF KernelInv, KernelTypeOK, KeyDiscarded, KeyRead
  <1> QED
    BY <1>1, <1>2, InterruptedKeeps DEF KeyDiscarded, KeyRead, At

\* one that moves the focus, within the windows,
LEMMA KeyMovesFocusKeeps ==
    ASSUME KernelInv, KeyMovesFocus
    PROVE  KernelInv'
  <1>1. KeyInv'
    BY DEF KeyInv, KeyMovesFocus, KeyRead
  <1>2. /\ focus' \in 0 .. Windows /\ kbUsed' \in [Slots -> 0 .. KbSize - 1]
        /\ key' \in Keys \cup {NoKey} /\ kbMust' \in BOOLEAN
    BY DEF KernelInv, KernelTypeOK, KeyMovesFocus, KeyRead
  <1> QED
    BY <1>1, <1>2, InterruptedKeeps DEF KeyMovesFocus, KeyRead, At

\* A keyboard buffer keeps room for its final zero.
LEMMA BufferEdits ==
    ASSUME NEW n \in 0 .. KbSize - 1
    PROVE  Added(n) \in 0 .. KbSize - 1 /\ Erased(n) \in 0 .. KbSize - 1
  BY SizeAssumption DEF Added, Erased

\* and one that edits the buffer of the reader.
LEMMA KeyEditsKeeps ==
    ASSUME KernelInv, KeyEdits
    PROVE  KernelInv'
  <1>1. PICK k \in {"char", "backspace"} :
          /\ KeyRead(k)
          /\ kbUsed' = [kbUsed EXCEPT ![Reader] =
                           IF k = "char" THEN Added(@) ELSE Erased(@)]
    BY DEF KeyEdits
  <1>2. KeyInv'
    BY <1>1 DEF KeyInv, KeyRead
  <1>3. kbUsed' \in [Slots -> 0 .. KbSize - 1]
    BY <1>1, BufferEdits DEF KernelInv, KernelTypeOK
  <1>4. focus' \in 0 .. Windows /\ key' \in Keys \cup {NoKey} /\ kbMust' \in BOOLEAN
    BY <1>1 DEF KernelInv, KernelTypeOK, KeyEdits, KeyRead
  <1> QED
    BY <1>1, <1>2, <1>3, <1>4, InterruptedKeeps DEF KeyEdits, KeyRead, At

-----------------------------------------------------------------------------
(***************************************************************************)
(* System calls.                                                           *)
(***************************************************************************)
\* What a system call finds.
LEMMA UserEntry ==
    ASSUME KernelInv, UserRuns
    PROVE  /\ ~InHandler /\ active # Idle /\ active \in ProgramSlots
           /\ phase = "user" /\ stopped = "no" /\ pending = "none"
           /\ Asked = [of |-> active, asked |-> TRUE]
           /\ Answer(Asked) = Fresh(active)
  <1>1. ~InHandler /\ active # Idle /\ phase = "user" /\ stopped = "no"
        /\ pending = "none"
    BY DEF UserRuns, At, InHandler
  <1> QED
    BY <1>1, ActiveIsFree, FreshType, SlotFacts

\* The slot a program is killed in holds no thread that waits.
LEMMA KillActiveKeeps ==
    ASSUME KernelInv, KillActive
    PROVE  KernelInv'
  <1> USE UserEntry DEF KillActive, resources, devices
  <1>1. InHandler'
    BY DEF InHandler
  <1>2. /\ SchedulingTypes' /\ EntryInv' /\ ThreadsInv'
        /\ thread'[active] = "READY"
        /\ \A p \in Slots : p # active => thread'[p] = thread[p]
    BY <1>1, ActiveIsFree, EnteredKeeps DEF Interrupted
  <1>3. WaitsInv'
    BY <1>2, ReadyKeepsWaits
  <1>4. KernelTypeOK'
    BY <1>2 DEF KernelInv, KernelTypeOK, SchedulingTypes
  <1>5. DiskInv' /\ KeyInv'
    BY DEF KernelInv, DiskInv, KeyInv
  <1> QED
    BY <1>2, <1>3, <1>4, <1>5 DEF KernelInv

\* A call that is answered at once.
LEMMA SyscallAnsweredKeeps ==
    ASSUME KernelInv, SyscallAnswered
    PROVE  KernelInv'
  <1> USE UserEntry DEF SyscallAnswered, resources, devices
  <1>1. InHandler'
    BY DEF InHandler
  <1>2. /\ SchedulingTypes' /\ EntryInv' /\ ThreadsInv'
        /\ thread'[active] = "READY"
        /\ \A p \in Slots : p # active => thread'[p] = thread[p]
    BY <1>1, ActiveIsFree, EnteredKeeps DEF Returns
  <1>3. WaitsInv'
    BY <1>2, ReadyKeepsWaits
  <1>4. KernelTypeOK'
    BY <1>2 DEF KernelInv, KernelTypeOK, SchedulingTypes
  <1>5. DiskInv' /\ KeyInv'
    BY DEF KernelInv, DiskInv, KeyInv
  <1> QED
    BY <1>2, <1>3, <1>4, <1>5 DEF KernelInv

\* A reader of the keyboard blocks and its window points to it.
LEMMA SyscallReadKeyboardKeeps ==
    ASSUME KernelInv, SyscallReadKeyboard
    PROVE  KernelInv'
  <1>a. CASE ~HasEntry(ProgramWindow)
    BY <1>a, StopKeeps DEF SyscallReadKeyboard
  <1> SUFFICES ASSUME HasEntry(ProgramWindow) PROVE KernelInv'
    BY <1>a
  <1>b. /\ UserRuns /\ Blocks("BLOCKED_KB") /\ phase' = "schedule"
        /\ readers' = [readers EXCEPT ![ProgramWindow] = active]
        /\ replaced' = replaced \cup ({readers[ProgramWindow]} \ {NoSlot})
        /\ UNCHANGED <<occupied, active, last, opened, focus, kbUsed, buffers,
                       jobs, loading, stopped, pending, hd, hdMust, key, kbMust,
                       keysLeft>>
    BY DEF SyscallReadKeyboard, devices
  <1> USE <1>b, UserEntry, SlotFacts
  <1>0. ProgramWindow \in 0 .. Windows - 1
    BY DEF KernelInv, KernelTypeOK, HasEntry
  <1>1. InHandler'
    BY DEF InHandler
  <1>2. /\ SchedulingTypes' /\ EntryInv' /\ ThreadsInv'
        /\ thread'[active] = "BLOCKED_KB"
        /\ \A p \in Slots : p # active => thread'[p] = thread[p]
    BY <1>1, EnteredKeeps DEF Blocks
  <1>3. /\ readers' \in [0 .. Windows - 1 -> ProgramSlots \cup {NoSlot}]
        /\ readers'[ProgramWindow] = active
        /\ \A w \in 0 .. Windows - 1 : w # ProgramWindow => readers'[w] = readers[w]
    BY <1>0 DEF KernelInv, KernelTypeOK
  <1>4. OneJobEach'
    BY DEF KernelInv, WaitsInv, OneJobEach
  <1>5. JobsMatch'
    BY <1>2, ActiveIsFree DEF KernelInv, KernelTypeOK, Job, WaitsInv, JobsMatch
  <1>6. BlockedHaveJobs' /\ BuffersMatch'
    BY <1>2, ActiveIsFree DEF KernelInv, WaitsInv, BlockedHaveJobs,
       BuffersMatch, FileStates
  <1>9. /\ replaced' = replaced \cup ({readers[ProgramWindow]} \ {NoSlot})
        /\ readers[ProgramWindow] \in ProgramSlots \cup {NoSlot}
        /\ replaced \subseteq ProgramSlots
    BY <1>0 DEF KernelInv, KernelTypeOK
  <1>10. /\ replaced' = replaced \cup ({readers[ProgramWindow]} \ {NoSlot})
         /\ replaced \subseteq ProgramSlots /\ replaced' \subseteq ProgramSlots
    <2> HIDE <1>b, UserEntry, SlotFacts
    <2> QED
      BY <1>9
  <1>11. active \notin replaced
    BY ActiveIsFree DEF KernelInv, WaitsInv, ReadersMatch
  <1>7. ReadersMatch'
    <2>1. ASSUME NEW w \in 0 .. Windows - 1, readers'[w] # NoSlot
          PROVE  /\ w = ProgramWindow
                 /\ thread'[readers'[w]] = "BLOCKED_KB"
                 /\ readers'[w] \notin replaced'
      BY <1>2, <1>3, <1>10, <1>11, <2>1, ActiveIsFree DEF KernelInv, WaitsInv,
         ReadersMatch
    <2>2. ASSUME NEW p \in replaced'
          PROVE  thread'[p] = "BLOCKED_KB"
      <3>1. p \in Slots /\ thread[p] = "BLOCKED_KB"
        BY <1>0, <1>10 DEF KernelInv, WaitsInv, ReadersMatch
      <3> QED
        BY <1>2, <3>1
    <2>3. ASSUME NEW p \in Slots, thread'[p] = "BLOCKED_KB"
          PROVE  p \in replaced' \/ \E w \in 0 .. Windows - 1 : readers'[w] = p
      <3>1. CASE p = active
        BY <1>0, <1>3, <3>1
      <3>2. CASE p # active
        <4>1. p \in replaced \/ \E w \in 0 .. Windows - 1 : readers[w] = p
          BY <1>2, <2>3, <3>2 DEF KernelInv, WaitsInv, ReadersMatch
        <4> QED
          BY <1>0, <1>3, <1>10, <4>1
      <3> QED
        BY <3>1, <3>2
    <2> QED
      BY <2>1, <2>2, <2>3 DEF ReadersMatch
  <1>8. KernelTypeOK'
    BY <1>2, <1>3, <1>10 DEF KernelInv, KernelTypeOK, SchedulingTypes
  <1>12. DiskInv' /\ KeyInv'
    BY DEF KernelInv, DiskInv, KeyInv
  <1> QED
    BY <1>2, <1>4, <1>5, <1>6, <1>7, <1>8, <1>12 DEF KernelInv, WaitsInv

\* A thread that blocks in a file operation puts its request in the queue.
LEMMA RequestKeeps ==
    ASSUME KernelInv, UserRuns, NEW op \in FileStates, NEW n \in 0 .. MaxParts,
           Blocks(op), Requests([slot |-> active, op |-> op, left |-> n]),
           UNCHANGED <<occupied, active, last, readers, focus, kbUsed, loading, replaced,
                       stopped, devices>>,
           opened' \in [Slots -> 0 .. MaxFiles],
           \A p \in Slots : p # active => opened'[p] = opened[p],
           op = "CLOSE" => opened'[active] > 0,
           buffers' = IF op \in {"READ", "WRITE"} THEN buffers \cup {active}
                      ELSE buffers
    PROVE  KernelInv'
  <1> USE UserEntry, SlotFacts DEF devices
  <1> DEFINE job == [slot |-> active, op |-> op, left |-> n]
  <1>1. InHandler'
    BY DEF InHandler, Requests
  <1>2. /\ SchedulingTypes' /\ EntryInv' /\ ThreadsInv'
        /\ thread'[active] = op
        /\ \A p \in Slots : p # active => thread'[p] = thread[p]
    BY <1>1, EnteredKeeps DEF Blocks, FileStates
  <1>3. job \in Job /\ job.slot = active /\ job.op = op
    BY DEF Job, FileStates, Transfers
  <1>4. jobs \in Seq(Job)
    BY DEF KernelInv, KernelTypeOK
  <1>5. /\ jobs' = Append(jobs, job) /\ jobs' \in Seq(Job) /\ jobs' # <<>>
        /\ DOMAIN jobs' = DOMAIN jobs \cup {Len(jobs) + 1}
        /\ Len(jobs) + 1 \notin DOMAIN jobs
        /\ \A i \in DOMAIN jobs : jobs'[i] = jobs[i]
        /\ jobs'[Len(jobs) + 1] = job
        /\ jobs # <<>> => Head(jobs') = Head(jobs)
    <2> HIDE DEF job
    <2>1. jobs' = Append(jobs, job)
      BY DEF Requests, job
    <2> QED
      BY <1>3, <1>4, <2>1, QueueAppend
  <1> HIDE DEF job
  <1>6. OneJobEach'
    BY <1>3, <1>5, ActiveIsFree DEF KernelInv, WaitsInv, OneJobEach
  <1>7. JobsMatch'
    <2>1. \A i \in DOMAIN jobs : /\ jobs[i].slot \in Slots
                                 /\ jobs[i].slot # active
      BY ActiveIsFree, JobFacts
    <2>2. \A i \in DOMAIN jobs :
            /\ jobs[i].slot \in occupied
            /\ thread'[jobs[i].slot] =
                 IF jobs[i].op \in FileStates THEN jobs[i].op ELSE "EMPTY"
            /\ jobs[i].op = "CLOSE" => opened'[jobs[i].slot] > 0
      BY <1>2, <2>1 DEF KernelInv, WaitsInv, JobsMatch
    <2>3. active \in occupied'
      BY ActiveIsFree
    <2>4. occupied' = occupied
      OBVIOUS
    <2>5. ASSUME NEW i \in DOMAIN jobs'
          PROVE  /\ jobs'[i].slot \in occupied'
                 /\ thread'[jobs'[i].slot] =
                     IF jobs'[i].op \in FileStates THEN jobs'[i].op ELSE "EMPTY"
                 /\ jobs'[i].op = "CLOSE" => opened'[jobs'[i].slot] > 0
      <3>1. CASE i \in DOMAIN jobs
        BY <1>5, <2>2, <2>4, <3>1
      <3>2. CASE i = Len(jobs) + 1
        BY <1>2, <1>3, <1>5, <2>3, <3>2
      <3> QED
        BY <1>5, <3>1, <3>2
    <2> QED
      BY <2>5 DEF JobsMatch
  <1>8. BlockedHaveJobs'
    BY <1>2, <1>3, <1>5 DEF KernelInv, WaitsInv, BlockedHaveJobs
  <1>9. BuffersMatch'
    BY <1>2, ActiveIsFree DEF KernelInv, WaitsInv, BuffersMatch
  <1>10. ReadersMatch'
    BY <1>2, ActiveIsFree, ReadersStay DEF FileStates
  <1>11. KernelTypeOK'
    BY <1>2, <1>5 DEF KernelInv, KernelTypeOK, SchedulingTypes, Requests
  <1>12. DiskInv'
    BY <1>5 DEF KernelInv, DiskInv, Requests
  <1>13. KeyInv'
    BY DEF KernelInv, KeyInv
  <1> QED
    BY <1>2, <1>6, <1>7, <1>8, <1>9, <1>10, <1>11, <1>12, <1>13
    DEF KernelInv, WaitsInv

\* There is a buffer for every process that may block beside the active one.
LEMMA BufferIsFree ==
    ASSUME KernelInv, UserRuns
    PROVE  Cardinality(buffers) < Buffers
  <1>1. active \in ProgramSlots /\ buffers \subseteq ProgramSlots \ {active}
    BY UserEntry, ActiveIsFree DEF KernelInv, KernelTypeOK
  <1>2. ProgramSlots = 1 .. MaxProcess - 1
    BY TableAssumption DEF ProgramSlots, Slots, Idle
  <1>3. IsFiniteSet(ProgramSlots) /\ Cardinality(ProgramSlots) = MaxProcess - 1
    BY <1>2, FS_Interval, TableAssumption
  <1>4. /\ IsFiniteSet(ProgramSlots \ {active})
        /\ Cardinality(ProgramSlots \ {active}) = MaxProcess - 2
    BY <1>1, <1>3, FS_RemoveElement, TableAssumption
  <1>5. Cardinality(buffers) \in Nat /\ Cardinality(buffers) <= MaxProcess - 2
    BY <1>1, <1>4, FS_Subset, FS_CardinalityType
  <1> QED
    BY <1>5, BufferAssumption, TableAssumption

\* A read or a write always finds a buffer.
LEMMA SyscallTransferKeeps ==
    ASSUME KernelInv, NEW op \in {"READ", "WRITE"}, SyscallTransfer(op)
    PROVE  KernelInv'
  <1>1. Cardinality(buffers) < Buffers
    BY BufferIsFree DEF SyscallTransfer
  <1>2. PICK n \in 1 .. MaxParts :
             Requests([slot |-> active, op |-> op, left |-> n])
    BY <1>1 DEF SyscallTransfer
  <1>3. n \in 0 .. MaxParts /\ op \in FileStates
    BY SizeAssumption DEF FileStates
  <1>4. opened' \in [Slots -> 0 .. MaxFiles] /\ opened' = opened
    BY <1>1 DEF SyscallTransfer, KernelInv, KernelTypeOK
  <1> QED
    BY <1>1, <1>2, <1>3, <1>4, RequestKeeps DEF SyscallTransfer

\* An open takes an entry of the file table.
LEMMA SyscallOpenKeeps ==
    ASSUME KernelInv, SyscallOpen
    PROVE  KernelInv'
  <1>1. /\ opened' \in [Slots -> 0 .. MaxFiles]
        /\ \A p \in Slots : p # active => opened'[p] = opened[p]
    BY SizeAssumption DEF SyscallOpen, KernelInv, KernelTypeOK
  <1>2. 0 \in 0 .. MaxParts
    BY SizeAssumption
  <1> QED
    BY <1>1, <1>2, RequestKeeps DEF SyscallOpen, FileStates

\* A close is of a file that is open.
LEMMA SyscallCloseKeeps ==
    ASSUME KernelInv, SyscallClose
    PROVE  KernelInv'
  <1>1. opened' \in [Slots -> 0 .. MaxFiles] /\ opened' = opened
    BY DEF SyscallClose, KernelInv, KernelTypeOK
  <1>2. 0 \in 0 .. MaxParts
    BY SizeAssumption
  <1> QED
    BY <1>1, <1>2, RequestKeeps DEF SyscallClose, FileStates

\* process_allocate gives an empty slot, which is not the idle one.
LEMMA FirstFreeIsFree ==
    ASSUME KernelInv, FreeSlots # {}
    PROVE  FirstFree \in ProgramSlots /\ FirstFree \notin occupied
  <1>1. FreeSlots \subseteq Nat
    BY SlotFacts DEF FreeSlots
  <1>2. \E p \in FreeSlots : \A q \in FreeSlots : p <= q
    BY <1>1, LeastNatural
  <1>3. FirstFree \in FreeSlots
    BY <1>2 DEF FirstFree
  <1> QED
    BY <1>3, SlotFacts DEF FreeSlots, KernelInv, ThreadsInv

\* Nobody waits for a slot that is empty.
LEMMA FreeIsFree ==
    ASSUME KernelInv, NEW p \in Slots, p \notin occupied
    PROVE  /\ p # Idle /\ thread[p] \in {"EMPTY", "READY"}
           /\ p \notin buffers
           /\ \A i \in DOMAIN jobs : jobs[i].slot # p
  <1>1. p # Idle /\ thread[p] \in {"EMPTY", "READY"}
    BY DEF KernelInv, ThreadsInv
  <1>2. p \notin buffers
    BY <1>1 DEF KernelInv, WaitsInv, BuffersMatch
  <1>3. \A i \in DOMAIN jobs : jobs[i].slot # p
    BY DEF KernelInv, WaitsInv, JobsMatch
  <1> QED
    BY <1>1, <1>2, <1>3

\* The child and its parent are both ready with their own answers.
LEMMA SyscallForkKeeps ==
    ASSUME KernelInv, SyscallFork
    PROVE  KernelInv'
  <1> USE UserEntry, ActiveIsFree DEF devices
  <1>1. FreeSlots # {} /\ UserRuns
    BY DEF SyscallFork
  <1>2. PICK child \in ProgramSlots : child = FirstFree /\ child \notin occupied
    BY <1>1, FirstFreeIsFree
  <1>3. child \in Slots /\ child # active /\ child # Idle
    BY <1>1, <1>2, SlotFacts
  <1>4. /\ occupied' = occupied \cup {child}
        /\ thread' = [thread EXCEPT ![active] = "READY", ![child] = "READY"]
        /\ context' = [context EXCEPT ![active] = Fresh(active),
                                      ![child] = ChildRegisters(child)]
        /\ opened' = [opened EXCEPT ![child] = opened[active]]
        /\ kbUsed' = Cleared(kbUsed, child)
        /\ saved' = Fresh(active) /\ regs' = KernelRegisters
        /\ phase' = "schedule"
        /\ UNCHANGED <<active, last, readers, focus, buffers, jobs, loading,
                       replaced, stopped, devices>>
    BY <1>1, <1>2 DEF SyscallFork
  <1>5. ChildRegisters(child) = Fresh(child)
    BY <1>1 DEF ChildRegisters, Answer, Fresh
  <1>6. /\ thread' \in [Slots -> ThreadStates]
        /\ thread'[active] = "READY" /\ thread'[child] = "READY"
        /\ \A p \in Slots : p # active /\ p # child => thread'[p] = thread[p]
    BY <1>1, <1>3, <1>4 DEF KernelInv, KernelTypeOK, ThreadStates
  <1>7. /\ context' \in [Slots -> Registers]
        /\ context'[active] = Fresh(active) /\ context'[child] = Fresh(child)
        /\ \A p \in Slots : p # active /\ p # child => context'[p] = context[p]
    BY <1>1, <1>3, <1>4, <1>5, FreshType, ZenonT(60) DEF KernelInv, KernelTypeOK
  <1>8. /\ opened' \in [Slots -> 0 .. MaxFiles]
        /\ \A p \in Slots : p # child => opened'[p] = opened[p]
    BY <1>1, <1>3, <1>4 DEF KernelInv, KernelTypeOK
  <1>9. kbUsed' \in [Slots -> 0 .. KbSize - 1]
    BY <1>3, <1>4, SizeAssumption DEF KernelInv, KernelTypeOK, Cleared
  <1>10. saved' \in Registers /\ regs' \in Registers
    BY <1>1, <1>4, FreshType
  <1>11. KernelTypeOK'
    BY <1>3, <1>4, <1>6, <1>7, <1>8, <1>9, <1>10 DEF KernelInv, KernelTypeOK
  <1>12. EntryInv'
    BY <1>1, <1>3, <1>4, <1>6, <1>7 DEF KernelInv, EntryInv, InHandler
  <1>13. ThreadsInv'
    <2>1. Idle \in occupied' /\ thread'[Idle] \in {"READY", "RUNNING"}
      BY <1>1, <1>3, <1>4, <1>6, SlotFacts DEF KernelInv, ThreadsInv
    <2>2. \A p \in Slots \ occupied' : thread'[p] \in {"EMPTY", "READY"}
      BY <1>1, <1>4, <1>6 DEF KernelInv, ThreadsInv
    <2>3. \A p \in Slots :
            /\ thread'[p] = "READY" => context'[p] = Fresh(p)
            /\ thread'[p] \in FileStates \cup {"BLOCKED_KB"} =>
                 context'[p] = [of |-> p, asked |-> TRUE]
      BY <1>6, <1>7 DEF KernelInv, ThreadsInv, FileStates
    <2> QED
      BY <2>1, <2>2, <2>3 DEF ThreadsInv, Fresh
  <1>14. WaitsInv'
    <2>1. \A i \in DOMAIN jobs :
            /\ jobs[i].slot \in Slots /\ jobs[i].slot \in occupied
            /\ jobs[i].slot # active /\ jobs[i].slot # child
      BY <1>1, <1>2, <1>3, JobFacts, FreeIsFree
    <2>2. \A i \in DOMAIN jobs :
            /\ thread'[jobs[i].slot] = thread[jobs[i].slot]
            /\ opened'[jobs[i].slot] = opened[jobs[i].slot]
            /\ jobs[i].slot \in occupied'
      BY <1>4, <1>6, <1>8, <2>1
    <2>3. OneJobEach' /\ JobsMatch'
      BY <1>4, <2>2 DEF KernelInv, WaitsInv, OneJobEach, JobsMatch
    <2>4. BlockedHaveJobs'
      BY <1>4, <1>6 DEF KernelInv, WaitsInv, BlockedHaveJobs, FileStates
    <2>5. BuffersMatch'
      BY <1>1, <1>2, <1>3, <1>4, <1>6, FreeIsFree DEF KernelInv, WaitsInv, BuffersMatch
    <2>6. thread[child] # "BLOCKED_KB" /\ thread[active] # "BLOCKED_KB"
      BY <1>1, <1>2, <1>3, FreeIsFree
    <2>7. ReadersMatch'
      BY <1>4, <1>6, <2>6, ReadersStay
    <2> QED
      BY <2>3, <2>4, <2>5, <2>7 DEF WaitsInv
  <1>15. DiskInv' /\ KeyInv'
    BY <1>1, <1>4 DEF KernelInv, DiskInv, KeyInv
  <1> QED
    BY <1>11, <1>12, <1>13, <1>14, <1>15 DEF KernelInv

-----------------------------------------------------------------------------
(***************************************************************************)
(* The hd driver.                                                          *)
(***************************************************************************)
\* A driver without a request leaves the device idle.
LEMMA HdHasNothingKeeps ==
    ASSUME KernelInv, HdHasNothing
    PROVE  KernelInv'
  <1> USE DEF KernelInv, HdHasNothing, At, scheduling, resources, devices
  <1>1. KernelTypeOK'
    BY DEF KernelTypeOK
  <1>2. EntryInv' /\ ThreadsInv'
    BY DEF EntryInv, InHandler, ThreadsInv
  <1>3. WaitsInv'
    BY DEF WaitsInv, OneJobEach, JobsMatch, BlockedHaveJobs, BuffersMatch,
       ReadersMatch
  <1>4. DiskInv' /\ KeyInv'
    BY DEF DiskInv, KeyInv
  <1> QED
    BY <1>1, <1>2, <1>3, <1>4

\* A transfer begins in an idle device.
LEMMA HdStartsTransferKeeps ==
    ASSUME KernelInv, HdStartsTransfer
    PROVE  KernelInv'
  <1> USE DEF KernelInv, HdStartsTransfer, At, scheduling, resources
  <1>1. KernelTypeOK'
    BY DEF KernelTypeOK
  <1>2. EntryInv' /\ ThreadsInv'
    BY DEF EntryInv, InHandler, ThreadsInv
  <1>3. WaitsInv'
    BY DEF WaitsInv, OneJobEach, JobsMatch, BlockedHaveJobs, BuffersMatch,
       ReadersMatch
  <1>4. DiskInv' /\ KeyInv'
    BY DEF DiskInv, KeyInv
  <1> QED
    BY <1>1, <1>2, <1>3, <1>4

\* What is left of the queue once its oldest request is done.
LEMMA TailOfJobs ==
    ASSUME KernelInv, jobs # <<>>
    PROVE  /\ Head(jobs) = jobs[1] /\ 1 \in DOMAIN jobs
           /\ Tail(jobs) \in Seq(Job)
           /\ \A i \in DOMAIN Tail(jobs) :
                /\ Tail(jobs)[i].slot # Head(jobs).slot
                /\ \E k \in DOMAIN jobs : Tail(jobs)[i] = jobs[k]
           /\ \A i, j \in DOMAIN Tail(jobs) :
                Tail(jobs)[i].slot = Tail(jobs)[j].slot => i = j
           /\ \A k \in DOMAIN jobs :
                \/ jobs[k].slot = Head(jobs).slot
                \/ \E i \in DOMAIN Tail(jobs) : Tail(jobs)[i] = jobs[k]
  <1>1. /\ Head(jobs) = jobs[1] /\ 1 \in DOMAIN jobs
        /\ Tail(jobs) \in Seq(Job)
        /\ \A i \in DOMAIN Tail(jobs) : /\ i + 1 \in DOMAIN jobs
                                        /\ Tail(jobs)[i] = jobs[i + 1]
        /\ \A i \in DOMAIN jobs : i # 1 => /\ i - 1 \in DOMAIN Tail(jobs)
                                           /\ Tail(jobs)[i - 1] = jobs[i]
        /\ DOMAIN jobs \subseteq Nat
    BY QueueTail, JobFacts
  <1>2. DOMAIN Tail(jobs) \subseteq Nat /\ \A i \in DOMAIN Tail(jobs) : i # 0
    BY <1>1
  <1>3. \A i, j \in DOMAIN jobs : jobs[i].slot = jobs[j].slot => i = j
    BY DEF KernelInv, WaitsInv, OneJobEach
  <1>4. \A i \in DOMAIN Tail(jobs) : Tail(jobs)[i].slot # Head(jobs).slot
    BY <1>1, <1>2, <1>3
  <1>5. ASSUME NEW i \in DOMAIN Tail(jobs), NEW j \in DOMAIN Tail(jobs),
               Tail(jobs)[i].slot = Tail(jobs)[j].slot
        PROVE  i = j
    <2>1. i + 1 = j + 1
      BY <1>1, <1>3, <1>5
    <2> QED
      BY <1>2, <2>1
  <1> QED
    BY <1>1, <1>4, <1>5

\* The oldest request is done and its thread, in slot p, ready; the active
\* thread may have been interrupted.
LEMMA AnsweredKeepsWaits ==
    ASSUME KernelInv, jobs # <<>>, NEW p \in ProgramSlots, p = Head(jobs).slot,
           jobs' = Tail(jobs), thread'[p] = "READY",
           \A q \in Slots : \/ q = p \/ thread'[q] = thread[q]
                            \/ thread[q] = "RUNNING" /\ thread'[q] = "READY",
           \A q \in Slots : q # p => opened'[q] = opened[q],
           buffers' = buffers \ {p}, UNCHANGED <<occupied, readers, replaced>>
    PROVE  WaitsInv'
  <1>1. p \in Slots /\ thread[p] \in FileStates \cup {"EMPTY"}
    BY TailOfJobs, JobFacts DEF KernelInv, WaitsInv, JobsMatch
  <1>2. OneJobEach'
    BY TailOfJobs DEF OneJobEach
  <1>3. JobsMatch'
    <2>1. ASSUME NEW i \in DOMAIN Tail(jobs)
          PROVE  /\ Tail(jobs)[i].slot \in occupied
                 /\ thread'[Tail(jobs)[i].slot] =
                      IF Tail(jobs)[i].op \in FileStates THEN Tail(jobs)[i].op
                      ELSE "EMPTY"
                 /\ Tail(jobs)[i].op = "CLOSE" => opened'[Tail(jobs)[i].slot] > 0
      <3>1. PICK k \in DOMAIN jobs : Tail(jobs)[i] = jobs[k] /\ jobs[k].slot # p
        BY TailOfJobs
      <3>2. /\ jobs[k].slot \in Slots /\ jobs[k].slot \in occupied
            /\ thread[jobs[k].slot] =
                 IF jobs[k].op \in FileStates THEN jobs[k].op ELSE "EMPTY"
            /\ jobs[k].op = "CLOSE" => opened[jobs[k].slot] > 0
        BY JobFacts DEF KernelInv, WaitsInv, JobsMatch
      <3>3. thread[jobs[k].slot] # "RUNNING"
        BY <3>2 DEF FileStates
      <3>4. /\ thread'[jobs[k].slot] = thread[jobs[k].slot]
            /\ opened'[jobs[k].slot] = opened[jobs[k].slot]
        BY <3>1, <3>2, <3>3
      <3> QED
        BY <3>1, <3>2, <3>4
    <2>2. jobs' = Tail(jobs) /\ occupied' = occupied
      OBVIOUS
    <2> QED
      BY <2>1, <2>2 DEF JobsMatch
  <1>4. BlockedHaveJobs'
    <2> SUFFICES ASSUME NEW q \in Slots, thread'[q] \in FileStates
                 PROVE  \E i \in DOMAIN Tail(jobs) : Tail(jobs)[i].slot = q
      BY DEF BlockedHaveJobs
    <2>1. q # p /\ thread[q] \in FileStates
      BY DEF FileStates
    <2> QED
      BY <2>1, TailOfJobs DEF KernelInv, WaitsInv, BlockedHaveJobs
  <1>5. BuffersMatch'
    BY <1>1 DEF KernelInv, WaitsInv, BuffersMatch
  <1>6. ReadersMatch'
    BY <1>1, ReadersStay DEF FileStates
  <1> QED
    BY <1>2, <1>3, <1>4, <1>5, <1>6 DEF WaitsInv

\* An open or a close answers its thread wherever its context is.
LEMMA HdDoesFileKeeps ==
    ASSUME KernelInv, HdDoesFile
    PROVE  KernelInv'
  <1>1. PICK p \in ProgramSlots : p = Head(jobs).slot
    BY TailOfJobs, JobFacts DEF HdDoesFile
  <1>2. /\ p \in Slots /\ thread[p] = Head(jobs).op
        /\ Head(jobs).op \in {"OPEN", "CLOSE"}
        /\ Head(jobs).op = "CLOSE" => opened[p] > 0
    BY <1>1, TailOfJobs, JobFacts DEF HdDoesFile, KernelInv, WaitsInv, JobsMatch,
       FileStates
  <1>3. phase = "hd_next" /\ InHandler /\ jobs # <<>>
    BY DEF HdDoesFile, At, InHandler
  <1>4. PICK n : /\ n = IF Head(jobs).op = "CLOSE" THEN opened[p] - 1 ELSE opened[p]
                 /\ Answers(p, thread, context, AreaAnswered(p), n)
    BY <1>1, <1>2 DEF HdDoesFile, Awaits
  <1>5. /\ jobs' = Tail(jobs)
        /\ UNCHANGED <<occupied, regs, active, last, readers, focus, kbUsed,
                       loading, replaced, phase, stopped, devices>>
    BY <1>1, <1>2 DEF HdDoesFile, Awaits
  <1>6. context[p] = [of |-> p, asked |-> TRUE]
    BY <1>2 DEF KernelInv, ThreadsInv, FileStates
  <1>7. /\ thread' \in [Slots -> ThreadStates] /\ thread'[p] = "READY"
        /\ \A q \in Slots : q # p => thread'[q] = thread[q]
    BY <1>2, <1>4 DEF Answers, KernelInv, KernelTypeOK, ThreadStates
  <1>8. /\ context' \in [Slots -> Registers] /\ context'[p] = Fresh(p)
        /\ \A q \in Slots : q # p => context'[q] = context[q]
    BY <1>2, <1>4, <1>6, FreshType DEF Answers, KernelInv, KernelTypeOK
  <1>9. /\ opened' \in [Slots -> 0 .. MaxFiles]
        /\ \A q \in Slots : q # p => opened'[q] = opened[q]
    <2>1. n \in 0 .. MaxFiles
      BY <1>2, <1>4, SizeAssumption DEF KernelInv, KernelTypeOK
    <2> QED
      BY <1>4, <2>1 DEF Answers, KernelInv, KernelTypeOK
  <1>10. saved' = context'[active]
    <2>1. saved = context[active] /\ active \in Slots
      BY <1>3 DEF KernelInv, EntryInv, KernelTypeOK
    <2>2. CASE p = active
      BY <1>4, <1>6, <1>8, <2>1, <2>2, FreshType DEF Answers, AreaAnswered
    <2>3. CASE p # active
      BY <1>4, <1>8, <2>1, <2>3 DEF Answers, AreaAnswered
    <2> QED
      BY <2>2, <2>3
  <1>11. buffers' = buffers \ {p}
    BY <1>4 DEF Answers, BuffersWithout
  <1>12. KernelTypeOK'
    <2>1. jobs' \in Seq(Job)
      BY <1>3, <1>5, TailOfJobs
    <2>2. saved' \in Registers
      BY <1>8, <1>10 DEF KernelInv, KernelTypeOK
    <2> QED
      BY <1>5, <1>7, <1>8, <1>9, <1>11, <2>1, <2>2 DEF KernelInv, KernelTypeOK, devices
  <1>13. EntryInv'
    BY <1>2, <1>3, <1>5, <1>7, <1>10 DEF KernelInv, EntryInv, InHandler
  <1>14. ThreadsInv'
    BY <1>1, <1>2, <1>5, <1>7, <1>8, SlotFacts DEF KernelInv, ThreadsInv,
       FileStates, Fresh
  <1>15. WaitsInv'
    BY <1>1, <1>3, <1>5, <1>7, <1>9, <1>11, AnsweredKeepsWaits
  <1>16. DiskInv' /\ KeyInv'
    BY <1>3, <1>5 DEF KernelInv, DiskInv, KeyInv, devices
  <1> QED
    BY <1>12, <1>13, <1>14, <1>15, <1>16 DEF KernelInv

\* The load of a program takes the place of its open.
LEMMA HdOpensProgramKeeps ==
    ASSUME KernelInv, HdOpensProgram
    PROVE  KernelInv'
  <1>1. CASE Stop("panic")
    BY <1>1, StopKeeps
  <1>2. CASE ~Stop("panic")
    <2>1. PICK n \in 1 .. MaxParts :
            jobs' = Append(Tail(jobs), [slot |-> Head(jobs).slot,
                                        op |-> "LOAD", left |-> n])
      BY <1>2 DEF HdOpensProgram
    <2>2. /\ phase = "hd_next" /\ jobs # <<>> /\ Head(jobs).op = "LOAD_OPEN"
          /\ UNCHANGED <<scheduling, opened, readers, focus, kbUsed, buffers,
                         loading, replaced, phase, stopped, devices>>
      BY <1>2 DEF HdOpensProgram, At
    <2> DEFINE job == [slot |-> Head(jobs).slot, op |-> "LOAD", left |-> n]
    <2>3. /\ job \in Job /\ job.slot = Head(jobs).slot /\ job.op = "LOAD"
      BY <2>2, TailOfJobs, JobFacts, SizeAssumption DEF Job, Transfers
    <2> HIDE DEF job
    <2>4. /\ jobs' \in Seq(Job) /\ jobs' # <<>>
          /\ DOMAIN jobs' = DOMAIN Tail(jobs) \cup {Len(Tail(jobs)) + 1}
          /\ \A i \in DOMAIN Tail(jobs) : jobs'[i] = Tail(jobs)[i]
          /\ jobs'[Len(Tail(jobs)) + 1] = job
      <3>1. jobs' = Append(Tail(jobs), job)
        BY <2>1 DEF job
      <3> QED
        BY <2>2, <2>3, <3>1, TailOfJobs, QueueAppend
    <2>5. UNCHANGED <<occupied, thread, context, saved, regs, active, last,
                      opened, readers, focus, kbUsed, buffers, loading, replaced, phase,
                      stopped, pending, hd, hdMust, key, kbMust, keysLeft>>
      BY <2>2 DEF scheduling, devices
    <2>6. KernelTypeOK'
      BY <2>4, <2>5 DEF KernelInv, KernelTypeOK
    <2>7. EntryInv' /\ ThreadsInv'
      BY <2>5 DEF KernelInv, EntryInv, InHandler, ThreadsInv
    <2>8. OneJobEach'
      <3>1. \A i \in DOMAIN Tail(jobs) : jobs'[i].slot # job.slot
        BY <2>2, <2>3, <2>4, TailOfJobs
      <3>2. \A i, j \in DOMAIN Tail(jobs) :
              jobs'[i].slot = jobs'[j].slot => i = j
        BY <2>2, <2>4, TailOfJobs
      <3> QED
        BY <2>4, <3>1, <3>2 DEF OneJobEach
    <2>9. JobsMatch'
      <3>1. thread[job.slot] = "EMPTY" /\ job.slot \in occupied
        BY <2>2, <2>3, TailOfJobs DEF KernelInv, WaitsInv, JobsMatch, FileStates
      <3>2. ASSUME NEW i \in DOMAIN jobs'
            PROVE  /\ jobs'[i].slot \in occupied
                   /\ thread[jobs'[i].slot] =
                        IF jobs'[i].op \in FileStates THEN jobs'[i].op
                        ELSE "EMPTY"
                   /\ jobs'[i].op = "CLOSE" => opened[jobs'[i].slot] > 0
        <4>1. CASE i \in DOMAIN Tail(jobs)
          BY <2>2, <2>4, <4>1, TailOfJobs DEF KernelInv, WaitsInv, JobsMatch
        <4>2. CASE i = Len(Tail(jobs)) + 1
          BY <2>3, <2>4, <3>1, <4>2 DEF FileStates
        <4> QED
          BY <2>4, <4>1, <4>2
      <3> QED
        BY <2>5, <3>2 DEF JobsMatch
    <2>10. BlockedHaveJobs'
      <3>1. ASSUME NEW p \in Slots, thread[p] \in FileStates
            PROVE  \E i \in DOMAIN jobs' : jobs'[i].slot = p
        <4>1. PICK k \in DOMAIN jobs : jobs[k].slot = p
          BY <3>1 DEF KernelInv, WaitsInv, BlockedHaveJobs
        <4>2. CASE jobs[k].slot = Head(jobs).slot
          BY <2>3, <2>4, <4>1, <4>2
        <4>3. CASE \E i \in DOMAIN Tail(jobs) : Tail(jobs)[i] = jobs[k]
          BY <2>4, <4>1, <4>3
        <4> QED
          BY <2>2, <4>2, <4>3, TailOfJobs
      <3> QED
        BY <2>5, <3>1 DEF BlockedHaveJobs
    <2>11. BuffersMatch' /\ ReadersMatch'
      BY <2>5 DEF KernelInv, WaitsInv, BuffersMatch, ReadersMatch
    <2>12. DiskInv' /\ KeyInv'
      BY <2>2, <2>5 DEF KernelInv, DiskInv, KeyInv
    <2> QED
      BY <2>6, <2>7, <2>8, <2>9, <2>10, <2>11, <2>12 DEF KernelInv, WaitsInv
  <1> QED
    BY <1>1, <1>2

-----------------------------------------------------------------------------
(***************************************************************************)
(* The interrupt of the hd.                                                *)
(***************************************************************************)
\* It comes for the oldest request.
LEMMA HdInterruptEntry ==
    ASSUME KernelInv, At("hd")
    PROVE  /\ ~InHandler /\ jobs # <<>> /\ phase = "hd" /\ hdMust = FALSE
           /\ pending # "hd" /\ Head(jobs).op \in Transfers
           /\ 1 \in DOMAIN jobs /\ Head(jobs) = jobs[1] /\ jobs[1] \in Job
           /\ Head(jobs).slot \in ProgramSlots /\ Head(jobs).slot \in Slots
           /\ Head(jobs).slot # active /\ Head(jobs).slot \in occupied
  <1>1. ~InHandler /\ phase = "hd"
    BY DEF InHandler, At
  <1>2. /\ hd = "finished" /\ hdMust = FALSE /\ pending # "hd"
        /\ jobs # <<>> /\ Head(jobs).op \in Transfers
    BY <1>1 DEF KernelInv, DiskInv, KernelTypeOK
  <1> QED
    BY <1>1, <1>2, TailOfJobs, JobFacts, ActiveIsFree

\* A request of which a part is done is the same request.
LEMMA OnePartLess ==
    ASSUME NEW job \in Job, job.left > 1
    PROVE  /\ [job EXCEPT !.left = @ - 1] \in Job
           /\ [job EXCEPT !.left = @ - 1].slot = job.slot
           /\ [job EXCEPT !.left = @ - 1].op = job.op
  <1>1. job.left - 1 \in 0 .. MaxParts
    <2>1. job.left \in 0 .. MaxParts
      BY DEF Job
    <2> QED
      BY <2>1, SizeAssumption
  <1>2. PICK l \in 0 .. MaxParts : l = job.left - 1
    BY <1>1
  <1>3. [job EXCEPT !.left = l] \in Job
    BY DEF Job
  <1>4. /\ [job EXCEPT !.left = l].slot = job.slot
        /\ [job EXCEPT !.left = l].op = job.op
    BY DEF Job
  <1> QED
    BY <1>2, <1>3, <1>4

\* The interrupt of one part leaves the request at the head of the queue.
LEMMA HdInterruptPartKeeps ==
    ASSUME KernelInv, HdInterruptPart
    PROVE  KernelInv'
  <1> USE HdInterruptEntry DEF HdInterruptPart
  <1>1. InHandler'
    BY DEF InHandler
  <1>2. /\ SchedulingTypes' /\ EntryInv' /\ ThreadsInv'
        /\ thread'[active] = "READY"
        /\ \A p \in Slots : p # active => thread'[p] = thread[p]
    BY <1>1, ActiveIsFree, EnteredKeeps DEF Interrupted
  <1>3. /\ jobs' \in Seq(Job) /\ DOMAIN jobs' = DOMAIN jobs /\ jobs' # <<>>
        /\ \A i \in DOMAIN jobs : /\ jobs'[i].slot = jobs[i].slot
                                  /\ jobs'[i].op = jobs[i].op
    <2> DEFINE job == [jobs[1] EXCEPT !.left = @ - 1]
    <2>1. job \in Job /\ job.slot = jobs[1].slot /\ job.op = jobs[1].op
      BY OnePartLess
    <2>2. jobs' = [jobs EXCEPT ![1] = job]
      OBVIOUS
    <2> HIDE DEF job
    <2>3. jobs \in Seq(Job)
      BY JobFacts
    <2> QED
      BY <2>1, <2>2, <2>3
  <1>4. OneJobEach'
    BY <1>3 DEF KernelInv, WaitsInv, OneJobEach
  <1>5. JobsMatch'
    <2>1. \A i \in DOMAIN jobs :
            /\ jobs[i].slot \in Slots /\ jobs[i].slot \in occupied
            /\ thread'[jobs[i].slot] = thread[jobs[i].slot]
      BY <1>2, JobFacts, ActiveIsFree
    <2>2. occupied' = occupied /\ opened' = opened
      OBVIOUS
    <2> QED
      BY <1>3, <2>1, <2>2 DEF KernelInv, WaitsInv, JobsMatch
  <1>6. BlockedHaveJobs'
    BY <1>2, <1>3 DEF KernelInv, WaitsInv, BlockedHaveJobs, FileStates
  <1>7. BuffersMatch'
    BY <1>2, ActiveIsFree DEF KernelInv, WaitsInv, BuffersMatch
  <1>8. ReadersMatch'
    BY <1>2, ActiveIsFree, ReadersStay
  <1>9. KernelTypeOK'
    BY <1>2, <1>3 DEF KernelInv, KernelTypeOK, SchedulingTypes
  <1>10. DiskInv' /\ KeyInv'
    BY DEF KernelInv, DiskInv, KeyInv
  <1> QED
    BY <1>2, <1>4, <1>5, <1>6, <1>7, <1>8, <1>9, <1>10 DEF KernelInv, WaitsInv

\* The thread of the request is the one its callback expects.
LEMMA HdInterruptAnswersKeeps ==
    ASSUME KernelInv, HdInterruptAnswers
    PROVE  KernelInv'
  <1> USE HdInterruptEntry, ActiveIsFree
  <1>1. /\ At("hd") /\ Head(jobs).op # "LOAD"
    BY DEF HdInterruptAnswers
  <1>2. PICK p \in ProgramSlots :
          /\ p = Head(jobs).slot /\ p \in Slots /\ p # active /\ p \in occupied
    BY <1>1
  <1>3. thread[p] = Head(jobs).op /\ thread[p] \in {"READ", "WRITE"}
    BY <1>1, <1>2 DEF KernelInv, WaitsInv, JobsMatch, FileStates, Transfers
  <1> DEFINE kept == [context EXCEPT ![active] = regs]
             ready == [thread EXCEPT ![active] = "READY"]
  <1>4. ready[p] = Head(jobs).op
    BY <1>1, <1>2, <1>3 DEF KernelInv, KernelTypeOK
  <1>5. /\ Answers(p, ready, kept, regs, opened[p])
        /\ regs' = KernelRegisters /\ jobs' = Tail(jobs)
        /\ hd' = "idle" /\ phase' = "hd_next"
        /\ UNCHANGED <<occupied, active, last, readers, focus, kbUsed, loading, replaced,
                       stopped, pending, hdMust, key, kbMust, keysLeft>>
    BY <1>2, <1>4 DEF HdInterruptAnswers
  <1>6. regs = Fresh(active) /\ active \in Slots /\ regs \in Registers
    BY <1>1
  <1>7. context[p] = [of |-> p, asked |-> TRUE]
    BY <1>2, <1>3 DEF KernelInv, ThreadsInv, FileStates
  <1>8. /\ thread' \in [Slots -> ThreadStates]
        /\ thread'[p] = "READY" /\ thread'[active] = "READY"
        /\ \A q \in Slots : q # p /\ q # active => thread'[q] = thread[q]
    BY <1>2, <1>5, <1>6 DEF Answers, KernelInv, KernelTypeOK, ThreadStates
  <1>9. /\ context' \in [Slots -> Registers]
        /\ context'[p] = Fresh(p) /\ context'[active] = Fresh(active)
        /\ \A q \in Slots : q # p /\ q # active => context'[q] = context[q]
    BY <1>2, <1>5, <1>6, <1>7, FreshType DEF Answers, KernelInv, KernelTypeOK
  <1>10. /\ opened' \in [Slots -> 0 .. MaxFiles]
         /\ \A q \in Slots : q # p => opened'[q] = opened[q]
    BY <1>2, <1>5 DEF Answers, KernelInv, KernelTypeOK
  <1>11. buffers' = buffers \ {p} /\ saved' = regs
    BY <1>5 DEF Answers, BuffersWithout
  <1> HIDE DEF kept, ready
  <1>12. KernelTypeOK'
    <2>1. jobs' \in Seq(Job) /\ regs' \in Registers
      BY <1>1, <1>5, TailOfJobs, FreshType
    <2> QED
      BY <1>5, <1>6, <1>8, <1>9, <1>10, <1>11, <2>1 DEF KernelInv, KernelTypeOK
  <1>13. EntryInv'
    BY <1>1, <1>5, <1>6, <1>8, <1>9, <1>11 DEF EntryInv, InHandler
  <1>14. ThreadsInv'
    <2>1. Idle \in occupied' /\ thread'[Idle] \in {"READY", "RUNNING"}
      BY <1>2, <1>5, <1>8, SlotFacts DEF KernelInv, ThreadsInv
    <2>2. \A q \in Slots \ occupied' : thread'[q] \in {"EMPTY", "READY"}
      BY <1>5, <1>8 DEF KernelInv, ThreadsInv
    <2>3. \A q \in Slots :
            /\ thread'[q] = "READY" => context'[q] = Fresh(q)
            /\ thread'[q] \in FileStates \cup {"BLOCKED_KB"} =>
                 context'[q] = [of |-> q, asked |-> TRUE]
      BY <1>8, <1>9 DEF KernelInv, ThreadsInv, FileStates
    <2> QED
      BY <2>1, <2>2, <2>3 DEF ThreadsInv, Fresh
  <1>15. WaitsInv'
    BY <1>1, <1>2, <1>5, <1>8, <1>10, <1>11, AnsweredKeepsWaits
  <1>16. DiskInv' /\ KeyInv'
    BY <1>1, <1>5 DEF KernelInv, DiskInv, KeyInv
  <1> QED
    BY <1>12, <1>13, <1>14, <1>15, <1>16 DEF KernelInv

\* A program is in memory: its thread, in slot p, is ready as the
\* interrupted one is, and every other as it was, but that of slot f.
LEMMA LoadedKeeps ==
    ASSUME KernelInv, At("hd"), NEW p \in ProgramSlots, p # active, p \in occupied,
           NEW f \in Slots \cup {NoSlot}, f # p, f \notin occupied,
           Loaded([context EXCEPT ![active] = regs, ![p] = Fresh(p)]),
           thread' \in [Slots -> ThreadStates],
           thread'[active] = "READY", thread'[p] = "READY",
           f # NoSlot => thread'[f] = "EMPTY",
           \A q \in Slots : q # p /\ q # active /\ q # f =>
                                thread'[q] = thread[q],
           occupied' = IF f = NoSlot THEN occupied ELSE occupied \cup {f}
    PROVE  SchedulingTypes' /\ EntryInv' /\ ThreadsInv'
  <1>1. active \in Slots /\ active \in occupied /\ p \in Slots
        /\ regs = Fresh(active) /\ regs \in Registers /\ p # Idle
        /\ ~InHandler
    BY HdInterruptEntry, ActiveIsFree, SlotFacts
  <1>2. /\ saved' = regs /\ regs' = KernelRegisters /\ phase' = "hd_next"
        /\ UNCHANGED <<active, last>>
    BY DEF Loaded
  <1>3. /\ context' \in [Slots -> Registers]
        /\ context'[p] = Fresh(p) /\ context'[active] = Fresh(active)
        /\ \A q \in Slots : q # p /\ q # active => context'[q] = context[q]
    BY <1>1, FreshType DEF Loaded, KernelInv, KernelTypeOK
  <1>4. SchedulingTypes'
    BY <1>1, <1>2, <1>3, FreshType DEF KernelInv, KernelTypeOK, SchedulingTypes
  <1>5. /\ \A q \in Slots : q # active => thread[q] # "RUNNING"
        /\ f # Idle /\ occupied \subseteq occupied'
    BY <1>1, ActiveIsFree, SlotFacts DEF KernelInv, ThreadsInv
  <1>6. \A q \in Slots : thread'[q] # "RUNNING"
    BY <1>1, <1>5, SlotFacts
  <1>7. EntryInv'
    BY <1>1, <1>2, <1>3, <1>6 DEF EntryInv, InHandler
  <1>8. ThreadsInv'
    <2>1. Idle \in occupied' /\ thread'[Idle] \in {"READY", "RUNNING"}
      BY <1>1, <1>5, SlotFacts DEF KernelInv, ThreadsInv
    <2>2. ASSUME NEW q \in Slots, q \notin occupied'
          PROVE  thread'[q] \in {"EMPTY", "READY"}
      <3>1. q \notin occupied /\ q # p /\ q # active /\ q # f
        BY <1>1, <1>5, <2>2, SlotFacts
      <3> QED
        BY <3>1 DEF KernelInv, ThreadsInv
    <2>3. ASSUME NEW q \in Slots
          PROVE  /\ thread'[q] = "READY" => context'[q] = Fresh(q)
                 /\ thread'[q] \in FileStates \cup {"BLOCKED_KB"} =>
                      context'[q] = [of |-> q, asked |-> TRUE]
      <3>1. CASE q = p \/ q = active
        BY <1>3, <3>1 DEF FileStates
      <3>2. CASE q = f
        BY <3>2, SlotFacts DEF FileStates
      <3>3. CASE q # p /\ q # active /\ q # f
        BY <1>3, <3>3 DEF KernelInv, ThreadsInv
      <3> QED
        BY <3>1, <3>2, <3>3
    <2> QED
      BY <2>1, <2>2, <2>3 DEF ThreadsInv, Fresh
  <1> QED
    BY <1>4, <1>7, <1>8

\* The slot of the program that was loaded.
LEMMA ProgramIsEmpty ==
    ASSUME KernelInv, At("hd"), Head(jobs).op = "LOAD"
    PROVE  thread[Head(jobs).slot] = "EMPTY" /\ Head(jobs).slot \notin buffers
  <1>1. thread[Head(jobs).slot] = "EMPTY"
    BY HdInterruptEntry DEF KernelInv, WaitsInv, JobsMatch, FileStates
  <1> QED
    BY <1>1, HdInterruptEntry DEF KernelInv, WaitsInv, BuffersMatch

\* The last program is in memory.
LEMMA LoadsLastKeeps ==
    ASSUME KernelInv, At("hd"), Head(jobs).op = "LOAD",
           NEW p \in ProgramSlots, p = Head(jobs).slot,
           LoadsLast([context EXCEPT ![active] = regs, ![p] = Fresh(p)],
                     [thread EXCEPT ![active] = "READY", ![p] = "READY"])
    PROVE  KernelInv'
  <1>1. /\ p \in Slots /\ p # active /\ p \in occupied /\ active \in Slots
        /\ thread[p] = "EMPTY" /\ p \notin buffers /\ jobs # <<>>
        /\ phase = "hd" /\ hdMust = FALSE /\ pending # "hd"
        /\ thread[active] = "RUNNING"
    BY HdInterruptEntry, ProgramIsEmpty, ActiveIsFree
  <1>2. /\ thread' = [thread EXCEPT ![active] = "READY", ![p] = "READY"]
        /\ Loaded([context EXCEPT ![active] = regs, ![p] = Fresh(p)])
        /\ jobs' = Tail(jobs) /\ focus' = ProgramWindow
        /\ UNCHANGED <<occupied, opened, kbUsed, loading>>
    BY DEF LoadsLast
  <1>3. /\ thread' \in [Slots -> ThreadStates]
        /\ thread'[active] = "READY" /\ thread'[p] = "READY"
        /\ \A q \in Slots : q # p /\ q # active => thread'[q] = thread[q]
    BY <1>1, <1>2 DEF KernelInv, KernelTypeOK, ThreadStates
  <1>4. SchedulingTypes' /\ EntryInv' /\ ThreadsInv'
    <2>1. NoSlot \in Slots \cup {NoSlot} /\ NoSlot # p /\ NoSlot \notin occupied
      BY <1>1, SlotFacts DEF KernelInv, KernelTypeOK
    <2> QED
      BY <1>1, <1>2, <1>3, <2>1, LoadedKeeps
  <1>5. /\ hd' = "idle" /\ phase' = "hd_next"
        /\ UNCHANGED <<readers, replaced, buffers, stopped, pending, hdMust, key, kbMust,
                       keysLeft>>
    BY <1>2 DEF Loaded
  <1>6. KernelTypeOK'
    BY <1>1, <1>2, <1>4, <1>5, TailOfJobs, SlotFacts
    DEF KernelInv, KernelTypeOK, SchedulingTypes
  <1>7. WaitsInv'
    BY <1>1, <1>2, <1>3, <1>5, AnsweredKeepsWaits
  <1>8. DiskInv' /\ KeyInv'
    BY <1>1, <1>2, <1>5 DEF KernelInv, DiskInv, KeyInv
  <1> QED
    BY <1>4, <1>6, <1>7, <1>8 DEF KernelInv

\* The queue has the next program's request in the place of the last one's.
LEMMA LoadsNextKeepsWaits ==
    ASSUME KernelInv, At("hd"), Head(jobs).op = "LOAD",
           NEW p \in ProgramSlots, p = Head(jobs).slot,
           NEW f \in ProgramSlots, f \notin occupied,
           thread'[active] = "READY", thread'[p] = "READY", thread'[f] = "EMPTY",
           \A q \in Slots : q # p /\ q # active /\ q # f => thread'[q] = thread[q],
           \A q \in Slots : q # f => opened'[q] = opened[q],
           occupied' = occupied \cup {f},
           jobs' = Append(Tail(jobs), [slot |-> f, op |-> "LOAD_OPEN", left |-> 0]),
           UNCHANGED <<readers, replaced, buffers>>
    PROVE  WaitsInv' /\ jobs' \in Seq(Job)
  <1>1. /\ p \in Slots /\ p # active /\ p \in occupied /\ active \in Slots
        /\ thread[p] = "EMPTY" /\ p \notin buffers /\ jobs # <<>>
        /\ thread[active] = "RUNNING" /\ active \in occupied
        /\ active \notin buffers
    BY HdInterruptEntry, ProgramIsEmpty, ActiveIsFree
  <1>2. /\ f \in Slots /\ f # p /\ f # active /\ thread[f] \in {"EMPTY", "READY"}
        /\ f \notin buffers
        /\ \A i \in DOMAIN jobs : jobs[i].slot # f
    BY <1>1, SlotFacts, FreeIsFree
  <1> DEFINE job == [slot |-> f, op |-> "LOAD_OPEN", left |-> 0]
  <1>3. job \in Job /\ job.slot = f /\ job.op = "LOAD_OPEN"
    BY SizeAssumption DEF Job
  <1> HIDE DEF job
  <1>4. /\ jobs' \in Seq(Job) /\ jobs' # <<>>
        /\ DOMAIN jobs' = DOMAIN Tail(jobs) \cup {Len(Tail(jobs)) + 1}
        /\ \A i \in DOMAIN Tail(jobs) : jobs'[i] = Tail(jobs)[i]
        /\ jobs'[Len(Tail(jobs)) + 1] = job
    <2>1. jobs' = Append(Tail(jobs), job)
      BY DEF job
    <2> QED
      BY <1>1, <1>3, <2>1, TailOfJobs, QueueAppend
  <1>5. ASSUME NEW i \in DOMAIN Tail(jobs)
        PROVE  \E k \in DOMAIN jobs :
                 /\ Tail(jobs)[i] = jobs[k] /\ jobs[k].slot \in Slots
                 /\ jobs[k].slot # p /\ jobs[k].slot # active /\ jobs[k].slot # f
    <2>1. PICK k \in DOMAIN jobs : Tail(jobs)[i] = jobs[k]
      BY <1>1, TailOfJobs
    <2>2. jobs[k].slot # p
      BY <1>1, <2>1, TailOfJobs
    <2>3. jobs[k].slot # active
      BY HdInterruptEntry, ActiveIsFree
    <2> QED
      BY <1>2, <2>1, <2>2, <2>3, JobFacts
  <1>6. OneJobEach'
    <2>1. \A i \in DOMAIN Tail(jobs) : jobs'[i].slot # job.slot
      BY <1>3, <1>4, <1>5
    <2>2. \A i, j \in DOMAIN Tail(jobs) : jobs'[i].slot = jobs'[j].slot => i = j
      BY <1>1, <1>4, TailOfJobs
    <2> QED
      BY <1>4, <2>1, <2>2 DEF OneJobEach
  <1>7. JobsMatch'
    <2>1. ASSUME NEW i \in DOMAIN jobs'
          PROVE  /\ jobs'[i].slot \in occupied'
                 /\ thread'[jobs'[i].slot] =
                      IF jobs'[i].op \in FileStates THEN jobs'[i].op ELSE "EMPTY"
                 /\ jobs'[i].op = "CLOSE" => opened'[jobs'[i].slot] > 0
      <3>1. CASE i \in DOMAIN Tail(jobs)
        <4>1. PICK k \in DOMAIN jobs :
                /\ jobs'[i] = jobs[k] /\ jobs[k].slot \in Slots
                /\ jobs[k].slot # p /\ jobs[k].slot # active /\ jobs[k].slot # f
          BY <1>4, <1>5, <3>1
        <4>2. /\ thread'[jobs[k].slot] = thread[jobs[k].slot]
              /\ opened'[jobs[k].slot] = opened[jobs[k].slot]
          BY <4>1
        <4>3. /\ jobs[k].slot \in occupied
              /\ thread[jobs[k].slot] =
                   IF jobs[k].op \in FileStates THEN jobs[k].op ELSE "EMPTY"
              /\ jobs[k].op = "CLOSE" => opened[jobs[k].slot] > 0
          BY DEF KernelInv, WaitsInv, JobsMatch
        <4> QED
          BY <4>1, <4>2, <4>3
      <3>2. CASE i = Len(Tail(jobs)) + 1
        BY <1>3, <1>4, <3>2 DEF FileStates
      <3> QED
        BY <1>4, <3>1, <3>2
    <2> QED
      BY <2>1 DEF JobsMatch
  <1>8. BlockedHaveJobs'
    <2>1. ASSUME NEW q \in Slots, thread'[q] \in FileStates
          PROVE  \E i \in DOMAIN jobs' : jobs'[i].slot = q
      <3>1. q # p /\ q # active /\ q # f
        BY <2>1 DEF FileStates
      <3>2. thread[q] \in FileStates
        BY <2>1, <3>1
      <3>3. PICK k \in DOMAIN jobs : jobs[k].slot = q
        BY <3>2 DEF KernelInv, WaitsInv, BlockedHaveJobs
      <3>4. PICK i \in DOMAIN Tail(jobs) : Tail(jobs)[i] = jobs[k]
        BY <1>1, <3>1, <3>3, TailOfJobs
      <3> QED
        BY <1>4, <3>3, <3>4
    <2> QED
      BY <2>1 DEF BlockedHaveJobs
  <1>9. BuffersMatch'
    <2>1. ASSUME NEW q \in Slots
          PROVE  q \in buffers <=> thread'[q] \in {"READ", "WRITE"}
      <3>1. CASE q = p \/ q = active \/ q = f
        BY <1>1, <1>2, <3>1
      <3>2. CASE q # p /\ q # active /\ q # f
        BY <3>2 DEF KernelInv, WaitsInv, BuffersMatch
      <3> QED
        BY <3>1, <3>2
    <2> QED
      BY <2>1 DEF BuffersMatch
  <1>10. ReadersMatch'
    BY <1>1, <1>2, ReadersStay
  <1> QED
    BY <1>4, <1>6, <1>7, <1>8, <1>9, <1>10 DEF WaitsInv

\* A program is in memory and the next one gets a slot.
LEMMA LoadsNextKeeps ==
    ASSUME KernelInv, At("hd"), Head(jobs).op = "LOAD",
           NEW p \in ProgramSlots, p = Head(jobs).slot,
           LoadsNext([context EXCEPT ![active] = regs, ![p] = Fresh(p)],
                     [thread EXCEPT ![active] = "READY", ![p] = "READY"])
    PROVE  KernelInv'
  <1>1. CASE FreeSlots = {} \/ loading >= LoaderEntries
    BY <1>1, StopKeeps DEF LoadsNext
  <1>2. CASE FreeSlots # {} /\ ~(loading >= LoaderEntries)
    <2>1. PICK f \in ProgramSlots : f = FirstFree /\ f \notin occupied
      BY <1>2, FirstFreeIsFree
    <2>2. /\ p \in Slots /\ p # active /\ p \in occupied /\ active \in Slots
          /\ phase = "hd" /\ hdMust = FALSE /\ pending # "hd"
          /\ active \in occupied /\ f \in Slots /\ f # p /\ f # active
      BY <2>1, HdInterruptEntry, ActiveIsFree, SlotFacts
    <2>3. /\ occupied' = occupied \cup {f}
          /\ thread' = [[thread EXCEPT ![active] = "READY", ![p] = "READY"]
                           EXCEPT ![f] = "EMPTY"]
          /\ opened' = Cleared(opened, f) /\ kbUsed' = Cleared(kbUsed, f)
          /\ jobs' = Append(Tail(jobs),
                            [slot |-> f, op |-> "LOAD_OPEN", left |-> 0])
          /\ loading' = loading + 1 /\ loading < Programs
          /\ UNCHANGED focus
          /\ Loaded([context EXCEPT ![active] = regs, ![p] = Fresh(p)])
      BY <1>2, <2>1 DEF LoadsNext
    <2>4. /\ thread' \in [Slots -> ThreadStates]
          /\ thread'[active] = "READY" /\ thread'[p] = "READY"
          /\ thread'[f] = "EMPTY"
          /\ \A q \in Slots : q # p /\ q # active /\ q # f =>
                                thread'[q] = thread[q]
      BY <2>2, <2>3 DEF KernelInv, KernelTypeOK, ThreadStates
    <2>5. SchedulingTypes' /\ EntryInv' /\ ThreadsInv'
      <3>1. f # NoSlot
        BY <2>2, SlotFacts
      <3> QED
        BY <2>1, <2>2, <2>3, <2>4, <3>1, LoadedKeeps
    <2>6. /\ opened' \in [Slots -> 0 .. MaxFiles]
          /\ kbUsed' \in [Slots -> 0 .. KbSize - 1]
          /\ \A q \in Slots : q # f => opened'[q] = opened[q]
      BY <2>2, <2>3, SizeAssumption DEF KernelInv, KernelTypeOK, Cleared
    <2>7. /\ hd' = "idle" /\ phase' = "hd_next"
          /\ UNCHANGED <<readers, replaced, buffers, stopped, pending, hdMust, key,
                         kbMust, keysLeft>>
      BY <2>3 DEF Loaded
    <2>8. WaitsInv' /\ jobs' \in Seq(Job)
      BY <2>1, <2>3, <2>4, <2>6, <2>7, LoadsNextKeepsWaits
    <2>9. KernelTypeOK'
      <3>1. loading' \in 1 .. Programs
        BY <2>3, TableAssumption DEF KernelInv, KernelTypeOK
      <3> QED
        BY <2>3, <2>5, <2>6, <2>7, <2>8, <3>1
        DEF KernelInv, KernelTypeOK, SchedulingTypes
    <2>10. DiskInv' /\ KeyInv'
      BY <2>2, <2>7 DEF KernelInv, DiskInv, KeyInv
    <2> QED
      BY <2>5, <2>8, <2>9, <2>10 DEF KernelInv
  <1> QED
    BY <1>1, <1>2

\* Both ends of a load.
LEMMA HdInterruptLoadsKeeps ==
    ASSUME KernelInv, HdInterruptLoads
    PROVE  KernelInv'
  <1>1. At("hd") /\ Head(jobs).op = "LOAD"
    BY DEF HdInterruptLoads
  <1>2. PICK p \in ProgramSlots : p = Head(jobs).slot
    BY <1>1, HdInterruptEntry
  <1>3. \/ LoadsNext([context EXCEPT ![active] = regs, ![p] = Fresh(p)],
                     [thread EXCEPT ![active] = "READY", ![p] = "READY"])
        \/ LoadsLast([context EXCEPT ![active] = regs, ![p] = Fresh(p)],
                     [thread EXCEPT ![active] = "READY", ![p] = "READY"])
    BY <1>2 DEF HdInterruptLoads
  <1> QED
    BY <1>1, <1>2, <1>3, LoadsNextKeeps, LoadsLastKeeps

-----------------------------------------------------------------------------
(***************************************************************************)
(* The newline that answers the process that reads.                        *)
(***************************************************************************)
\* The reader that is answered runs, the one that was interrupted is ready.
LEMMA KeyNewlineKeeps ==
    ASSUME KernelInv, KeyNewline
    PROVE  KernelInv'
  <1>1. /\ phase = "keyboard" /\ ~InHandler /\ Reader # NoSlot
        /\ key' = NoKey /\ kbMust' = FALSE
        /\ UNCHANGED <<occupied, opened, buffers, jobs, loading, replaced, pending,
                       hd, hdMust, keysLeft, stopped>>
    BY DEF KeyNewline, KeyRead, At, InHandler
  <1>2. /\ focus \in 0 .. Windows - 1 /\ readers[focus] # NoSlot
        /\ focus = ProgramWindow
    BY <1>1 DEF KeyNewline, HasEntry, KernelInv, KernelTypeOK, Reader, WaitsInv,
       ReadersMatch
  <1>3. PICK p \in ProgramSlots :
          /\ p = readers[focus] /\ p = Reader /\ p \in Slots /\ p \in occupied
          /\ thread[p] = "BLOCKED_KB" /\ p # active /\ p # Idle
    <2>1. PICK p \in ProgramSlots : p = readers[focus] /\ p = Reader
      BY <1>2 DEF KernelInv, KernelTypeOK, Reader
    <2>2. p \in Slots /\ p # Idle /\ thread[p] = "BLOCKED_KB"
      BY <1>2, <2>1, SlotFacts DEF KernelInv, WaitsInv, ReadersMatch
    <2>3. p \in occupied /\ p # active
      BY <1>1, <2>2, ActiveIsFree DEF KernelInv, ThreadsInv
    <2> QED
      BY <2>1, <2>2, <2>3
  <1>4. /\ active \in Slots /\ regs = Fresh(active) /\ regs \in Registers
        /\ thread[active] = "RUNNING" /\ active \in occupied
        /\ \A q \in Slots : q # active => thread[q] # "RUNNING"
    BY <1>1, ActiveIsFree
  <1> DEFINE kept == [context EXCEPT ![active] = regs]
             ready == [thread EXCEPT ![active] = "READY"]
  <1>5. ready[p] = "BLOCKED_KB" /\ kept[p] = [of |-> p, asked |-> TRUE]
    BY <1>3, <1>4 DEF KernelInv, KernelTypeOK, ThreadsInv
  <1>6. /\ context' = [kept EXCEPT ![p] = Answer(@)]
        /\ kbUsed' = [kbUsed EXCEPT ![p] = 0]
        /\ readers' = ReadersWithout(focus)
        /\ Resume(p, ready, context', regs)
        /\ UNCHANGED focus
    BY <1>3, <1>5 DEF KeyNewline
  <1>7. /\ context' \in [Slots -> Registers]
        /\ context'[p] = Fresh(p) /\ context'[active] = Fresh(active)
        /\ \A q \in Slots : q # p /\ q # active => context'[q] = context[q]
    BY <1>3, <1>4, <1>5, <1>6, FreshType DEF KernelInv, KernelTypeOK
  <1>8. /\ thread' \in [Slots -> ThreadStates]
        /\ thread'[p] = "RUNNING" /\ thread'[active] = "READY"
        /\ \A q \in Slots : q # p /\ q # active => thread'[q] = thread[q]
    BY <1>3, <1>4, <1>6 DEF Resume, KernelInv, KernelTypeOK, ThreadStates
  <1>9. /\ last' = p /\ active' = p /\ phase' = "user"
        /\ saved' = Fresh(p) /\ regs' = Fresh(p)
    BY <1>3, <1>6, <1>7 DEF Resume
  <1>10. /\ readers' \in [0 .. Windows - 1 -> ProgramSlots \cup {NoSlot}]
         /\ \A w \in 0 .. Windows - 1 : w = ProgramWindow => readers'[w] = NoSlot
         /\ \A w \in 0 .. Windows - 1 : w # ProgramWindow => readers'[w] = readers[w]
    BY <1>2, <1>6 DEF ReadersWithout, KernelInv, KernelTypeOK
  <1>11. kbUsed' \in [Slots -> 0 .. KbSize - 1]
    BY <1>3, <1>6, SizeAssumption DEF KernelInv, KernelTypeOK
  <1>12. focus' = focus
    BY <1>6
  <1> HIDE DEF kept, ready
  <1>13. KernelTypeOK'
    BY <1>1, <1>3, <1>7, <1>8, <1>9, <1>10, <1>11, <1>12, FreshType
    DEF KernelInv, KernelTypeOK
  <1>14. EntryInv'
    BY <1>1, <1>3, <1>4, <1>8, <1>9 DEF EntryInv, InHandler
  <1>15. ThreadsInv'
    <2>1. Idle \in occupied' /\ thread'[Idle] \in {"READY", "RUNNING"}
      BY <1>1, <1>3, <1>8, SlotFacts DEF KernelInv, ThreadsInv
    <2>2. \A q \in Slots \ occupied' : thread'[q] \in {"EMPTY", "READY"}
      BY <1>1, <1>3, <1>4, <1>8 DEF KernelInv, ThreadsInv
    <2>3. \A q \in Slots :
            /\ thread'[q] = "READY" => context'[q] = Fresh(q)
            /\ thread'[q] \in FileStates \cup {"BLOCKED_KB"} =>
                 context'[q] = [of |-> q, asked |-> TRUE]
      BY <1>7, <1>8 DEF KernelInv, ThreadsInv, FileStates
    <2> QED
      BY <2>1, <2>2, <2>3 DEF ThreadsInv, Fresh
  <1>16. WaitsInv'
    <2>1. \A i \in DOMAIN jobs :
            /\ jobs[i].slot \in Slots /\ jobs[i].slot # p
            /\ jobs[i].slot # active
      BY <1>1, <1>3, ActiveIsFree, JobFacts DEF KernelInv, WaitsInv, JobsMatch,
         FileStates
    <2>2. \A i \in DOMAIN jobs : thread'[jobs[i].slot] = thread[jobs[i].slot]
      BY <1>8, <2>1
    <2>3. OneJobEach' /\ JobsMatch'
      BY <1>1, <2>2 DEF KernelInv, WaitsInv, OneJobEach, JobsMatch
    <2>4. BlockedHaveJobs' /\ BuffersMatch'
      BY <1>1, <1>3, <1>4, <1>8 DEF KernelInv, WaitsInv, BlockedHaveJobs,
         BuffersMatch, FileStates
    <2>5. ReadersMatch'
      <3>1. /\ p \notin replaced /\ replaced' = replaced /\ replaced \subseteq Slots
            /\ active \notin replaced
        BY <1>1, <1>2, <1>3, <1>4, SlotFacts DEF KernelInv, KernelTypeOK, WaitsInv,
           ReadersMatch
      <3>2. \A w \in 0 .. Windows - 1 : readers'[w] = NoSlot
        BY <1>10 DEF KernelInv, WaitsInv, ReadersMatch
      <3>3. \A q \in replaced : thread'[q] = "BLOCKED_KB"
        BY <1>8, <3>1 DEF KernelInv, WaitsInv, ReadersMatch
      <3>4. ASSUME NEW q \in Slots, thread'[q] = "BLOCKED_KB"
            PROVE  q \in replaced
        <4>1. q # p /\ q # active /\ thread[q] = "BLOCKED_KB"
          BY <1>3, <1>8, <3>4
        <4>2. \A w \in 0 .. Windows - 1 : readers[w] # q
          BY <1>2, <1>3, <4>1, SlotFacts DEF KernelInv, WaitsInv, ReadersMatch
        <4> QED
          BY <4>1, <4>2 DEF KernelInv, WaitsInv, ReadersMatch
      <3> QED
        BY <3>1, <3>2, <3>3, <3>4 DEF ReadersMatch
    <2> QED
      BY <2>3, <2>4, <2>5 DEF WaitsInv
  <1>17. DiskInv' /\ KeyInv'
    BY <1>1, <1>9 DEF KernelInv, DiskInv, KeyInv
  <1> QED
    BY <1>13, <1>14, <1>15, <1>16, <1>17 DEF KernelInv

-----------------------------------------------------------------------------
(***************************************************************************)
(* The boot, the next-state relation and the theorems.                     *)
(***************************************************************************)
\* The boot establishes the invariant.
LEMMA InitEstablishes ==
    ASSUME Init
    PROVE  KernelInv /\ stopped = "no"
  <1> USE SlotFacts, SizeAssumption, TableAssumption DEF Init
  <1>1. PICK n \in 1 .. MaxParts : jobs = <<[slot |-> 1, op |-> "LOAD", left |-> n]>>
    OBVIOUS
  <1> DEFINE job == [slot |-> 1, op |-> "LOAD", left |-> n]
  <1>2. job \in Job /\ job.slot = 1 /\ job.op = "LOAD"
    BY DEF Job, Transfers
  <1>3. jobs = <<job>>
    BY <1>1
  <1> HIDE DEF job
  <1>4. /\ jobs \in Seq(Job) /\ jobs # <<>> /\ DOMAIN jobs = {1}
        /\ jobs[1] = job /\ Head(jobs) = job
    BY <1>2, <1>3
  <1>5. 1 \in Slots /\ 1 # Idle /\ Idle \in Slots
    BY DEF Idle
  <1>6. KernelTypeOK
    <2>1. SchedulingTypes
      BY <1>5, FreshType DEF SchedulingTypes, ThreadStates
    <2>2. readers \in [0 .. Windows - 1 -> ProgramSlots \cup {NoSlot}]
      OBVIOUS
    <2>3. opened \in [Slots -> 0 .. MaxFiles] /\ kbUsed \in [Slots -> 0 .. KbSize - 1]
      OBVIOUS
    <2>4. loading \in 1 .. Programs /\ keysLeft \in 0 .. MaxKeys
      OBVIOUS
    <2> QED
      BY <1>4, <2>1, <2>2, <2>3, <2>4 DEF KernelTypeOK, SchedulingTypes, Codes
  <1>7. EntryInv
    BY <1>5 DEF EntryInv, InHandler
  <1>8. ThreadsInv
    BY <1>5 DEF ThreadsInv, FileStates
  <1>9. OneJobEach /\ JobsMatch
    BY <1>2, <1>4, <1>5 DEF OneJobEach, JobsMatch, FileStates
  <1>10. BlockedHaveJobs /\ BuffersMatch /\ ReadersMatch
    BY DEF BlockedHaveJobs, BuffersMatch, ReadersMatch, FileStates
  <1>11. DiskInv /\ KeyInv
    BY <1>2, <1>4 DEF DiskInv, KeyInv, Transfers
  <1> QED
    BY <1>6, <1>7, <1>8, <1>9, <1>10, <1>11 DEF KernelInv, WaitsInv

\* Every entry of a program keeps the invariant,
LEMMA UserEntriesKeep ==
    ASSUME KernelInv, Syscall \/ KillActive
    PROVE  KernelInv'
  <1>1. CASE SyscallFstatStandard
    BY <1>1, StopKeeps DEF SyscallFstatStandard
  <1>2. CASE \E op \in {"READ", "WRITE"} : SyscallTransfer(op)
    BY <1>2, SyscallTransferKeeps
  <1> QED
    BY <1>1, <1>2, SyscallAnsweredKeeps, SyscallReadKeyboardKeeps,
       SyscallOpenKeeps, SyscallCloseKeeps, SyscallForkKeeps, KillActiveKeeps
    DEF Syscall

\* every step of the kernel does,
LEMMA KernelStepKeeps ==
    ASSUME KernelInv, KernelStep
    PROVE  KernelInv'
  <1>1. CASE KeyboardInterrupt
    <2>1. CASE KeyNobodyReads \/ KeyOverruns
      BY <2>1, StopKeeps DEF KeyNobodyReads, KeyOverruns
    <2> QED
      BY <1>1, <2>1, KeyEditsKeeps, KeyNewlineKeeps, KeyDiscardedKeeps,
         KeyMovesFocusKeeps DEF KeyboardInterrupt
  <1>2. CASE HdInterrupt
    BY <1>2, HdInterruptPartKeeps, HdInterruptAnswersKeeps,
       HdInterruptLoadsKeeps DEF HdInterrupt
  <1>3. CASE HdNextRequest
    BY <1>3, HdStartsTransferKeeps, HdHasNothingKeeps, HdDoesFileKeeps,
       HdOpensProgramKeeps DEF HdNextRequest
  <1> QED
    BY <1>1, <1>2, <1>3, TimerInterruptKeeps, ScheduleKeeps DEF KernelStep

\* and so does doing nothing.
LEMMA StutterKeeps ==
    ASSUME KernelInv, UNCHANGED vars
    PROVE  KernelInv'
  <1> USE DEF KernelInv, vars, scheduling, resources, devices
  <1>1. KernelTypeOK'
    BY DEF KernelTypeOK
  <1>2. EntryInv' /\ ThreadsInv'
    BY DEF EntryInv, InHandler, ThreadsInv
  <1>3. WaitsInv'
    BY DEF WaitsInv, OneJobEach, JobsMatch, BlockedHaveJobs, BuffersMatch,
       ReadersMatch
  <1>4. DiskInv' /\ KeyInv'
    BY DEF DiskInv, KeyInv
  <1> QED
    BY <1>1, <1>2, <1>3, <1>4

\* The inductive invariant holds in every state of the kernel.
THEOREM InvariantHolds == KernelSpec => []KernelInv
  <1>1. Init => KernelInv
    BY InitEstablishes
  <1>2. KernelInv /\ [KernelNext]_vars => KernelInv'
    BY IoKeeps, TakeInterruptKeeps, SkipTimerKeeps, UserEntriesKeep,
       KernelStepKeeps, StutterKeeps DEF KernelNext
  <1> QED
    BY <1>1, <1>2, PTL DEF KernelSpec

\* Up to the step that leaves an array, if one does, the variables keep their
\* types: files and keyboard buffers stay in their bounds, the focus is on a
\* window.  That no array is left is not claimed: the loader's may be
\* (start_c.c:96), and the readers' is with a single window (process.c:32).
THEOREM TypeCorrect == KernelSpec => []KernelTypeOK
  <1>1. KernelInv => KernelTypeOK
    BY DEF KernelInv
  <1> QED
    BY <1>1, InvariantHolds, PTL

\* The program that goes on is the active thread's, with its own registers
\* and its system call answered (interrupt.S, process.c).
THEOREM ResumesAnsweredHolds == KernelSpec => []ResumesAnswered
  <1>1. KernelInv => ResumesAnswered
    BY DEF KernelInv, EntryInv, InHandler, KernelTypeOK, ResumesAnswered
  <1> QED
    BY <1>1, InvariantHolds, PTL

\* Finished transfers and typed keys stay announced.
THEOREM EventsAreAnnouncedHolds == KernelSpec => []EventsAreAnnounced
  <1>1. KernelInv => EventsAreAnnounced
    BY DEF KernelInv, DiskInv, KeyInv, EventsAreAnnounced
  <1> QED
    BY <1>1, InvariantHolds, PTL

\* A thread blocked in a file operation has its one request and its buffer;
\* one that waits for the keyboard is the reader of a window or was replaced
\* by another reader (syscalls.c:103), after which nothing wakes it.
THEOREM BlockedIsAwaitedHolds == KernelSpec => []BlockedIsAwaited
  <1>1. ASSUME KernelInv PROVE BlockedIsAwaited
    <2> USE <1>1
    <2>1. ASSUME NEW p \in occupied
          PROVE  /\ thread[p] \in FileStates =>
                      \E i \in DOMAIN jobs : /\ JobsOf(p) = {i}
                                             /\ jobs[i].op = thread[p]
                 /\ p \in buffers <=> thread[p] \in {"READ", "WRITE"}
      <3>1. p \in Slots
        BY DEF KernelInv, KernelTypeOK
      <3>2. ASSUME thread[p] \in FileStates
            PROVE  \E i \in DOMAIN jobs : JobsOf(p) = {i} /\ jobs[i].op = thread[p]
        <4>1. PICK i \in DOMAIN jobs : jobs[i].slot = p
          BY <3>1, <3>2 DEF KernelInv, WaitsInv, BlockedHaveJobs
        <4>2. JobsOf(p) = {i}
          BY <4>1 DEF JobsOf, KernelInv, WaitsInv, OneJobEach
        <4>3. jobs[i].op = thread[p]
          BY <3>2, <4>1 DEF KernelInv, WaitsInv, JobsMatch, FileStates
        <4> QED
          BY <4>2, <4>3
      <3> QED
        BY <3>1, <3>2 DEF KernelInv, WaitsInv, BuffersMatch
    <2>2. \A i \in DOMAIN jobs :
            /\ jobs[i].slot \in occupied
            /\ thread[jobs[i].slot] =
                 IF jobs[i].op \in FileStates THEN jobs[i].op ELSE "EMPTY"
      BY DEF KernelInv, WaitsInv, JobsMatch
    <2>3. /\ WaitForKey = RegisteredReaders \cup replaced
          /\ RegisteredReaders \cap replaced = {}
      <3>1. DOMAIN readers = 0 .. Windows - 1 /\ replaced \subseteq Slots
        BY SlotFacts DEF KernelInv, KernelTypeOK
      <3>2. ASSUME NEW p \in RegisteredReaders
            PROVE  p \in Slots /\ thread[p] = "BLOCKED_KB" /\ p \notin replaced
        BY <3>1, SlotFacts DEF RegisteredReaders, KernelInv, KernelTypeOK, WaitsInv,
           ReadersMatch
      <3>3. \A p \in replaced : p \in Slots /\ thread[p] = "BLOCKED_KB"
        BY <3>1 DEF KernelInv, WaitsInv, ReadersMatch
      <3>4. \A p \in Slots : thread[p] = "BLOCKED_KB" => p \in occupied
        BY DEF KernelInv, ThreadsInv
      <3>5. ASSUME NEW p \in WaitForKey
            PROVE  p \in RegisteredReaders \cup replaced
        <4>1. p \in Slots /\ p # NoSlot /\ thread[p] = "BLOCKED_KB"
          BY SlotFacts DEF WaitForKey, KernelInv, KernelTypeOK
        <4>2. p \in replaced \/ \E w \in 0 .. Windows - 1 : readers[w] = p
          BY <4>1 DEF KernelInv, WaitsInv, ReadersMatch
        <4> QED
          BY <3>1, <4>1, <4>2 DEF RegisteredReaders
      <3> QED
        BY <3>2, <3>3, <3>4, <3>5 DEF WaitForKey
    <2>4. phase = "user" => (jobs = <<>> <=> hd = "idle")
      BY DEF KernelInv, DiskInv
    <2> QED
      BY <2>1, <2>2, <2>3, <2>4 DEF BlockedIsAwaited
  <1> QED
    BY <1>1, InvariantHolds, PTL

-----------------------------------------------------------------------------
\* A callback finds the thread of its request blocked in the request's call.
LEMMA CallbacksAreExpected ==
    ASSUME KernelInv
    PROVE  /\ jobs # <<>> /\ Head(jobs).op \in {"OPEN", "CLOSE"} =>
                Awaits(Head(jobs))
           /\ At("hd") /\ Head(jobs).op # "LOAD" =>
                [thread EXCEPT ![active] = "READY"][Head(jobs).slot] =
                    Head(jobs).op
  <1>1. jobs # <<>> /\ Head(jobs).op \in {"OPEN", "CLOSE"} => Awaits(Head(jobs))
    BY TailOfJobs DEF KernelInv, WaitsInv, JobsMatch, FileStates, Awaits
  <1>2. ASSUME At("hd"), Head(jobs).op # "LOAD"
        PROVE  [thread EXCEPT ![active] = "READY"][Head(jobs).slot] = Head(jobs).op
    <2>1. /\ Head(jobs).slot \in Slots /\ Head(jobs).slot # active
          /\ Head(jobs) = jobs[1] /\ 1 \in DOMAIN jobs
          /\ Head(jobs).op \in FileStates
      BY <1>2, HdInterruptEntry DEF Transfers, FileStates
    <2>2. thread[Head(jobs).slot] = Head(jobs).op
      BY <2>1 DEF KernelInv, WaitsInv, JobsMatch
    <2> QED
      BY <2>1, <2>2 DEF KernelInv, KernelTypeOK
  <1> QED
    BY <1>1, <1>2

\* No entry of a program fails an assertion,
LEMMA UserNeverAsserts ==
    ASSUME KernelInv, stopped # "assert", Syscall \/ KillActive
    PROVE  stopped' # "assert"
  <1>1. CASE \E op \in {"READ", "WRITE"} : SyscallTransfer(op)
    BY <1>1, BufferIsFree DEF SyscallTransfer
  <1>2. CASE SyscallFstatStandard
    BY <1>2 DEF SyscallFstatStandard, Stop
  <1>3. CASE SyscallAnswered \/ SyscallReadKeyboard \/ KillActive
    BY <1>3 DEF SyscallAnswered, SyscallReadKeyboard, KillActive, Stop
  <1>4. CASE SyscallOpen \/ SyscallClose \/ SyscallFork
    BY <1>4 DEF SyscallOpen, SyscallClose, SyscallFork
  <1> QED
    BY <1>1, <1>2, <1>3, <1>4 DEF Syscall

\* and no step of the kernel does.
LEMMA StepNeverAsserts ==
    ASSUME KernelInv, stopped # "assert", KernelStep
    PROVE  stopped' # "assert"
  <1>1. CASE TimerInterrupt \/ Schedule
    BY <1>1 DEF TimerInterrupt, Schedule
  <1>2. CASE KeyboardInterrupt
    BY <1>2 DEF KeyboardInterrupt, KeyEdits, KeyNewline, KeyDiscarded,
       KeyMovesFocus, KeyNobodyReads, KeyOverruns, KeyRead, Stop
  <1>3. CASE HdInterruptPart
    BY <1>3 DEF HdInterruptPart
  <1>4. CASE HdInterruptAnswers
    BY <1>4, CallbacksAreExpected DEF HdInterruptAnswers
  <1>5. CASE HdInterruptLoads
    BY <1>5 DEF HdInterruptLoads, LoadsNext, LoadsLast, Loaded, Stop
  <1>6. CASE HdStartsTransfer \/ HdHasNothing \/ HdOpensProgram
    BY <1>6 DEF HdStartsTransfer, HdHasNothing, HdOpensProgram, Stop
  <1>7. CASE HdDoesFile
    BY <1>7, CallbacksAreExpected DEF HdDoesFile
  <1> QED
    BY <1>1, <1>2, <1>3, <1>4, <1>5, <1>6, <1>7
    DEF KernelStep, HdInterrupt, HdNextRequest

\* No KERNEL_ASSERT of the system calls fails.
THEOREM AssertionsHold == KernelSpec => []KernelAssertionsHold
  <1>1. Init => KernelAssertionsHold
    BY InitEstablishes DEF KernelAssertionsHold
  <1>2. ASSUME KernelInv, KernelAssertionsHold, [KernelNext]_vars
        PROVE  KernelAssertionsHold'
    <2>1. CASE Io \/ TakeInterrupt \/ SkipTimer
      BY <1>2, <2>1 DEF KernelAssertionsHold, Io, IoCycle, TakeInterrupt, SkipTimer
    <2>2. CASE UNCHANGED vars
      BY <1>2, <2>2 DEF KernelAssertionsHold, vars
    <2> QED
      BY <1>2, <2>1, <2>2, UserNeverAsserts, StepNeverAsserts
      DEF KernelAssertionsHold, KernelNext
  <1> QED
    BY <1>1, <1>2, InvariantHolds, PTL DEF KernelSpec
=============================================================================
