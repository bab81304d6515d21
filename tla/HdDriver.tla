------------------------------ MODULE HdDriver ------------------------------
(***************************************************************************)
(* The hd driver of the guest kernel (kernel/src_kernel/external_hd.c) and *)
(* its clients: threads blocked in a file system call (syscalls.c) and the *)
(* loader, which opens and reads one program after another from inside the *)
(* driver's callbacks (process.c, start_c.c).                              *)
(*                                                                         *)
(* The kernel runs with interrupts off and under its lock, so a kernel     *)
(* entry is not interleaved with another one; the device goes on while it  *)
(* runs.  next_request and request_processed call each other in tail       *)
(* position; phase tells which runs next, and "user" that the kernel is    *)
(* left.                                                                   *)
(*                                                                         *)
(* Abstractions.  One file and one thread per program.  The seek operation *)
(* has no requester and is left out.  File contents are left out; a        *)
(* transfer is the number of bytes it moved.                               *)
(***************************************************************************)
EXTENDS HdDevice, Sequences

CONSTANTS
    Programs,     \* number of programs start_c loads
    Capacity,     \* CONFIG_KERNEL_MAX_HD_OPERATIONS
    Sector,       \* CONFIG_KERNEL_EXTERNAL_HD_SECTOR_SIZE
    ReadLens,     \* lengths of the reads the threads request
    WriteLens,    \* lengths of their writes
    LoadLens,     \* sizes of the program files
    MayFail,      \* whether an open may fail
    FilePos       \* what GET_FILEPOS and GET_FILESIZE leave in file_bytes

Threads == 1 .. Programs
Loader == 0
Clients == Threads \cup {Loader}

ASSUME FilesAssumption == Files = Clients
ASSUME ProgramsAssumption == Programs \in Nat \ {0}
ASSUME RingAssumption == Capacity \in Nat \ {0} /\ Sector \in Nat \ {0}
ASSUME LengthAssumption ==
    /\ ReadLens \subseteq Nat
    /\ WriteLens \subseteq Nat
    /\ LoadLens \subseteq Nat
    /\ FilePos \in Nat
    /\ MayFail \in BOOLEAN

VARIABLES
    operations,     \* the ring of jobs
    listStart,      \* its oldest job
    listEnd,        \* its first free entry
    listAvailable,  \* number of free entries
    idle,           \* i_am_idle
    phase,          \* what the kernel does next
    result,         \* the argument of request_processed
    hd,             \* the device
    irq,            \* its interrupt is pending at the processor
    waits,          \* the operation each client waits for
    loading,        \* the program that is loaded next
    hasFile,        \* threads whose file is open
    answer,         \* the value a client's callback received, 0 before
    moved,          \* history: what the device did for each client's request
    panic           \* why the kernel panicked

ring == <<operations, listStart, listEnd, listAvailable>>
kernel == <<idle, phase, result>>
device == <<hd, irq>>
clients == <<waits, loading, hasFile, answer>>
vars == <<ring, kernel, device, clients, moved, panic>>

----------------------------------------------------------------------------
(* The ring.                                                               *)

Slots == 0 .. Capacity - 1
Ops == {"OPEN", "READ", "WRITE", "CLOSE"}

\* last: the callback of the entry is not NULL.
Operation == [client : Clients, op : Ops, len : Nat, last : BOOLEAN,
              intermediate : Nat]

Unused == [client |-> Loader, op |-> "READ", len |-> 0, last |-> FALSE,
           intermediate |-> 0]

\* MUTANT: wraps one entry too late.
WrapLate(i) == IF i > Capacity THEN i - Capacity ELSE i

Wrap(i) == IF i >= Capacity THEN i - Capacity ELSE i

\* Entries for the jobs of one request: a transfer is cut at every sector
\* and only its last part has the callback.
FullSectors(len) == IF len = 0 THEN 0 ELSE (len - 1) \div Sector

\* MUTANT: the callback is that of the first part.
EntriesCallFirst(c, op, len) ==
    [i \in 1 .. FullSectors(len) + 1 |->
        [client |-> c, op |-> op, last |-> i = 1, intermediate |-> 0,
         len |-> IF i > FullSectors(len) THEN len - FullSectors(len) * Sector
                 ELSE Sector]]

Entries(c, op, len) ==
    [i \in 1 .. FullSectors(len) + 1 |->
        LET last == i > FullSectors(len) IN
        [client |-> c, op |-> op, last |-> last, intermediate |-> 0,
         len |-> IF last THEN len - FullSectors(len) * Sector ELSE Sector]]

\* How far entry s is from the first free one.
Offset(s) == IF s >= listEnd THEN s - listEnd ELSE s + Capacity - listEnd

\* The ring after external_hd_request_job for each of the entries.
Enqueued(entries) ==
    [s \in Slots |->
        LET k == Offset(s) IN
        IF k < Len(entries) THEN entries[k + 1] ELSE operations[s]]

Oldest == operations[listStart]
Used == Capacity - listAvailable

----------------------------------------------------------------------------

Init ==
    /\ operations = [s \in Slots |-> Unused]
    /\ listStart = 0
    /\ listEnd = 0
    /\ listAvailable = Capacity
    /\ idle = TRUE
    /\ phase = "boot"
    /\ result = 0
    /\ hd = DeviceAtStart
    /\ irq = FALSE
    /\ waits = [c \in Clients |-> "none"]
    /\ loading = 1
    /\ hasFile = {}
    /\ answer = [c \in Clients |-> 0]
    /\ moved = [c \in Clients |-> 0]
    /\ panic = "no"

\* The kernel is about to do what p names.
At(p) == panic = "no" /\ phase = p

\* KERNEL_ASSERT(cond) in a handler that otherwise does step.
Asserting(cond, step) ==
    \/ cond /\ step /\ UNCHANGED panic
    \/ ~cond /\ panic' = "assert"
       /\ UNCHANGED <<ring, kernel, device, clients, moved>>

----------------------------------------------------------------------------
(* Requests from outside a callback.                                       *)

\* MUTANT: starts the driver whether it is idle or not.
AlwaysStart == "next"

\* The end of external_hd_request_job.
AfterRequest == IF idle THEN "next" ELSE "user"

\* external_hd_request_*: every part is a request_job, and the first one
\* starts the driver if it is idle.
Submit(c, op, len) ==
    LET entries == Entries(c, op, len) IN
    Asserting(Len(entries) <= listAvailable,
        /\ operations' = Enqueued(entries)
        /\ listEnd' = Wrap(listEnd + Len(entries))
        /\ listAvailable' = listAvailable - Len(entries)
        /\ phase' = AfterRequest
        /\ waits' = [waits EXCEPT ![c] = op]
        /\ answer' = [answer EXCEPT ![c] = 0]
        /\ moved' = [moved EXCEPT ![c] = 0]
        /\ UNCHANGED <<listStart, idle, result, device, loading, hasFile>>)

\* start_load_console: the first program.
Boot ==
    /\ At("boot")
    /\ Submit(Loader, "OPEN", 0)

\* A thread of a loaded program that is not blocked makes a system call.
Calls(t) ==
    /\ At("user")
    /\ t < loading
    /\ waits[t] = "none"

SyscallOpen(t) ==
    /\ Calls(t)
    /\ t \notin hasFile
    /\ Submit(t, "OPEN", 0)

SyscallRead(t) ==
    /\ Calls(t)
    /\ t \in hasFile
    /\ \E len \in ReadLens : Submit(t, "READ", len)

SyscallWrite(t) ==
    /\ Calls(t)
    /\ t \in hasFile
    /\ \E len \in WriteLens : Submit(t, "WRITE", len)

SyscallClose(t) ==
    /\ Calls(t)
    /\ t \in hasFile
    /\ Submit(t, "CLOSE", 0)

----------------------------------------------------------------------------
(* external_hd_next_request: the oldest job.                               *)

Starts(op) == At("next") /\ Oldest.op = op

\* MUTANT: set_file_handler is forgotten.
AddressedBytes == SetBytes(hd, Oldest.len)

\* The device, told which file and how many bytes to transfer.
Addressed == SetBytes(SelectFile(hd, Oldest.client), Oldest.len)

\* A transfer is left to the device, and the kernel to its callers.
LeftTo(d) ==
    /\ hd' = d
    /\ idle' = FALSE
    /\ phase' = "user"
    /\ UNCHANGED <<ring, result, irq, clients, moved>>

StartRead ==
    /\ Starts("READ")
    /\ Asserting(hd.state = "IDLE",
                 LeftTo(Command(Addressed, "READ_SECTOR")))

\* The bytes go to the device first, then the command.
StartWrite ==
    LET waiting == Command(Addressed, "WRITE_FILE_BUFFER")
        filled == SendBytes(waiting, Oldest.len)
    IN
    /\ Starts("WRITE")
    /\ Asserting(/\ hd.state = "IDLE"
                 /\ waiting.state = "WAIT_WBUFFER"
                 /\ filled.state = "IDLE",
                 LeftTo(Command(filled, "WRITE_SECTOR")))

\* What the device answers at once goes to request_processed with r.
DoneBy(d, r) ==
    /\ hd' = d
    /\ result' = r
    /\ moved' = [moved EXCEPT ![Oldest.client] = r]
    /\ idle' = FALSE
    /\ phase' = "processed"
    /\ UNCHANGED <<ring, irq, clients>>

StartOpen ==
    LET named == Command(Command(hd, "FNAME_START"), "FNAME_END") IN
    /\ Starts("OPEN")
    /\ Asserting(hd.state = "IDLE" /\ named.state = "IDLE",
          \/ DoneBy(FileInfo(OpenFile(named, Oldest.client, TRUE), FilePos), 1)
          \/ MayFail /\ DoneBy(OpenFile(named, Oldest.client, FALSE), 0))

StartClose ==
    /\ Starts("CLOSE")
    /\ Asserting(hd.state = "IDLE",
                 DoneBy(CloseFile(SelectFile(hd, Oldest.client)), 1))

----------------------------------------------------------------------------
(* external_hd_request_processed: the oldest job is done.                  *)

\* MUTANT: the parts before are forgotten.
TotalOfLast == result

\* What it has moved, with the parts before it.
Total == result + Oldest.intermediate

\* MUTANT: the rest of the queue waits for the next request.
AfterJobWaits(available) == "user"

\* The end of request_processed, when that many entries are free.
AfterJob(available) == IF available < Capacity THEN "next" ELSE "user"

\* The job leaves the ring, after its callback has made the request made of
\* entries; the driver goes on with the next job if there is one.
Finished(entries) ==
    /\ operations' = Enqueued(entries)
    /\ listEnd' = Wrap(listEnd + Len(entries))
    /\ listAvailable' = listAvailable - Len(entries) + 1
    /\ listStart' = Wrap(listStart + 1)
    /\ idle' = TRUE
    /\ phase' = AfterJob(listAvailable')
    /\ UNCHANGED <<result, device>>

\* A part of a transfer without a callback hands its result to the next one.
PartProcessed ==
    LET next == Wrap(listStart + 1) IN
    /\ At("processed")
    /\ ~Oldest.last
    /\ Asserting(hd.state = "IDLE",
          /\ operations' = [operations EXCEPT ![next].intermediate = Total]
          /\ listAvailable' = listAvailable + 1
          /\ listStart' = next
          /\ idle' = TRUE
          /\ phase' = AfterJob(listAvailable')
          /\ UNCHANGED <<listEnd, result, device, clients, moved>>)

\* The callback of client c is called with the total.
CallsBack(c) ==
    /\ At("processed")
    /\ Oldest.last
    /\ Oldest.client = c

Answers == answer' = [answer EXCEPT ![Oldest.client] = Total]

\* syscall_*_callback: the thread is ready again.
SyscallDone(t) ==
    /\ CallsBack(t)
    /\ Asserting(waits[t] = Oldest.op /\ hd.state = "IDLE",
          /\ Finished(<<>>)
          /\ Answers
          /\ waits' = [waits EXCEPT ![t] = "none"]
          /\ hasFile' = CASE Oldest.op = "OPEN" /\ result # 0 -> hasFile \cup {t}
                          [] Oldest.op = "CLOSE" -> hasFile \ {t}
                          [] OTHER -> hasFile
          /\ UNCHANGED <<loading, moved>>)

\* The loader's callback requests op, from inside the callback.
LoaderGoesOn(op, len) ==
    LET entries == Entries(Loader, op, len) IN
    Asserting(Len(entries) <= listAvailable /\ hd.state = "IDLE",
        /\ Finished(entries)
        /\ Answers
        /\ waits' = [waits EXCEPT ![Loader] = op]
        /\ moved' = [moved EXCEPT ![Loader] = 0]
        /\ loading' = IF op = "OPEN" THEN loading + 1 ELSE loading
        /\ UNCHANGED hasFile)

\* process_callback_open_file: read the whole program.
ProgramOpened ==
    /\ CallsBack(Loader)
    /\ Oldest.op = "OPEN"
    /\ result # 0
    /\ \E len \in LoadLens : LoaderGoesOn("READ", len)

\* The callback of start_c panics when a program cannot be opened.
ProgramMissing ==
    /\ CallsBack(Loader)
    /\ Oldest.op = "OPEN"
    /\ result = 0
    /\ panic' = "load"
    /\ UNCHANGED <<ring, kernel, device, clients, moved>>

\* process_callback_read_file: the program's thread is ready, and the
\* callback of start_c loads the next program.
ProgramLoaded ==
    /\ CallsBack(Loader)
    /\ Oldest.op = "READ"
    /\ loading < Programs
    /\ LoaderGoesOn("OPEN", 0)

LastProgramLoaded ==
    /\ CallsBack(Loader)
    /\ Oldest.op = "READ"
    /\ loading = Programs
    /\ Asserting(hd.state = "IDLE",
          /\ Finished(<<>>)
          /\ Answers
          /\ waits' = [waits EXCEPT ![Loader] = "none"]
          /\ loading' = loading + 1
          /\ UNCHANGED <<hasFile, moved>>)

----------------------------------------------------------------------------
(* The device and its interrupt.                                           *)

\* external_hd_t::cycle, a transfer ends.
DeviceTransfers ==
    /\ panic = "no"
    /\ Transferring(hd)
    /\ \E n \in 0 .. hd.fileBytes :
         /\ hd' = Transferred(hd, n)
         /\ moved' = [moved EXCEPT ![hd.file] = @ + n]
    /\ UNCHANGED <<ring, kernel, irq, clients, panic>>

\* The device asks for its interrupt in every cycle; the processor accepts
\* one when it has none pending.
InterruptAccepted ==
    /\ panic = "no"
    /\ hd.mustInterrupt
    /\ ~irq
    /\ hd' = InterruptWon(hd)
    /\ irq' = TRUE
    /\ UNCHANGED <<ring, kernel, clients, moved, panic>>

\* external_hd_interrupt: the bytes read are fetched from the device, the
\* file position is asked for, and the job is done.
HdInterrupt ==
    LET reads == Oldest.op = "READ"
        emptied == IF reads THEN TakeBytes(hd, hd.fileBytes) ELSE hd
    IN
    /\ At("user")
    /\ irq
    /\ Asserting(/\ Oldest.op \in {"READ", "WRITE"}
                 /\ reads /\ hd.fileBytes > 0 => hd.state = "WAIT_READ"
                 /\ emptied.state = "IDLE",
          /\ hd' = FileInfo(emptied, FilePos)
          /\ result' = hd.fileBytes
          /\ irq' = FALSE
          /\ phase' = "processed"
          /\ UNCHANGED <<ring, idle, clients, moved>>)

----------------------------------------------------------------------------

\* panic() halts the machine.
Halted == panic # "no" /\ UNCHANGED vars

Syscall(t) ==
    SyscallOpen(t) \/ SyscallRead(t) \/ SyscallWrite(t) \/ SyscallClose(t)

NextRequest == StartRead \/ StartWrite \/ StartOpen \/ StartClose

LoaderDone ==
    \/ ProgramOpened \/ ProgramMissing \/ ProgramLoaded \/ LastProgramLoaded

RequestProcessed ==
    PartProcessed \/ LoaderDone \/ \E t \in Threads : SyscallDone(t)

KernelStep == NextRequest \/ RequestProcessed

Next ==
    \/ Boot
    \/ \E t \in Threads : Syscall(t)
    \/ KernelStep
    \/ HdInterrupt
    \/ DeviceTransfers
    \/ InterruptAccepted
    \/ Halted

Spec == Init /\ [][Next]_vars

\* Every cycle steps the device and asks for its interrupt again; a kernel
\* entry runs to its end, and an accepted interrupt is taken in user mode.
FairSpec ==
    /\ Spec
    /\ WF_vars(Boot)
    /\ WF_vars(KernelStep)
    /\ WF_vars(DeviceTransfers)
    /\ WF_vars(InterruptAccepted)
    /\ WF_vars(HdInterrupt)

----------------------------------------------------------------------------

TypeOK ==
    /\ operations \in [Slots -> Operation]
    /\ listStart \in Slots
    /\ listEnd \in Slots
    /\ listAvailable \in 0 .. Capacity
    /\ idle \in BOOLEAN
    /\ phase \in {"boot", "user", "next", "processed"}
    /\ result \in Nat
    /\ hd \in Device
    /\ irq \in BOOLEAN
    /\ waits \in [Clients -> Ops \cup {"none"}]
    /\ loading \in 1 .. Programs + 1
    /\ hasFile \subseteq Threads
    /\ answer \in [Clients -> Nat]
    /\ moved \in [Clients -> Nat]
    /\ panic \in {"no", "assert", "load"}

\* No assertion of the driver or of a callback fails: the device is in the
\* state each access expects, a callback finds its thread waiting for it, and
\* the ring has room for every request, those made by callbacks included.
AssertionsHold == panic # "assert"

\* The device waits for nobody and nobody for it.
DeviceQuiet == hd.state = "IDLE" /\ ~hd.mustInterrupt /\ ~irq

\* The device works for job, on a file the host has open, or has finished
\* and its interrupt is on the way.
Serving(job) ==
    /\ job.op \in {"READ", "WRITE"}
    /\ hd.file = job.client
    /\ hd.file \in hd.opened
    /\ hd.fileBytes <= job.len
    /\ \/ /\ hd.state = IF job.op = "READ" THEN "READING" ELSE "WRITTING"
          /\ ~hd.mustInterrupt
          /\ ~irq
       \/ /\ hd.state = IF job.op = "READ" /\ hd.fileBytes > 0
                        THEN "WAIT_READ" ELSE "IDLE"
          /\ hd.mustInterrupt # irq

\* Whenever the kernel is left, either the ring is empty and the driver idle
\* or the device is at work for the oldest job and will interrupt: no job
\* waits for a wake-up that was lost, and no interrupt comes for a job that
\* is gone (external_hd_interrupt trusts list_start to name its job).
DriverAndDeviceAgree ==
    panic = "no" =>
        IF phase = "user" /\ Used > 0
        THEN ~idle /\ Serving(Oldest)
        ELSE DeviceQuiet /\ (idle <=> phase # "processed")

\* The value a callback receives is what the device did for the client's
\* request: all parts of a transfer are added up, none twice, and file_bytes
\* is not read after a file command has overwritten it.
AnswerIsTotal ==
    \A c \in Clients : waits[c] = "none" => answer[c] = moved[c]

----------------------------------------------------------------------------
(* The ring implements the queue of HdQueue.                               *)

JobOf(o) == [client |-> o.client, op |-> o.op, len |-> o.len, last |-> o.last]

Queue == [i \in 1 .. Used |-> JobOf(operations[Wrap(listStart + i - 1)])]

Abstract == INSTANCE HdQueue WITH
    queue <- Queue,
    got <- IF Used = 0 THEN 0 ELSE Oldest.intermediate,
    pending <- {c \in Clients : waits[c] # "none"}

\* First come first served: every request is answered once, to its client.
ImplementsQueue == Abstract!Spec

\* A thread blocked in a file system call is called back, and start_c's chain
\* of callbacks loads every program, as long as the kernel has not panicked.
EveryRequestAnswered ==
    /\ \A t \in Threads :
         waits[t] # "none" ~> (waits[t] = "none" \/ panic # "no")
    /\ <>(loading > Programs \/ panic # "no")
=============================================================================
