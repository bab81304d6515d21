------------------------------- MODULE Kernel -------------------------------
(***************************************************************************)
(* The guest kernel on its processor: processes and their scheduler        *)
(* (kernel/src_kernel/process.c), the entries of interrupt.S, the system   *)
(* calls, the keyboard, the loader of start_c.c, and the devices that      *)
(* interrupt it through the interrupt controller (io/int_controller.cpp,   *)
(* timer.cpp, keyboard.cpp).                                               *)
(*                                                                         *)
(* An interrupt is taken only in user mode, so a kernel entry is cut into  *)
(* steps only to let the devices go on meanwhile; phase names the next     *)
(* one.  The hd driver is here what HdQueue promises, with a request that  *)
(* takes one interrupt per part; HdDriver is the detailed one.             *)
(*                                                                         *)
(* Abstractions.  One thread per process and one processor, as in          *)
(* config.h and main.cpp.  The registers of a thread are whose they are    *)
(* and whether a system call it made is unanswered.  Files, memory and     *)
(* what is drawn are left out.                                             *)
(***************************************************************************)
EXTENDS Integers, Sequences, FiniteSets

CONSTANTS
    MaxProcess,     \* CONFIG_KERNEL_MAX_PROCESS, the idle process in slot 0
    Programs,       \* number of programs start_c loads
    LoaderEntries,  \* entries of its array initial_process
    Windows,        \* CONFIG_KERNEL_NUMBER_OF_WINDOWS, the kernel's beside
    Buffers,        \* CONFIG_KERNEL_NUMBER_SYSCALL_BUFFER
    MaxFiles,       \* CONFIG_KERNEL_MAX_OPEN_FILES_PER_PROCESS
    KbSize,         \* CONFIG_KERNEL_PROCESS_KEYBOARD_BUFFER_SIZE
    MaxParts,       \* bound: jobs a transfer is cut into
    MaxKeys         \* bound: keys that are typed

Slots == 0 .. MaxProcess - 1
Idle == 0
ProgramSlots == Slots \ {Idle}
NoSlot == -1
KernelWindow == 0
ProgramWindow == 1

\* There is a slot beside the idle process; the programs need not fit.
ASSUME TableAssumption ==
    /\ MaxProcess \in Nat /\ MaxProcess > 1
    /\ Programs \in Nat \ {0}
    /\ LoaderEntries \in Nat \ {0}
ASSUME BufferAssumption == Buffers \in Nat /\ Buffers >= MaxProcess - 1
ASSUME SizeAssumption ==
    /\ Windows \in Nat \ {0}
    /\ MaxFiles \in Nat \ {0}
    /\ KbSize \in Nat \ {0}
    /\ MaxParts \in Nat \ {0}
    /\ MaxKeys \in Nat

VARIABLES
    occupied,   \* slots of the process table in use
    thread,     \* state of the thread of each slot
    context,    \* the registers each thread_t keeps
    saved,      \* interrupt_context_saved_gpr, _rip and _rflags
    regs,       \* the registers of the processor
    active,     \* process_active_thread_at_cpu
    last,       \* process_last_scheduled_process
    opened,     \* number of files[] entries of a process in use
    readers,    \* process_blocked_window_keyboard
    focus,      \* the focused window
    kbUsed,     \* keyboard_buffer_used of each process
    buffers,    \* threads that hold a system call buffer
    jobs,       \* requests to the hd driver, oldest first
    loading,    \* programs whose loading has begun
    phase,      \* what the processor does next
    stopped,    \* why the kernel stopped
    replaced    \* history: readers another one took the entry from
VARIABLES
    pending,    \* the external interrupt the processor has received
    hd,         \* idle, busy with a transfer, or finished
    hdMust,     \* must_interrupt of the hd
    key,        \* the key the keyboard holds
    kbMust,     \* must_interrupt of the keyboard
    keysLeft    \* keys still to be typed

scheduling == <<occupied, thread, context, saved, regs, active, last>>
resources == <<opened, readers, focus, kbUsed, buffers, jobs, loading,
               replaced>>
devices == <<pending, hd, hdMust, key, kbMust, keysLeft>>
vars == <<scheduling, resources, phase, stopped, devices>>

ThreadStates == {"EMPTY", "READY", "RUNNING", "BLOCKED_KB", "OPEN", "READ",
                 "WRITE", "CLOSE"}
FileStates == {"OPEN", "READ", "WRITE", "CLOSE"}
Transfers == {"READ", "WRITE", "LOAD"}
Codes == {"timer", "hd", "keyboard"}
Keys == {"char", "other", "newline", "backspace", "page_up", "page_down"}
NoKey == "no key"

\* asked: a system call of this thread waits for its answer.
Registers == [of : Slots \cup {NoSlot}, asked : BOOLEAN]
Fresh(p) == [of |-> p, asked |-> FALSE]
KernelRegisters == Fresh(NoSlot)

\* left: the interrupts this request still takes.
Job == [slot : ProgramSlots, op : Transfers \cup {"OPEN", "CLOSE", "LOAD_OPEN"},
        left : 0 .. MaxParts]

At(p) == stopped = "no" /\ phase = p

----------------------------------------------------------------------------
(* The boot: the idle process runs and the first program is read.          *)

Init ==
    /\ occupied = {Idle, 1}
    /\ thread = [p \in Slots |-> IF p = Idle THEN "RUNNING" ELSE "EMPTY"]
    /\ context = [p \in Slots |-> Fresh(p)]
    /\ saved = Fresh(Idle)
    /\ regs = Fresh(Idle)
    /\ active = Idle
    /\ last = Idle
    /\ opened = [p \in Slots |-> 0]
    /\ readers = [w \in 0 .. Windows - 1 |-> NoSlot]
    /\ focus = KernelWindow
    /\ kbUsed = [p \in Slots |-> 0]
    /\ buffers = {}
    /\ \E n \in 1 .. MaxParts :
         jobs = <<[slot |-> 1, op |-> "LOAD", left |-> n]>>
    /\ loading = 1
    /\ phase = "user"
    /\ stopped = "no"
    /\ replaced = {}
    /\ pending = "none"
    /\ hd = "busy"
    /\ hdMust = FALSE
    /\ key = NoKey
    /\ kbMust = FALSE
    /\ keysLeft = MaxKeys

----------------------------------------------------------------------------
(* The devices and the interrupt controller.                               *)

\* The devices ask in the order of io::cycle; the first one wins if the
\* processor has no interrupt yet.
Winner(kbAsks, hdAsks, timerAsks) ==
    CASE pending # "none" -> "none"
      [] OTHER -> CASE kbAsks -> "keyboard"
                    [] hdAsks -> "hd"
                    [] timerAsks -> "timer"
                    [] OTHER -> "none"

\* MUTANT: a keyboard that loses does not ask again.
LostForgotten(asks, won) == FALSE

\* A keyboard that loses asks again; so does the hd, whose flag only a win
\* clears.
AsksAgain(asks, won) == asks /\ ~won

\* One io::cycle: typed is the key the host has (or none), finishes says
\* that the delay of the transfer ends, timerAsks that the counter is over.
IoCycle(typed, finishes, timerAsks) ==
    LET kbAsks == kbMust \/ typed # NoKey
        hdAsks == hdMust \/ finishes
        winner == Winner(kbAsks, hdAsks, timerAsks)
    IN
    /\ stopped = "no"
    /\ typed # NoKey => key = NoKey /\ ~kbMust /\ keysLeft > 0
    /\ finishes => hd = "busy" /\ ~hdMust
    /\ keysLeft' = IF typed # NoKey THEN keysLeft - 1 ELSE keysLeft
    /\ key' = IF typed # NoKey THEN typed ELSE key
    /\ kbMust' = AsksAgain(kbAsks, winner = "keyboard")
    /\ hd' = IF finishes THEN "finished" ELSE hd
    /\ hdMust' = (hdAsks /\ winner # "hd")
    /\ pending' = IF winner = "none" THEN pending ELSE winner
    /\ UNCHANGED <<scheduling, resources, phase, stopped>>

Io == \E typed \in Keys \cup {NoKey}, finishes, timerAsks \in BOOLEAN :
         IoCycle(typed, finishes, timerAsks)

\* MUTANT: the kernel can be interrupted.
TakeNested ==
    /\ stopped = "no"
    /\ pending # "none"
    /\ phase' = pending
    /\ pending' = "none"
    /\ UNCHANGED <<scheduling, resources, stopped, hd, hdMust, key, kbMust,
                   keysLeft>>

\* The processor takes an external interrupt, in user mode only.
TakeInterrupt ==
    /\ At("user")
    /\ pending # "none"
    /\ phase' = pending
    /\ pending' = "none"
    /\ UNCHANGED <<scheduling, resources, stopped, hd, hdMust, key, kbMust,
                   keysLeft>>

\* One that comes in kernel mode waits, but that of the timer is skipped.
SkipTimer ==
    /\ stopped = "no"
    /\ phase # "user"
    /\ pending = "timer"
    /\ pending' = "none"
    /\ UNCHANGED <<scheduling, resources, phase, stopped, hd, hdMust, key,
                   kbMust, keysLeft>>

----------------------------------------------------------------------------
(* Entering and leaving the kernel.                                        *)

\* save_context and interrupt_happened, for a handler that leaves the thread
\* of slot p in state s, the registers r in its context and area in the
\* global one.
Entered(p, s, r, area) ==
    /\ thread' = [thread EXCEPT ![p] = s]
    /\ context' = [context EXCEPT ![p] = r]
    /\ saved' = area
    /\ regs' = KernelRegisters

\* An interrupt: the thread is ready and keeps its registers.
Interrupted == Entered(active, "READY", regs, regs)

Asked == [of |-> regs.of, asked |-> TRUE]
Answer(r) == [of |-> r.of, asked |-> FALSE]

\* A system call that blocks, and one that is answered at once: the answer
\* goes into the context and, because the thread is active, into the area.
Blocks(s) == Entered(active, s, Asked, Asked)

\* MUTANT: only the context of the thread gets the answer.
ReturnsInContext == Entered(active, "READY", Answer(Asked), Asked)

Returns == Entered(active, "READY", Answer(Asked), Answer(Asked))

\* What process_save_syscall_response leaves of the area, for slot p.
AreaAnswered(p) == IF p = active THEN Answer(saved) ELSE saved

\* process_schedule_thread for slot p with the contexts c and the thread
\* states t; then load_context and the return to the user.
Resume(p, t, c, area) ==
    /\ thread' = [t EXCEPT ![p] = "RUNNING"]
    /\ last' = p
    /\ active' = p
    /\ saved' = IF active = p THEN area ELSE c[p]
    /\ regs' = IF active = p THEN area ELSE c[p]
    /\ phase' = "user"

Runnable(p) == p \in occupied /\ thread[p] = "READY" /\ p # Idle

\* MUTANT: the search begins at the first slot of the table.
DistanceFromFirst(p) == p

\* How far slot p is in the search of process_scheduler_schedule.
Distance(p) == (p + MaxProcess - last - 1) % MaxProcess

\* The thread the scheduler chooses: the idle one if none is ready.
Scheduled ==
    IF \E p \in Slots : Runnable(p)
    THEN CHOOSE p \in Slots :
            /\ Runnable(p)
            /\ \A q \in Slots : Runnable(q) => Distance(p) <= Distance(q)
    ELSE Idle

Schedule ==
    /\ At("schedule")
    /\ Resume(Scheduled, thread, context, saved)
    /\ UNCHANGED <<occupied, context, resources, stopped, devices>>

TimerInterrupt ==
    /\ At("timer")
    /\ Interrupted
    /\ phase' = "schedule"
    /\ UNCHANGED <<occupied, active, last, resources, stopped, devices>>

\* The kernel panics, fails an assertion, follows a null pointer or runs past
\* the end of an array: what it does then is not modelled.
Stop(why) ==
    /\ stopped' = why
    /\ UNCHANGED <<scheduling, resources, phase, devices>>

----------------------------------------------------------------------------
(* Processes.                                                              *)

FreeSlots == Slots \ occupied

\* process_allocate: the first empty slot, its file table and keyboard
\* buffer empty.
FirstFree == CHOOSE p \in FreeSlots : \A q \in FreeSlots : p <= q

Cleared(f, p) == [f EXCEPT ![p] = 0]

\* MUTANT: an instruction commits before a pending interrupt is taken.
UserRunsFirst == At("user") /\ active # Idle

\* A program enters the kernel on its own; the idle one never does.  Each
\* cycle takes a pending interrupt before it commits.
UserRuns == At("user") /\ active # Idle /\ pending = "none"

\* An exception or an invalid system call empties the slot of the active
\* process, whatever it holds.
KillActive ==
    /\ UserRuns
    /\ occupied' = occupied \ {active}
    /\ Interrupted
    /\ phase' = "schedule"
    /\ UNCHANGED <<active, last, resources, stopped, devices>>

----------------------------------------------------------------------------
(* System calls.                                                           *)

\* brk, getpid, uname, writev, fstat, a write to stdout, and a call with a
\* descriptor that is not open or for which the table has no room.
SyscallAnswered ==
    /\ UserRuns
    /\ Returns
    /\ phase' = "schedule"
    /\ UNCHANGED <<occupied, active, last, resources, stopped, devices>>

\* fstat of a standard file.
SyscallFstatStandard == UserRuns /\ Stop("panic")

\* The array of readers has an entry for w.  It has as many entries as there
\* are windows for programs, but the first one is that of the kernel's window.
HasEntry(w) == w \in DOMAIN readers

\* read of stdin: the last reader of a window is the one that is woken.
SyscallReadKeyboard ==
    /\ UserRuns
    /\ IF HasEntry(ProgramWindow)
       THEN /\ Blocks("BLOCKED_KB")
            /\ readers' = [readers EXCEPT ![ProgramWindow] = active]
            /\ replaced' = replaced \cup ({readers[ProgramWindow]} \ {NoSlot})
            /\ phase' = "schedule"
            /\ UNCHANGED <<occupied, active, last, opened, focus, kbUsed,
                           buffers, jobs, loading, stopped, devices>>
       ELSE Stop("overrun")

\* external_hd_request_job: an idle driver begins at once.
Requests(job) ==
    /\ jobs' = Append(jobs, job)
    /\ phase' = IF jobs = <<>> THEN "hd_next" ELSE "schedule"

\* read and write of a file go through a buffer of the kernel.
SyscallTransfer(op) ==
    /\ UserRuns
    /\ opened[active] > 0
    /\ IF Cardinality(buffers) < Buffers
       THEN /\ Blocks(op)
            /\ buffers' = buffers \cup {active}
            /\ \E n \in 1 .. MaxParts :
                 Requests([slot |-> active, op |-> op, left |-> n])
            /\ UNCHANGED <<occupied, active, last, opened, readers, focus,
                           kbUsed, loading, replaced, stopped, devices>>
       ELSE Stop("assert")

SyscallOpen ==
    /\ UserRuns
    /\ opened[active] < MaxFiles
    /\ Blocks("OPEN")
    /\ opened' = [opened EXCEPT ![active] = @ + 1]
    /\ Requests([slot |-> active, op |-> "OPEN", left |-> 0])
    /\ UNCHANGED <<occupied, active, last, readers, focus, kbUsed, buffers,
                   loading, replaced, stopped, devices>>

SyscallClose ==
    /\ UserRuns
    /\ opened[active] > 0
    /\ Blocks("CLOSE")
    /\ Requests([slot |-> active, op |-> "CLOSE", left |-> 0])
    /\ UNCHANGED <<occupied, active, last, opened, readers, focus, kbUsed,
                   buffers, loading, replaced, stopped, devices>>

\* The registers fork copies to the child, with its own answer.
ChildRegisters(child) == Answer([of |-> child, asked |-> Asked.asked])

\* fork: the child has the parent's files and registers; without a free
\* slot the call is SyscallAnswered.
SyscallFork ==
    /\ UserRuns
    /\ FreeSlots # {}
    /\ LET child == FirstFree IN
       /\ occupied' = occupied \cup {child}
       /\ thread' = [thread EXCEPT ![active] = "READY", ![child] = "READY"]
       /\ context' = [context EXCEPT ![active] = Answer(Asked),
                                     ![child] = ChildRegisters(child)]
       /\ opened' = [opened EXCEPT ![child] = opened[active]]
       /\ kbUsed' = Cleared(kbUsed, child)
    /\ saved' = Answer(Asked)
    /\ regs' = KernelRegisters
    /\ phase' = "schedule"
    /\ UNCHANGED <<active, last, readers, focus, buffers, jobs, loading,
                   replaced, stopped, devices>>

----------------------------------------------------------------------------
(* The hd driver and the callbacks of its clients.                         *)

\* A callback's KERNEL_ASSERT on the state of the thread it answers.
Awaits(job) == thread[job.slot] = job.op

\* MUTANT: a finished transfer keeps its buffer.
BuffersKept(p) == buffers

\* syscall_free_buffer for the thread of slot p.
BuffersWithout(p) == buffers \ {p}

\* syscall_read_callback and the like, for a request of slot p that holds
\* n files after it.  The thread states t are those the handler left.
Answers(p, t, c, area, n) ==
    /\ thread' = [t EXCEPT ![p] = "READY"]
    /\ context' = [c EXCEPT ![p] = Answer(@)]
    /\ saved' = area
    /\ opened' = [opened EXCEPT ![p] = n]
    /\ buffers' = BuffersWithout(p)

\* external_hd_next_request: a transfer waits for its interrupt.
HdStartsTransfer ==
    /\ At("hd_next")
    /\ jobs # <<>>
    /\ Head(jobs).op \in Transfers
    /\ hd' = "busy"
    /\ phase' = "schedule"
    /\ UNCHANGED <<scheduling, resources, stopped, pending, hdMust, key,
                   kbMust, keysLeft>>

HdHasNothing ==
    /\ At("hd_next")
    /\ jobs = <<>>
    /\ phase' = "schedule"
    /\ UNCHANGED <<scheduling, resources, stopped, devices>>

\* open and close are done at once.  The entry of a file whose open failed
\* stays in use.
HdDoesFile ==
    /\ At("hd_next")
    /\ jobs # <<>>
    /\ LET job == Head(jobs)
           p == job.slot
       IN
       /\ job.op \in {"OPEN", "CLOSE"}
       /\ IF Awaits(job)
          THEN /\ Answers(p, thread, context, AreaAnswered(p),
                          IF job.op = "CLOSE" THEN opened[p] - 1
                          ELSE opened[p])
               /\ jobs' = Tail(jobs)
               /\ UNCHANGED <<occupied, regs, active, last, readers, focus,
                              kbUsed, loading, replaced, phase, stopped,
                              devices>>
          ELSE Stop("assert")

\* The loader's open: its callback asks for the whole file, or panics.
HdOpensProgram ==
    /\ At("hd_next")
    /\ jobs # <<>>
    /\ Head(jobs).op = "LOAD_OPEN"
    /\ \/ Stop("panic")
       \/ /\ \E n \in 1 .. MaxParts :
               jobs' = Append(Tail(jobs), [slot |-> Head(jobs).slot,
                                           op |-> "LOAD", left |-> n])
          /\ UNCHANGED <<scheduling, opened, readers, focus, kbUsed, buffers,
                         loading, replaced, phase, stopped, devices>>

\* The interrupt of a transfer whose request has more parts.
HdInterruptPart ==
    /\ At("hd")
    /\ Head(jobs).left > 1
    /\ Interrupted
    /\ jobs' = [jobs EXCEPT ![1].left = @ - 1]
    /\ hd' = "idle"
    /\ phase' = "hd_next"
    /\ UNCHANGED <<occupied, active, last, opened, readers, focus, kbUsed,
                   buffers, loading, replaced, stopped, pending, hdMust, key,
                   kbMust, keysLeft>>

\* The interrupt that ends a thread's read or write.
HdInterruptAnswers ==
    /\ At("hd")
    /\ Head(jobs).left = 1
    /\ Head(jobs).op # "LOAD"
    /\ LET p == Head(jobs).slot
           kept == [context EXCEPT ![active] = regs]
           ready == [thread EXCEPT ![active] = "READY"]
       IN
       IF ready[p] = Head(jobs).op
       THEN /\ Answers(p, ready, kept, regs, opened[p])
            /\ regs' = KernelRegisters
            /\ jobs' = Tail(jobs)
            /\ hd' = "idle"
            /\ phase' = "hd_next"
            /\ UNCHANGED <<occupied, active, last, readers, focus, kbUsed,
                           loading, replaced, stopped, pending, hdMust, key,
                           kbMust, keysLeft>>
       ELSE Stop("assert")

\* What both ends of a load leave alone or do alike.
Loaded(kept) ==
    /\ context' = kept
    /\ saved' = regs
    /\ regs' = KernelRegisters
    /\ hd' = "idle"
    /\ phase' = "hd_next"
    /\ UNCHANGED <<active, last, readers, replaced, buffers, stopped, pending,
                   hdMust, key, kbMust, keysLeft>>

\* start_c allocates and opens the next program.
LoadsNext(kept, ready) ==
    /\ loading < Programs
    /\ IF loading >= LoaderEntries THEN Stop("overrun")
       ELSE IF FreeSlots = {} THEN Stop("panic")
       ELSE /\ occupied' = occupied \cup {FirstFree}
            /\ thread' = [ready EXCEPT ![FirstFree] = "EMPTY"]
            /\ opened' = Cleared(opened, FirstFree)
            /\ kbUsed' = Cleared(kbUsed, FirstFree)
            /\ jobs' = Append(Tail(jobs), [slot |-> FirstFree,
                                           op |-> "LOAD_OPEN", left |-> 0])
            /\ loading' = loading + 1
            /\ UNCHANGED focus
            /\ Loaded(kept)

\* The last program is loaded: the focus goes to the programs' window.
LoadsLast(kept, ready) ==
    /\ loading = Programs
    /\ thread' = ready
    /\ jobs' = Tail(jobs)
    /\ focus' = ProgramWindow
    /\ UNCHANGED <<occupied, opened, kbUsed, loading>>
    /\ Loaded(kept)

\* The interrupt that ends the reading of a program: its thread is ready.
\* kept and ready are what the handler has done before.
HdInterruptLoads ==
    /\ At("hd")
    /\ Head(jobs).left = 1
    /\ Head(jobs).op = "LOAD"
    /\ LET p == Head(jobs).slot
           kept == [context EXCEPT ![active] = regs, ![p] = Fresh(p)]
           ready == [thread EXCEPT ![active] = "READY", ![p] = "READY"]
       IN
       \/ LoadsNext(kept, ready)
       \/ LoadsLast(kept, ready)

----------------------------------------------------------------------------
(* The keyboard.                                                           *)

\* A handler of the keyboard reads the key, which lets the next one come.
KeyRead(k) ==
    /\ At("keyboard")
    /\ key = k
    /\ key' = NoKey
    /\ kbMust' = FALSE
    /\ UNCHANGED <<occupied, opened, buffers, jobs, loading, replaced, pending,
                   hd, hdMust, keysLeft, stopped>>

Reader == readers[focus]

\* MUTANT: the last entry of the buffer is used too.
AddedToTheEnd(n) == IF n < KbSize THEN n + 1 ELSE n

\* A printable key that is typed after n others.
Added(n) == IF n < KbSize - 1 THEN n + 1 ELSE n
Erased(n) == IF n > 0 THEN n - 1 ELSE n

\* A character or a backspace edits the buffer of the process that reads.
KeyEdits ==
    /\ \E k \in {"char", "backspace"} :
         /\ KeyRead(k)
         /\ HasEntry(focus) /\ Reader # NoSlot
         /\ kbUsed' = [kbUsed EXCEPT ![Reader] =
                          IF k = "char" THEN Added(@) ELSE Erased(@)]
    /\ Interrupted
    /\ phase' = "schedule"
    /\ UNCHANGED <<active, last, readers, focus>>

\* MUTANT: the window keeps its reader.
ReadersKept(w) == readers

\* The readers once that of window w is answered.
ReadersWithout(w) == [readers EXCEPT ![w] = NoSlot]

\* A newline answers the reader and runs it.
KeyNewline ==
    /\ KeyRead("newline")
    /\ HasEntry(focus) /\ Reader # NoSlot
    /\ LET p == Reader
           kept == [context EXCEPT ![active] = regs]
           ready == [thread EXCEPT ![active] = "READY"]
       IN
       IF ready[p] = "BLOCKED_KB"
       THEN /\ context' = [kept EXCEPT ![p] = Answer(@)]
            /\ kbUsed' = [kbUsed EXCEPT ![p] = 0]
            /\ readers' = ReadersWithout(focus)
            /\ Resume(p, ready, context', regs)
            /\ UNCHANGED focus
       ELSE /\ Interrupted
            /\ kbUsed' = [kbUsed EXCEPT ![p] = Added(@)]
            /\ phase' = "schedule"
            /\ UNCHANGED <<active, last, readers, focus>>

\* The code looks at no process here.
KeyDiscarded ==
    /\ KeyRead("other")
    /\ Interrupted
    /\ phase' = "schedule"
    /\ UNCHANGED <<active, last, readers, focus, kbUsed>>

\* The window ids run from the kernel's, 0, to Windows; before 0 is 255.
KeyMovesFocus ==
    /\ \E k \in {"page_up", "page_down"} :
         LET window == IF k = "page_up" THEN focus + 1 ELSE focus - 1 IN
         /\ KeyRead(k)
         /\ focus' = IF window \in 0 .. Windows THEN window ELSE focus
    /\ Interrupted
    /\ phase' = "schedule"
    /\ UNCHANGED <<active, last, readers, kbUsed>>

\* keyboard_interrupt follows the pointer of a window nobody reads from.
KeyNobodyReads ==
    /\ At("keyboard")
    /\ key \in {"char", "backspace", "newline"}
    /\ HasEntry(focus) /\ Reader = NoSlot
    /\ Stop("null_reader")

\* Or it reads past the end of the array: the last window has no entry.
KeyOverruns ==
    /\ At("keyboard")
    /\ key \in {"char", "backspace", "newline"}
    /\ ~HasEntry(focus)
    /\ Stop("overrun")

KeyboardInterrupt ==
    \/ KeyEdits
    \/ KeyNewline
    \/ KeyDiscarded
    \/ KeyMovesFocus
    \/ KeyNobodyReads
    \/ KeyOverruns

----------------------------------------------------------------------------

Syscall ==
    \/ SyscallAnswered
    \/ SyscallFstatStandard
    \/ SyscallReadKeyboard
    \/ \E op \in {"READ", "WRITE"} : SyscallTransfer(op)
    \/ SyscallOpen
    \/ SyscallClose
    \/ SyscallFork

HdNextRequest ==
    \/ HdStartsTransfer
    \/ HdHasNothing
    \/ HdDoesFile
    \/ HdOpensProgram

HdInterrupt == HdInterruptPart \/ HdInterruptAnswers \/ HdInterruptLoads

\* What the kernel does next, once it is entered.
KernelStep ==
    \/ TimerInterrupt
    \/ KeyboardInterrupt
    \/ HdInterrupt
    \/ HdNextRequest
    \/ Schedule

KernelNext == Io \/ TakeInterrupt \/ SkipTimer \/ Syscall \/ KillActive \/ KernelStep

\* Every clock cycle runs the devices and lets the processor go on; a timer
\* whose counter is over asks, and the delay of a transfer ends.  Nothing is
\* assumed of the programs or of who types.
KernelFairness ==
    /\ WF_vars(Io)
    /\ WF_vars(\E finishes \in BOOLEAN : IoCycle(NoKey, finishes, TRUE))
    /\ WF_vars(\E timerAsks \in BOOLEAN : IoCycle(NoKey, TRUE, timerAsks))
    /\ WF_vars(TakeInterrupt)
    /\ WF_vars(SkipTimer)
    /\ WF_vars(KernelStep)

KernelSpec == Init /\ [][KernelNext]_vars /\ KernelFairness

----------------------------------------------------------------------------
(* Properties.                                                             *)

\* The types of the variables, up to the step that leaves an array if one
\* does; a process has at most MaxFiles files, a keyboard buffer keeps room
\* for its final zero, and the focus is on a window that exists.
KernelTypeOK ==
    /\ occupied \subseteq Slots
    /\ thread \in [Slots -> ThreadStates]
    /\ context \in [Slots -> Registers]
    /\ saved \in Registers
    /\ regs \in Registers
    /\ active \in Slots
    /\ last \in Slots
    /\ opened \in [Slots -> 0 .. MaxFiles]
    /\ readers \in [0 .. Windows - 1 -> ProgramSlots \cup {NoSlot}]
    /\ replaced \subseteq ProgramSlots
    /\ focus \in 0 .. Windows
    /\ kbUsed \in [Slots -> 0 .. KbSize - 1]
    /\ buffers \subseteq ProgramSlots
    /\ jobs \in Seq(Job)
    /\ loading \in 1 .. Programs
    /\ phase \in Codes \cup {"user", "hd_next", "schedule"}
    /\ stopped \in {"no", "assert", "panic", "null_reader", "overrun"}
    /\ pending \in Codes \cup {"none"}
    /\ hd \in {"idle", "busy", "finished"}
    /\ hdMust \in BOOLEAN
    /\ key \in Keys \cup {NoKey}
    /\ kbMust \in BOOLEAN
    /\ keysLeft \in 0 .. MaxKeys

\* No KERNEL_ASSERT of the system calls fails: a callback finds its thread
\* blocked in the call it answers, and a transfer finds a free buffer
\* (syscalls.c:40, 64, 130, 199, 309).
KernelAssertionsHold == stopped # "assert"

\* Whoever is interrupted, blocked, woken or forked meanwhile, the program
\* that goes on is the active thread's with its own registers, the only
\* one that runs, and the system call it made has been answered
\* (interrupt.S:36-87, process.c:203-261).
ResumesAnswered ==
    phase = "user" =>
        /\ active \in occupied
        /\ regs = Fresh(active)
        /\ \A p \in occupied : thread[p] = "RUNNING" <=> p = active

RegisteredReaders == {readers[w] : w \in DOMAIN readers} \ {NoSlot}
WaitForKey == {p \in occupied : thread[p] = "BLOCKED_KB"}

JobsOf(p) == {i \in DOMAIN jobs : jobs[i].slot = p}

\* Who waits has its place: a thread blocked in a file operation has the one
\* request of that operation in the driver's queue and a buffer if it
\* transfers, no other thread has either; the processes that wait for the
\* keyboard are the reader of each window, which a newline wakes, and those
\* that another reader replaced, which nothing wakes any more; and the
\* driver works on its oldest request when the kernel is left
\* (syscalls.c:57-347, keyboard.c:34, 54, external_hd.c:181-214).
BlockedIsAwaited ==
    /\ \A p \in occupied :
         /\ thread[p] \in FileStates =>
              \E i \in DOMAIN jobs : /\ JobsOf(p) = {i}
                                     /\ jobs[i].op = thread[p]
         /\ p \in buffers <=> thread[p] \in {"READ", "WRITE"}
    /\ \A i \in DOMAIN jobs :
         /\ jobs[i].slot \in occupied
         /\ thread[jobs[i].slot] =
              IF jobs[i].op \in FileStates THEN jobs[i].op ELSE "EMPTY"
    /\ WaitForKey = RegisteredReaders \cup replaced
    /\ RegisteredReaders \cap replaced = {}
    /\ phase = "user" => (jobs = <<>> <=> hd = "idle")

\* One interrupt wins a cycle and the processor holds one, but none that
\* cannot be repeated is lost: a finished transfer and a typed key stay
\* announced until the kernel handles them (int_controller.cpp:58-98,
\* keyboard.cpp:71-99, external_hd.cpp:308-348).
EventsAreAnnounced ==
    /\ hd = "finished" => hdMust \/ pending = "hd" \/ phase = "hd"
    /\ key # NoKey => kbMust \/ pending = "keyboard" \/ phase = "keyboard"

\* Under the round robin of the scheduler, and with interrupts that may be
\* lost or skipped, a thread that is ready or waits for a file runs again,
\* unless the kernel stops (process.c:341-379).
EveryThreadRuns ==
    \A p \in ProgramSlots :
        p \in occupied /\ thread[p] \in FileStates \cup {"READY"}
            ~> thread[p] = "RUNNING" \/ p \notin occupied \/ stopped # "no"
=============================================================================
