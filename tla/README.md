# Advanced DSS in TLA+

Advanced DSS is a full-system simulator: `src/src` simulates x86_64 processors
with an out-of-order pipeline, caches and devices, and `src/kernel` is a small
multiprogramming kernel that runs on the simulated machine. This directory holds
TLA+ models of it, TLC configurations that check them on small instances, and
theorems that TLAPS proves for every instance.

Paths below are relative to the repository's sources: `cpu/...`, `io/...`,
`data/...` and `main.cpp` stand for `src/src/...`, `kernel/...` for
`src/kernel/src_kernel/...`.

## 1. Inventory

### Simulator

| Component | State | Operations | Must hold |
|---|---|---|---|
| cycle loop, `main.cpp` | current cycle, processors that finished it | `cpu_thread_handler`: interrupt, commit, execute, issue, decode, devices | stages see each other's results in that order; every cycle ends |
| reorder buffer, `cpu/reorder_buffer.cpp` | list of uops in program order, supply of free slots | `commit`, `flush`, `flush_on_write_back`, `get_inst_from_buffer` | no slot lost or duplicated; commit in order; no wrong-path commit; a flush removes only the wrong path |
| uop slot, `cpu/rs_instruction.cpp` | status, `dep_in`, `dep_out`, counters, `out_deps_regs` | `reset`, `create_dep`, `write_back`, `flush_on_write_back` | woken when, and only when, every operand has arrived |
| queues, `cpu/rs_policy.cpp` | uops waiting or executing, `write_ready` | `add`, `supply`, `del`, `flush`, `arrived_to_commit` | hold exactly what has still to execute; stores execute at the head only |
| functional units, `cpu/func_units.cpp` | uop and cycle count per unit | `issue`, `exec`, `flush` | one uop per unit, never a recycled slot |
| processor core, `cpu/cpu.cpp`, `cpu.h` | `dep_vector`, `num_of_branches`, `wb_flusher`, pending interrupt | `cycle`, `dispatch`, `write_back`, the flushes, `set_external_interrupt` | branch count covers unresolved branches; recovery always happens |
| decoder, `cpu/decoder.cpp`, `decoder_cpp.h` | handler, instruction, `buffered_inst`, `mis_speculation` | `decode`, `alocate_inst`, `dispatch`, `flush` | nothing executes on a wrong path |
| instruction tables, `cpu/x86_64/dep*.h`, `dependency.cpp`, `x86_64_decoder.cpp` | constant | lookup, finding operands | links point from younger to older uops |
| x86_64 processor, `cpu/x86_64/x86_64.cpp` | registers, MSRs, mode | exceptions, traps, interrupts, translation | kernel entered once per event |
| fetch buffer, `cpu/fetch_buffer.cpp` | circular buffer per processor | fetch, get, skip, flush | a FIFO of the predicted path |
| branch predictors, `cpu/branch_pred.cpp` | LRU list and hash, or history table | `check`, `warn`, `flush` | an entry found is the branch's own |
| caches, `cpu/cache.cpp` | sets of lines, dirty bits, ready cycles | read, write, copy back | one line per block, written back where it belongs |
| linked lists, `data/*.h` | elements, free list | add, delete, move | refine a sequence; elements neither lost nor shared |
| memory monitor, `io/memory.cpp` | locked flag, pending counters | `lock`, `check_lock` and their unlocks | exclusion; nobody sleeps for ever |
| interrupt controller, timer, `io/int_controller.cpp`, `timer.cpp` | requests of this cycle | `request_int`, `cycle` | a device's request is taken or repeated |
| external hd, keyboard, video, `io/*.cpp` | device state machine | port reads and writes, `cycle` | one interrupt per finished operation |

`cpu/mmu.cpp`, `scheduler.cpp` and `core.h` are stubs, `cpu/x86_64/bochs` is
vendored (the semantics of the instructions), `host_code`, the configuration file
and the statistics only do input and output.

### Kernel

| Component | State | Operations | Must hold |
|---|---|---|---|
| stubs, `kernel/interrupt.S`, `interrupt2.c`, `entry.S` | one saved context, kernel lock | one stub per interrupt, trap and exception | a context is copied to its thread before the next one is saved |
| processes, `kernel/process.c`, `start_c.c` | threads and their states, active thread per cpu, loading queue | schedule, fork, load, exit | active iff running; a blocked thread has a pending reason |
| system calls, `kernel/syscalls.c` | what a thread waits for | read, write, open, close, brk, exec | every call is answered once; descriptors come back |
| hd driver, `kernel/external_hd.c` | circular queue of requests | request, interrupt, next request | FIFO, one request in the device, each callback once |
| keyboard, `kernel/keyboard.c` | blocked reader per window | interrupt | a key goes to the reader of the focused window |
| memory, `kernel/memory.c` | owner of every frame, page tables | allocate, free, copy | a frame has one owner |

### Interactions and what makes them hard

An instruction is executed by the decoder, at once and in program order; what
follows in the pipeline replays only time and dependences. So the pipeline and the
program can disagree: instructions of a mispredicted path are decoded and not
executed (`mis_speculation`), events take effect at commit, stores have happened
before the store uop executes. Slots are recycled among instructions while other
slots hold pointers to them (`dep_out`, `dep_vector`, units, queues), and three
kinds of flush (external interrupt, commit, write-back of a branch) clear those
pointers by three different routes. Devices raise interrupts between any two cycles;
the kernel runs requests of several blocked processes through one device queue with
callbacks that request more work from inside the interrupt.

`PROJECT.json` lists the hazards line by line with the properties that cover them.

## 2. Plan

Modules in order of importance; those up to 4 are finished.

1. **Pipeline** (`Pipeline`, `MCPipeline`, `Pipeline_proofs`,
   `Pipeline_flight_proofs`): the back end of the processor, section 3.
2. **HdDevice** and **HdDriver** (`MCHdDriver`, `HdDriver_proofs`,
   `HdDriver_refines`): the device's state machine and the kernel's request queue,
   composed, against the abstract queue `HdQueue`: section 4.
3. **FrontEnd** (`FrontEnd`, `MCFrontEnd`, `FrontEnd_proofs`), the fetch buffer and
   the decoder that reads it, section 5, and the tables it looks into (`StaticList`,
   `BranchPred` against the abstract `LruTable`, `BranchPred_proofs`, `Cache`,
   `Cache_proofs`, `MCTables`), section 6.
4. **Kernel** (`Kernel`, `MCKernel`, `Kernel_proofs`): processes, scheduler, system calls, keyboard,
   and the devices that compete for the processor's interrupt: section 7.
5. **Frames**: next-fit allocation and the break. Not begun: it is a sequential
   table on which no other model depends.

Which model stands for what another one leaves free:

| Left free in | Modelled in |
|---|---|
| predictions, latencies and events of `Pipeline` | `BranchPred`, `Cache`, `FrontEnd` |
| the queue of instructions behind the decoder of `FrontEnd` | `Pipeline` |
| the answers of the predictor in `FrontEnd` | `BranchPred` |
| the lists of `BranchPred` | `StaticList`, which it extends |
| the queue of jobs in `Kernel` | `HdDriver`, which implements `HdQueue` |
| the interrupts and system calls between jobs in `HdDriver` | `Kernel` |

All invariants and action properties of the passing runs and both refinements are
proved, for every value of the constants that the assumptions, and the hypotheses that a
theorem states, allow. Only TLC checks the four liveness properties (`Drains`,
`RecoveryHappens`, `EveryRequestAnswered`, `EveryThreadRuns`), which rest on fairness and
`ENABLED`, and finds the violations of the runs that expect one.

## 3. Pipeline

`Pipeline.tla` models one virtual processor and the structures it owns. A cycle is
the phase sequence of `cpu_thread_handler`; `phase` names the stage that runs next,
and every iteration of a loop in the code is one step, so the stages interleave with
the free choices (latency, prediction, event, instruction) at the grain at which the
code makes them.

| Variable | Code |
|---|---|
| `uop` | the fields of `rs_instruction_t`: type, status, `dep_in_n`, `dep_in_resolved`, `dep_in`, pipeline state, `branch_foresight`, event |
| `links` | the non-NULL entries of all `dep_out` |
| `regs` | `dep_vector` |
| `supply`, `rob` | `list_inst_supplier`, `list` |
| `rsq`, `lsq`, `writeReady` | the two queues and `write_ready` |
| `fu`, `left`, `unit` | the units, their remaining cycles, the loop index of `exec` |
| `dec` | handler, instruction, `buffered_inst`, `dispatched` of the decoder |
| `mis`, `numBranches`, `wbFlusher` | `mis_speculation`, `num_of_branches[BRANCH]`, `wb_flusher` |
| `pending`, `user`, `running` | pending external interrupt, mode, `simulation_runnig` |
| `writer`, the field `needs` | history variables: what the executed program makes a uop wait for |

| Stage | Actions | Code |
|---|---|---|
| interrupt | `TakeInterrupt`, `NoInterrupt` | `main.cpp`, `process_external_interruption` |
| commit | `Commit`, `CommitFlushing`, `CommitStops` | `reorder_buffer_t::commit`, `flush` |
| execute | `UnitIdle`, `UnitExecutes`, `WriteBack`, `ExecDone`, `FlushOnWriteBack` | `functional_units_t::exec`, `processor_t::write_back`, `flush_on_write_back` |
| issue | `IssueRs`, `IssueLs`, `IssueDone` | `rs_policy_*::supply`, `functional_units_t::issue` |
| decode | `DecodeStart`, `DecodeStops`, `Allocate`, `AllocateStops`, `Decode`, `Dispatch`, `DispatchStops` | `decoder_t`, `x86_64_after_allocate_rs`, `INSTRUCTION_END`, `processor_t::dispatch` |
| devices | `DeviceInterrupt`, `DevicesQuiet` | `io::cycle`, `set_external_interrupt` |

What is abstracted: a uop's id is its position; queues are sets, because uops enter
them in program order; the integer and FPU types are one class; the I/O queue, always
empty, is left out; what an instruction computes is its event and whether its
successor was predicted, both chosen freely within `MayRaise`; the fetch buffer has
an instruction or has not. The build that processes system calls in the simulator
(`X86_64_FAKE_SYSCALLS`) is not modelled.

### Runs

| Run | Question | Distinct states |
|---|---|---|
| `pipeline_order` | Are operands, units, queues and stores handled correctly without the flush on write-back? `TypeOK`, `QueueMembership`, `HeadHasOperands`, `TrueDependences`, `NoDanglingProducer`, `StoreAtHead` | 287,329 |
| `pipeline_events` | With the flush on write-back, all events and interrupts: `SlotConservation`, `WrongPathGuarded`, `BranchCountCovers`, `OnlyWrongPathFlushed` | 344,262 |
| `pipeline_live` | Does everything end? `Drains`, `RecoveryHappens` | 104,790 |
| `pipeline_stale_link` | Violated: `HeadHasOperands` with the flush on write-back | |
| `pipeline_lost_trap` | Violated: `DecodedTrapIsTaken` | |
| `pipeline_load_order` | Violated: `LoadsWaitForStores` | |

Bounds. Three or four slots are enough for an instruction that holds part of what it
needs while others are in flight, and for a slot to be recycled while its former
neighbours still wait. Queues of one or two entries are full most of the time.
Latencies 0 and 1 with two units give both orders of completion. `MaxBranches`
exceeds the number of slots; at that value the count stays, which stands for a count
too high to come back to zero (failed dispatches add to it without limit).
`NumRegs` is 1 where register dependences matter and 0 elsewhere: the links inside
instructions are kept. Templates are taken from `dep.h` and `dep3.h`; `OrderInsts`
has the read-modify-write instruction of four uops, which fills the reorder buffer.
Symmetry over the slots is used in the safety runs only; the initial supply is any
order of the slots, so no slot is distinguished.

Deadlock is checked everywhere except in `pipeline_events`: there a `hlt`
ends the simulation.

Fairness. `FairSpec` has weak fairness of `Next`: one thread runs the stages in a
loop. Nothing else is assumed, in particular not that a predictor is ever right or
that an instruction is ever available; every stage has finitely many steps because
slots, units and queues are finite.

### What the failing runs show

- `pipeline_stale_link`: `flush_on_write_back` unlinks the uops it removes from the
  list, but not those in the decoder's buffer. The entries left in `dep_out` later
  resolve an operand of another instruction, or count twice, and the oldest uop ends
  up waiting: the code's own "dead-lock" assertion.
- `pipeline_lost_trap`: a system call decoded, and so executed, before an external
  interrupt is flushed without having trapped; the saved context continues after it.
- `pipeline_load_order`: the comment of the load/store queue says that loads execute
  when there is no store before them; the loop passes over the store and goes on.

One more disagreement is not a run of its own: with the flush on write-back on and
registers modelled, `TrueDependences` fails, because `cpu.cpp:404-410` sets the
`dep_vector` entries of squashed uops to NULL instead of the producer they replaced.
That is why `pipeline_order` checks it with the flush off.

### Proofs

`Pipeline_proofs.tla` proves, from the constant assumptions `SlotAssumption`,
`SizeAssumption`, `UnitAssumption` and `TemplateAssumption` of `Pipeline`:

- `TypeCorrect`, `Spec => []TypeOK`. `TypeOK` alone is not inductive: the next uop to
  dispatch is a slot only if the decoder has one left, and the counters filled from
  the number of links are numbers only if the links are finitely many. The invariant
  `TypeInv` adds both (`DecoderConsistent`, `IsFiniteSet(links)`). One lemma per
  action that changes more than control (`FlushType`, `WriteBackType`,
  `FlushOnWriteBackType`, `IssueType`, `AllocateType`, `DecodeType`, `DispatchType`,
  ...), combined in `TypeNext`.
- `SlotsConserved`, `Spec => []SlotConservation`. `ConsInv` states the property by
  the three places a slot can be in; `RangeConcat`, `RangeHeadTail`, `RangeAppend`
  and `RangeSplit` say what each move between them does to the set and the number of
  slots, and `BufferedRange` that the reversed copy `get_buffered_rs` makes has the
  same slots as the buffer. `ConsNext` covers every action. As many places as slots
  and every slot in some place: none is there twice.

`Pipeline_flight_proofs.tla` proves the seven other invariants of `pipeline_order` and
`pipeline_events` and the action property, each under the hypothesis

    NoStaleLinks == DetectOnWb => NumRegs = 0

which both runs satisfy. It excludes one combination, a flush on write-back together
with dependences between instructions: there the links that `pipeline_stale_link`
exhibits survive in `dep_out`, and such a link to a slot that has been reused sets the
new uop's status back to ready, so that not only the operands but also the queues and
the counters go wrong. Without the flush on write-back, the theorems hold for any
number of registers; with it, for instructions linked only internally.

| Theorem | Property |
|---|---|
| `QueuesMatchStatus` | `QueueMembership` |
| `OldestNeverWaits` | `HeadHasOperands`, the code's "dead-lock" assertion |
| `DependencesRespected` | `TrueDependences` |
| `ProducersInFlight` | `NoDanglingProducer` |
| `StoresExecuteLast` | `StoreAtHead` |
| `WrongPathIsYounger` | `WrongPathGuarded` |
| `BranchesCounted` | `BranchCountCovers` |
| `FlushesWrongPath` | `OnlyWrongPathFlushed` |

None of them is inductive. That the oldest uop has its operands holds because every
link leads from an older to a younger uop that is still in flight, so that an
instruction whose counters are not complete has a producer before it; this needs the
place of every link's two ends, which needs what each stage does to the order. The
inductive invariant `FlightInv` (theorem `FlightInvariant`) is a conjunction of parts
about the uops in program order (`Before`):

- `StatusInv`, `QueueInv`, `UnitInv`: place, status, queue and unit of a uop determine
  each other; a slot in the supply has been reset.
- `LinkInv`, `RegInv`, `NeedInv`: a link joins two decoded uops, the older not finished
  and the younger waiting; operands still missing are exactly the links to a uop;
  `dep_vector` names unfinished uops; every true producer has a link. `CrossInv` says
  that without registers no link crosses a branch, which is why a flush on write-back
  then cuts none.
- `StoreInv`: `write_ready` is set only for a store at the head.
- `PathInv`: `mis_speculation` holds exactly while one executed uop is going to divert
  the path, and everything after a diverting branch, and only what is after the
  diverting uop, was decoded without being executed.
- `TypesInv`, `FlusherInv`, `CountInv`: the decoder's buffer against its template,
  `wb_flusher`, and `num_of_branches` against the executed branches.

Lemmas on sequences (`OrderFacts`, `OrderOfTail`, `OrderOfAppend`, `OrderOfFront`, ...)
say what each move does to the order; frame lemmas state, per action, what it leaves
alone; then there is one lemma per action and part, combined in `FlightNext`.
`FlightInv` was checked by TLC first, on the instances of `pipeline_order` and
`pipeline_events`, on the latter with four slots, and with registers and
the flush off.

`Drains` and `RecoveryHappens` stay with TLC: liveness is out of the proof system's
reach. The findings `DecodedTrapIsTaken` and `LoadsWaitForStores` are violations.

## 4. The hard disk and its driver

`HdDevice.tla` gives every port access and cycle of the simulated disk as a function
of a device record. `HdDriver.tla` EXTENDS it with the kernel's side: the ring of
jobs, its clients (one thread per program, and the loader that reads the programs
one after another) and the device. `HdQueue.tla` is what the driver promises.

| Variable | Code |
|---|---|
| `operations`, `listStart`, `listEnd`, `listAvailable`, `idle` | the ring of `external_hd.c` and `i_am_idle`; an entry's `last` is "callback is not NULL" |
| `phase`, `result` | which of the mutually recursive `next_request` and `request_processed(r)` runs next; `user` when the kernel is left |
| `hd` | `external_hd_t` |
| `irq` | the processor's pending external interrupt, when it is the disk's |
| `waits`, `hasFile`, `loading` | blocked states of the threads, `avl`, the chain of `start_callback_loaded_initial_process` |
| `answer`, `moved` | the argument of the last callback; history: what the device did for the request |
| `panic` | no panic, a failed assertion, or a program that cannot be opened |

| Actions | Code |
|---|---|
| `Boot`, `SyscallOpen`, `SyscallRead`, `SyscallWrite`, `SyscallClose` | `start_load_console`, `syscalls.c` down to `external_hd_request_job` |
| `StartRead`, `StartWrite`, `StartOpen`, `StartClose` | the cases of `external_hd_next_request` |
| `PartProcessed`, `SyscallDone`, `ProgramOpened`, `ProgramMissing`, `ProgramLoaded`, `LastProgramLoaded` | `external_hd_request_processed` with the callback it calls |
| `HdInterrupt` | `external_hd_interrupt` |
| `DeviceTransfers`, `InterruptAccepted` | `external_hd_t::cycle`, `int_controller_t::pos_cycle` |

A kernel entry is a chain of such actions. Interrupts are off inside it and a lock
keeps other processors out (`interrupt.S`), so calls and interrupts start in `user`
only, while the device goes on at any time. An accepted interrupt waits at the
processor until user mode, so a system call may come between the end of a transfer
and its handler. A failed assertion is the value `assert` of `panic`.

### Runs

| Run | Question | Distinct states |
|---|---|---|
| `hd_driver` | `TypeOK`, `AssertionsHold`, `DriverAndDeviceAgree`, `AnswerIsTotal`, `ImplementsQueue`, `EveryRequestAnswered` | 255,002 |
| `hd_empty_write` | Violated: `AssertionsHold` when a thread may write zero bytes | |

`ImplementsQueue` is the refinement: the ring read from `listStart` is the queue of
jobs, and the `intermediate` of its first entry what the finished parts of the first
request moved. `AnswerIsTotal` relates the value a caller gets to what the device
did, which the abstract queue does not know.

Bounds. A sector is two bytes and a transfer three, so it has two parts of different
length; `0 .. length` bytes may move in each. Four entries are exactly what one thread's
transfer and the loader need together, counting that the loader requests its read
while the entry of its open is still in use: with three entries `AssertionsHold`
fails. They make the ring wrap in every position. `FilePos` is larger than any
length, so that a stale use of `file_bytes` shows. In the code the ring has 1000
entries and the three programs and the loader use at most 50 each. `Programs` is
assumed to fit the process table (see the hazard at `start_c.c:96`).

Fairness. The device's cycle runs in every cycle of the simulation, and it asks for
its interrupt in each of them until it wins: in `int_controller.cpp` it precedes the
timer, and the keyboard cannot ask again before the kernel has read its key. A kernel
entry runs to its end, and a pending interrupt is taken as soon as the processor is in
user mode. Nothing is assumed about the threads.

`hd_empty_write`: the device leaves `WAIT_WBUFFER` when a byte arrives, and none does;
the assertion at `external_hd.c:317` fails and the kernel panics.

### Proofs

`HdDriver_proofs.tla` proves the four invariants of the run `hd_driver`, and
`HdDriver_refines.tla` its refinement, for every size of the ring and of a sector,
every number of programs and all lengths, from the assumptions of `HdDevice` and
`HdDriver`. None is inductive alone. The inductive invariant `HdInv`, which TLC
checked first, is about `Jobs`, the ring read from `listStart`:

- `RingInv`: `listEnd` is where the number of used entries says.
- `Queued`: each job's client waits for its operation; the jobs of a request are
  neighbours and its last one has the callback; only the oldest job has an
  intermediate result; only transfers are cut.
- `MovedInv`: what the device did for a request is the intermediate result of its
  oldest job and what is on the way from the device (`Progress`), and nothing for a
  request that is not the oldest. `AnswerIsTotal` follows at the callback.
- `FilesInv`, `PhaseInv`, `LoadingInv`: which files are open for the jobs in the ring,
  what the device is doing in each phase, which clients exist yet.

`RequestedJobs`, `PartJobs` and `FinishedJobs` say what a request, a part of a
transfer and a callback do to `Jobs`, `AppendQueued`, `PartQueued` and `TailQueued` that
the queue stays in order; there is one lemma per action above them.

- `TypeCorrect`, `DriverAndDeviceAgreeHolds`, `AnswerIsTotalHolds` follow from `HdInv`.
- `AssertionsHoldAlways`: no assertion fails if the ring has room and no thread writes
  nothing. `RingHasRoom(m, l)` states the room by the most parts `m` of a transfer of
  a thread and `l` of the loader: `Programs * m` and `(Programs - 1) * m + l + 1`
  entries. (The last 1 is the job whose callback makes the loader's next request.)
  The proof counts (`CountByClient`): jobs of one client are less than `m` apart, so
  that `i |-> <<client, i % m>>` is injective on the positions of the ring. In the run
  `m` is 2, `l` is 1 and the bound is the 4 entries there are; with 3 TLC finds the
  assertion violated. The run `hd_empty_write` shows that `0 \notin WriteLens` is needed.
- `DriverImplementsQueue`: `Spec => ImplementsQueue`. `SyscallOpen` and its like map to
  `Request`, a part that hands its result on to `Advance`, a callback to `Answer`
  (also one that requests the next program, which `Answer` allows), and all steps of
  the device and of the dispatch of jobs stutter.

`EveryRequestAnswered` needs fairness and stays with TLC.

## 5. The front end

`FrontEnd.tla` is the way of a byte from the fetch to the end of its instruction: the
circular fetch buffer, the macros that take and skip its bytes, the cache of decoded
instructions, and the check that disables execution when the fetched path is not that
of the pc.

| Variable | Code |
|---|---|
| `buffer`, `read_pos`, `write_pos`, `available`, `disable_until_flush`, `disable_due_to_cache_miss` | the fields of `fetch_buffer_t` |
| `spec_pc`, `pc` | the fields of `processor_t` |
| `space` | what the fetch sees: the kernel's memory, or through the page tables that of a program |
| `dec` | handler, address, bytes taken by the decoder |
| `next_inst_addr`, `bytes_decoded`, `mis` | `next_inst_addr`, `bytes_decoded_in_cycle`, `mis_speculation` |
| `inst_cache` | `inst_cache_tb`: address and bytes of an entry that is busy |
| `window` | what has been dispatched and not committed, with its reason to flush |
| `notExecutable` | the addresses where the fetch of a program faults |
| `phase`, `to_fetch` | the step of the cycle, and how many turns the loop of `fetch` has left |
| `seen`, `faulted`, `garbled` | history variables: a byte was taken since the last flush; a fault of the right path was taken; a fault was decoded since the cache of decoded instructions is empty |

| Actions | Code |
|---|---|
| `CommitUop`, `CommitDone` | `reorder_buffer_t::commit` |
| `CommitMisprediction`, `CommitEvent`, `CommitReturn`, `ExternalInterrupt` | the four ways to flush decoder and fetch buffer: after a branch, in `process_exception` and `process_trap`, in `process_instruction_that_flushes_pipeline`, in `process_external_interruption` |
| `DecodeStart`, `NoByte`, `GetByte`, `Skip` | `decoder_t::decode`, `GET_BYTE_FROM_FETCH_BUFFER`, `SKIP_BYTES_FROM_FETCH_BUFFER` and the handlers that use them |
| `NoSlot`, `Execute`, `RaiseFault` | `alocate_inst_`, `INSTRUCTION_END`, `fetch_buffer_exception` |
| `TakeFault` | the branch of `GET_BYTE_FROM_FETCH_BUFFER` for a byte with an exception |
| `FetchByte`, `FetchDone` | the loop of `fetch_buffer_t::fetch` |

A byte is its place: an address in an address space. There is the kernel's space, where
paging is off (`x86_64.cpp:647`) and nothing faults, and one for each program; the bytes
of a program are the same whenever it runs, so the length of an instruction is a
constant of its space and its first address. An instruction is one uop that waits for
nothing. What a decoder does with the uninitialized byte that
follows a fault is a choice between the three things its handlers may do (`AskAgain`,
`GoOn`).

| Run | Question | Distinct states |
|---|---|---|
| `front_end` | `TypeOK`, `BufferIsPath`, `ForesightIsFresh`, `ExecutesAtPc`, `ExecutesItsBytes` | 1,334,198 |
| `front_end_lost_fault` | Violated: `FaultIsRaised` | |

The flushes differ. A misprediction goes on at the pc and keeps the decoded
instructions. An event or an external interrupt of a program enters the kernel at the
handler and empties their cache (`flush_internal_caches`). The return, `IRET64`, the
one instruction that must flush (`bochs/cpu/ctrl_xfer64.cpp:423`), changes pc and
privilege when the decoder executes it; until it commits, the fetch reads addresses of
the kernel's path in the program's space, and only its commit flushes them and empties
the cache. In kernel mode there are no interrupts, and an event is a failed assertion of
`process_exception`, which the model's kernel does not raise. `hlt` ends the simulation
and is left to `Pipeline`, as is the flush on write-back.

The predictor is asked about every byte (`fetch_buffer.cpp:235`). Its entries are keyed
by processor and virtual address (`branch_pred.cpp:183`) and survive a change of the
space, so `Predictable` is a set of pairs of addresses without a space: a branch of one
program may be answered in the middle of another one's instruction. The fetch then goes
on elsewhere, the decoder glues the two parts together, and the check at the end of the
instruction does not notice, because it compares the address after the last byte only.
What the glued bytes mean is not known: `MayBeAll` chooses where they end, at most
after `MaxLength` bytes, and the pc goes on at one of `Strays`.

`BufferIsPath` is the fetch buffer's contract with the decoder. The next three say what
the check at the end of an instruction is good for: the address it compares is that of
the byte to come (even after `skip_bytes` was asked for no byte and took it from a stale
element), an instruction executes only when it starts at the pc, and its bytes, read now
or remembered in the cache, are all of the space the processor is in and are those of the
instruction at the pc, unless a prediction led the fetch away between two of them
(`Diverted`). The second half of `ExecutesItsBytes` is as strong as the code allows: in
the run, diverted instructions are executed, remembered and found again. What must never
happen is that a byte of another space gets into an executed instruction, which needs all
of the cache's flushes; leaving `ClearCache` out is one of the property's mutants.

These three end when a fault has been decoded (`garbled`): the cache may then keep an
entry with the byte that was never read, and `SKIP_BYTES_FROM_FETCH_BUFFER` passes over
a fault like over any byte. They hold again when the cache is emptied and everything
behind the flush is of the new path.

Bounds. `MCFrontEnd` has a program and the kernel in six addresses each. The program is
a loop of a branch of two bytes, an instruction of three and a branch back of one; the
kernel's handler is a branch of two bytes, whose last byte is in the middle of the
program's long instruction, and a return of two to one of two places. The predictions
are the last bytes of these branches; nothing else would enter the table. The
buffer has four bytes and three may be fetched per cycle, so it wraps in every position
and an instruction straddles cycles, the limit of decoded bytes and the end of the
buffer. The cache of decoded instructions has two entries: instructions collide, and a
program's address is looked up after the kernel's. `Underflow` is `0xFFFFFFFF % 4`, as in
`fetch_buffer.cpp:149`. Misses last 0 to 2 cycles. A fault page is absent or hits the
last byte of the long instruction. `MaxLength` is 4: a diverted instruction may have
fewer or more bytes than the one at its address. No fairness is assumed, because progress
of the decoder is a property of `Pipeline`.

`front_end_lost_fault`: the macro installs `fetch_buffer_exception` and goes on in its
caller. If that ends the instruction, `INSTRUCTION_END` runs a second time for the slot
of the exception, finds execution disabled and marks the slot as invalid. The fault of
the right path is then neither in a valid slot nor waiting for one, and nothing will
enable execution again.

### Proofs

`FrontEnd_proofs.tla` proves the five invariants of the run `front_end` for every
address space, program, buffer, predictor and set of faults, from
`FrontEndAssumption`. Three inductive invariants build on each other; TLC checked
each on the instance of the run first.

- `TypeAndPath` (theorems `TypeCorrect`, `BufferIsPathHolds`): the types, what the
  decoder must find in its cache while it skips (`DecodeInv`), that `write_pos` is
  `InBuffer` places behind `read_pos` and a fetch that is going on has room
  (`FetchInv`), and `BufferIsPath`. The remainders of the circular buffer are hidden
  behind `Place`; `OnePlace` (positions less than `Size` apart have different places)
  is all that the proofs of the actions need.
- `FreshInv` (`ForesightIsFreshHolds`, `ExecutesAtPcHolds`): until a fault has been
  decoded, the address that is compared is that of the next byte whenever there has been
  one and no skip is half done, and while execution is enabled the decoder or, between
  two instructions, the next byte is at the pc.
- `BytesInv` (`ExecutesItsBytesHolds`): what the cache remembers, what the buffer holds,
  what the decoder has read and the instruction it is about to execute are of the current
  space, begin where they should and are neighbours or led by a prediction (`Follows`); a
  remembered instruction is `Whole`: the instruction at its address or a diverted one.
  This does not hold while the kernel's return waits for its commit (`Returning`), when
  buffer and cache are of the space that was left. Nothing is executed then, because the
  return has disabled execution; and it ends with the return's own flush, because no other
  flushing instruction can be in the window: that is `OneFlush`, proved on the way. (An
  external interrupt may come first; it flushes and empties the cache as well.)

There is no hypothesis on the predictor.

`FaultIsRaised` is no theorem: the run `front_end_lost_fault` violates it.

## 6. The tables of the front end

`StaticList.tla` is the list in an array of slots (`data/double_linked_static.h`) with
its chain of free slots; its operations are functions from lists to lists.
`BranchPred.tla` extends it: the array of entries, the table and the supply, which are
lists of pointers to entries, and the hash of pointers to list slots. Its actions are
`AddEntry` (an entry that is known, from the supply, or in place of the oldest one) and
`Flush`, which deletes elements while it iterates. `LruTable.tla` is what a predictor
promises: a sequence of entries, the one updated last in front. `Cache.tla` has the two
first-level caches and the second level; its actions are the accesses of the fetch and
of loads and stores, the latter over one or two blocks. `MCTables` checks both in one
run: they share no state, and a behaviour uses one of them.

| Run | Question | Distinct states |
|---|---|---|
| `tables` | `TablesTypeOK`, `HashPointsToElements`, `CheckIsLookup`, `ImplementsLru`, `OneSlotPerBlock`, `OnlyOldBlocksLeave` | 375,652 |

`ImplementsLru` is the refinement of the table with and without counters, by the
mapping that reads the list from its first element; in `LruTable` an update and a flush
keep a set of positions in their order (`Kept`). `CheckIsLookup` adds what a step of
the table cannot show: that a search, which may go through a hash cell written long ago,
answers like a look-up in that table. Capacity 3 with two processors and two addresses,
which share a hash cell, is enough for every substitution, recycled slot and stale cell.
`OneSlotPerBlock` and `OnlyOldBlocksLeave` hold although the copy back of a dirty
victim puts the incoming block in the second level (`cache.cpp:220`), which the model
does too. Three blocks compete for two ways in the first level and for a direct mapped
second level. `MaxCycle` is 2: the order of use compares with equality and with less.

The predictor of the program is built for one processor and never flushed; the class
is written for several and the model has several. Not modelled in the cache are
`cycle_ready` and the latencies; in the predictors the statistics. `Settled` forgets
the links a deletion leaves in a free slot where nothing can read them any more.

### Proofs

`Cache_proofs.tla` proves `OneSlotPerBlockHolds`, `OnlyOldBlocksLeaveHolds` and the
types, for any number of blocks, sets and ways, from `CacheAssumption`. `insert` takes
the slot of the block or the first empty one, whichever comes first in the array; that
this makes no second copy needs `Compact`: the slots of a set fill in order and never
empty. The rest of `CacheInv` is that blocks are in the set of their index, and that
the date of a slot is that of the last access to its block (`Dated`), no later for a
block that has left than for any that stayed (`LeftOld`).

`BranchPred_proofs.tla` proves the other four properties of the run: `TablesTypeCorrect`,
`HashCorrect`, `CheckCorrect` and `PredictorImplementsLru`, for any capacity, hash,
processors and branches.

The lists. `Visits(l, w)` says that a loop over the list `l` visits the slots `w[1]`,
..., `w[n]` and no other: the links lead through them in both directions (`Linked`), all
other slots are in the chain of free ones (`Chained`), and a slot has a payload exactly
if it is visited (`Filled`). One lemma for each operation says what becomes of `w`:
`AddBeginningFacts` and `AddEndFacts` put the first free slot at an end, `DelFacts` takes
one out and says which links it leaves behind, `SettledFacts` that forgetting those
changes nothing a loop reads, `WalkIs` and `ContentsIs` what a loop returns.

The predictor. `PredictorInv`, which TLC checked on the run's instance before it was
proved, says of the slots `w` of the table and `v` of the supply that together they
hold every pointer once (`Pool`), that no branch is in two elements (`OneEach`) and that
every cell of the hash that is set points into `w` (`Hashed`). The last is not inductive
alone. A move deletes the element and adds it again; in an empty list, whose free slots
are chained afresh, that takes slot 0, so an only element anywhere else would leave the
cells that point to it behind. Such an element is left by a flush only, which clears the
hash: that is `Unhashed`. The hash is then right because the slot freed last is the first
that is used again.

The steps. `AddEntryFacts` shows that an update of the lists is one of the table, by
three cases: the branch is known, the supply has an entry, the last element gives its
entry. A flush iterates with the link of the deleted element, which `del` leaves in place:
`Passed` says what holds after it has decided on the first `k` elements, `StepFacts` that
the next one keeps it, and `FlushFacts` that the end is `Forgotten`.

Loops and folds are recursive functions over an interval of integers. The prover cannot
use an induction theorem whose parameter is an operator, so the induction is done once
over a set of natural numbers (`Inductive`), the recursion once over a step given as a
function (`Iteration`), and both are instantiated (`KeptIn`, `WalkIs`, `PassesFacts`).

Assumed are `CapacityAssumption` and `PredictorAssumption`: at least one entry and one
cell, addresses that are numbers, and that no entry of the array is at NULL.

## 7. The kernel

`Kernel.tla` is the guest kernel on one processor with its three interrupting devices.

| Variable | Code |
|---|---|
| `occupied`, `thread`, `context` | the process table, the state and the saved registers of each thread |
| `saved`, `regs` | `interrupt_context_saved_*` and the registers of the processor |
| `active`, `last` | `process_active_thread_at_cpu`, `process_last_scheduled_process` |
| `opened`, `buffers` | `files[]`, the pool of system call buffers |
| `readers`, `focus`, `kbUsed` | `process_blocked_window_keyboard`, the focused window, `keyboard_buffer_used` |
| `jobs`, `loading` | the requests of the hd driver, the programs that `start_c` has begun to load |
| `phase`, `stopped` | the next step of a kernel entry; a failed assertion, a panic, the NULL reader, or the end of an array |
| `replaced` | history: the readers whose entry another one took |
| `pending`, `hd`, `hdMust`, `key`, `kbMust`, `keysLeft` | the processor's pending interrupt, the disk and the keyboard with their `must_interrupt` |

| Actions | Code |
|---|---|
| `Io` | one `io::cycle`: every device may ask, the first in order wins if the processor has nothing pending |
| `TakeInterrupt`, `SkipTimer` | `main.cpp:224-240`, `process_external_interruption` |
| `Syscall...`, `KillActive` | `syscalls.c` with the entry and exit of `interrupt.S`; the exceptions and the invalid call of `interrupt2.c` and `syscalls.c` |
| `TimerInterrupt`, `Schedule` | `process_scheduler_timer_interrupt`, `process_scheduler_schedule` |
| `HdStartsTransfer`, `HdDoesFile`, `HdOpensProgram`, `HdHasNothing` | `external_hd_next_request` and the callbacks of what ends at once |
| `HdInterruptPart`, `HdInterruptAnswers`, `HdInterruptLoads` | `external_hd_interrupt` and the callbacks of a transfer |
| `KeyEdits`, `KeyNewline`, `KeyDiscarded`, `KeyMovesFocus`, `KeyNobodyReads`, `KeyOverruns` | `keyboard_interrupt` with `process_warn_keyboard_typed`, `process_check_unblock_keyboard` |

A kernel entry is a chain of phases, so that the devices go on while the kernel runs;
no interrupt is taken in it. The registers of a thread are abstracted to whose they
are and whether a system call they made is unanswered: that is what saving, restoring,
copying by fork and answering through the global area or the context can get wrong.
A program commits an instruction only when no interrupt is pending, because a cycle
takes a pending interrupt before it commits; without that order a program that calls
the kernel in every instruction would keep the timer out for ever (this is the second
mutant of `EveryThreadRuns`).

| Run | Question | Distinct states |
|---|---|---|
| `kernel` | `KernelTypeOK`, `KernelAssertionsHold`, `ResumesAnswered`, `BlockedIsAwaited`, `EventsAreAnnounced`, `EveryThreadRuns` | 336,232 |

Bounds. Three slots hold the idle process and two others, of which one may be forked,
killed and replaced; with two programs, the loader competes with forks for the slots.
Two buffers are as many as threads that can block. A transfer takes one or two
interrupts. Three keys are enough to move the focus, type and end a line; `MaxKeys` is
also a condition of `EveryThreadRuns`, because a newline runs its reader past the
round robin and endless newlines could keep the turn from another thread. `Windows` is 2
because with 1, the shipped value, the first read of the keyboard leaves the array of
readers and the model stops; with 2 the programs' window has its entry and the last
window, which the focus can reach, has none. `LoaderEntries` is 2, as in the code, and
enough for two programs. Larger instances pass as well: everything with four slots, three
programs and as many entries (471,847 states), which has the panic of `LoadsNext` after a
fork that took the last slot; the safety properties with four slots (1.0 million states),
with more programs than entries (45,570), and with the shipped five programs, two entries
and one window (27,490).

Deadlock is not checked because a kernel that has stopped stays so.

Fairness. Each cycle of the simulator runs `io::cycle` and lets the processor take an
interrupt or go on in the kernel; the timer asks again and again, and the delay of a
transfer ends. So `Io`, an `IoCycle` in which the timer asks, one in which a transfer
ends, `TakeInterrupt`, `SkipTimer` and `KernelStep` are weakly fair. Nothing is assumed
of programs, of who types, or of which device wins. Threads that wait for a key are
outside `EveryThreadRuns`: no one need type one.

The ends of arrays. Two arrays of the kernel are smaller than what indexes them.
`process_blocked_window_keyboard` has an entry per window for programs (`process.c:32`)
and is indexed by the identifier of a window, where 0 is the kernel's: `syscall_read` and
`keyboard_interrupt` run past it at the last window. `initial_process` has two entries
(`start_c.c:83`) for the five programs of the loader. What is written or read there is
undefined, so the model gives the arrays their real size and stops (`stopped` is
"overrun") at the step that leaves them; the properties say what holds up to it, and
`KernelTypeOK` does not say that it is never reached. The assumptions on the constants
allow the shipped configuration. `MAX_CPUS` makes two idle processes of which one never
runs; the model has one.

Behaviour of the code that the model keeps, and that the properties do not exclude: a
key with no reader (`KeyNobodyReads`; the comment at `keyboard.c:62` shows that it was
meant to be discarded), a reader replaced by a second one of its window and never
woken (`BlockedIsAwaited` says that the threads blocked on the keyboard are the
registered readers and those in `replaced`, which are never the same), an `open` that fails and keeps its descriptor, and `fstat` of a standard file,
which panics.

### Proofs

`Kernel_proofs.tla` proves all five invariants of the run `kernel`, from
`TableAssumption` (a slot beside the idle process, something to load and an array for
it), `BufferAssumption` (a buffer
for every slot but the idle one) and `SizeAssumption`. None of the five is inductive:
that a resumed thread has been answered needs that every thread which is ready has
been, wherever its context was when the answer came; that a callback finds its thread
needs that nobody but the callback ends a wait. The inductive invariant `KernelInv`
(`InvariantHolds`) has these parts:

- `EntryInv`: in user mode and before a handler has saved the context, the active
  thread runs with its own registers; after that none runs, and the global area and
  the context of the active thread are equal. This is what makes it right to answer
  through either.
- `ThreadsInv`: a ready thread has been answered and a blocked one has not; the slot
  of a killed process holds no thread that waits.
- `WaitsInv`: no two requests are of one slot, each is of a thread blocked in it (or
  of a program being loaded), every thread blocked on a file has one, and buffers
  match; the threads blocked on the keyboard are the registered and the replaced readers. `BufferIsFree` follows by counting slots: the active thread has no buffer.
- `DiskInv` and `KeyInv`: a finished transfer is announced in exactly one of the flag
  of the device, the pending interrupt and the handler; hence the interrupt of the
  disk comes only when there is a request that waits for it.

There is one lemma per action (`...Keeps`), with `EnteredKeeps`, `ReadyKeepsWaits`,
`RequestKeeps`, `AnsweredKeepsWaits` and `LoadedKeeps` for what handlers share;
`UserNeverAsserts` and `StepNeverAsserts` show the branches of failed assertions
unreachable. `KernelInv` was checked by TLC first. The invariant does not depend on
which ready thread the scheduler takes; `EveryThreadRuns`, which does, is liveness and
stays with TLC.

## 8. Not modelled

- Most of the repository is vendored: of its 78,783 lines of implementation the bochs
  sources under `cpu/x86_64/bochs` have 59,045 (the semantics of instructions, floating point,
  vector instructions and their decoding tables). What an
  instruction computes does not change when it is decoded, woken, committed or flushed,
  beyond its event and next address, which the models choose freely. The models cover
  the control of the project's own code, which is why they map a small share of all
  lines and will not reach a third of them.
- Several physical processors: the barrier of `main.cpp` and the lock monitor of
  `io/memory.cpp`. `load_general_config` sets `cpu_number_phy` and
  `virtual_per_physical` to 1, so no execution of this version has two threads.
  Several virtual processors sharing the structures are left out for the same reason.
- `memory.c`: the frames and page tables of the guest kernel, the break, and what
  system calls copy; `x86_64.cpp`: registers, MSRs, segments and address translation.
- Latencies of the caches, the seek operation of the disk, the contents of files, the
  ELF format of programs, what is drawn on the screen.
- Configuration file, statistics, host consoles: input and output without interaction.
  `cpu/mmu.cpp`, `scheduler.cpp` and `core.h` are stubs.
