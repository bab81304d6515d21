------------------------------ MODULE Pipeline ------------------------------
(***************************************************************************)
(* The out-of-order core of one simulated processor (src/src/cpu): the     *)
(* reorder buffer and its supply of uop slots, the reservation-station and *)
(* load/store queues, the functional units, the register dependency        *)
(* vector, and the decoder, which executes every instruction while it      *)
(* decodes it and lets the pipeline replay only time and dependences.      *)
(*                                                                         *)
(* One simulated cycle is the phase sequence of cpu_thread_handler         *)
(* (src/src/main.cpp): external interrupt, commit, execution and           *)
(* write-back, issue, decode, devices.  A loop of the C++ code is an       *)
(* action that stands for one iteration.                                   *)
(*                                                                         *)
(* Abstractions.  A uop id is only ever compared for age, so age is the    *)
(* position in rob \o the decoder's buffer and ids are left out.  A queue  *)
(* is a set: uops enter it in program order, so its order is that of rob.  *)
(* The integer and FPU types are one class "ALU"; no instruction of dep.h  *)
(* has an I/O type, so the I/O queue is always empty and is left out.      *)
(* What execution computes is reduced to what the pipeline reads of it: an *)
(* event (exception, trap, halt, iret) and whether the next instruction    *)
(* was predicted.  The fetch buffer either has an instruction or has not.  *)
(***************************************************************************)
EXTENDS Integers, Sequences, FiniteSets

CONSTANTS
    Slots,        \* the rs_instruction_t objects of the reorder buffer
    NoSlot,       \* a NULL rs_instruction_t pointer
    RsSize,       \* capacity of the reservation-station queue
    LsSize,       \* capacity of the load/store queue
    NumRegs,      \* entries of the register dependency vector
    Units,        \* number of functional units
    UnitTypes,    \* UnitTypes[u]: the uop types unit u executes
    Latencies,    \* cycles_to_exec of a uop: its type's cost plus the cache's
    Templates,    \* the uop sequences instructions decode into
    Events,       \* the events the guest program may raise
    Interrupts,   \* the kinds of external interrupt the devices raise
    DetectOnWb,   \* cfg_detect_branch_misprediction_on_wb
    MaxBranches   \* bound: at this value the branch count stops counting

Regs == 1 .. NumRegs

UopTypes == {"NONE", "ALU", "BRANCH", "LOAD", "STORE"}
EventKinds == {"none", "exception", "trap", "halt", "flush"}

Link == [src : Slots, dst : Slots, pos : Nat, copy : Nat]

\* types: one per uop.  links: <<d, s>> when uop d waits for uop s of the same
\* instruction.  reader, writer: the uop that reads and the one that writes
\* registers, 0 when there is none.
IsTemplate(t) ==
    LET n == Len(t.types) IN
    /\ t = [types |-> t.types, links |-> t.links,
            reader |-> t.reader, writer |-> t.writer]
    /\ t.types \in Seq(UopTypes)
    /\ n > 0
    /\ t.links \subseteq (1 .. n) \X (1 .. n)
    /\ \A l \in t.links : l[2] < l[1]
    /\ t.reader \in 0 .. n
    /\ t.writer \in 0 .. n

ASSUME SlotAssumption ==
    /\ IsFiniteSet(Slots)
    /\ NoSlot \notin Slots

\* The reorder buffer is as large as the queues together (main.cpp:466-469).
ASSUME SizeAssumption ==
    /\ RsSize \in Nat \ {0}
    /\ LsSize \in Nat \ {0}
    /\ RsSize + LsSize <= Cardinality(Slots)
    /\ NumRegs \in Nat
    /\ MaxBranches \in Nat
    /\ MaxBranches > Cardinality(Slots)

ASSUME UnitAssumption ==
    /\ Units \in Nat \ {0}
    /\ UnitTypes \in [1 .. Units -> SUBSET UopTypes]
    /\ Latencies \subseteq Nat
    /\ Latencies # {}

\* A branch is always a single uop, and a uop of type NONE has no operands
\* (dep.h; dependency.cpp:43); an instruction fits in the reorder buffer.
ASSUME TemplateAssumption ==
    /\ \A t \in Templates :
         /\ IsTemplate(t)
         /\ Len(t.types) <= Cardinality(Slots)
         /\ \A i \in DOMAIN t.types :
              /\ t.types[i] = "BRANCH" => Len(t.types) = 1
              /\ t.types[i] = "NONE" =>
                   Len(t.types) = 1 /\ t.reader = 0 /\ t.writer = 0
    /\ Events \subseteq EventKinds
    /\ "none" \in Events
    /\ Interrupts \subseteq {"timer", "device"}
    /\ DetectOnWb \in BOOLEAN

VARIABLES
    phase,        \* the stage of the cycle that runs next
    uop,          \* the fields of each rs_instruction_t
    links,        \* the non-NULL entries of every dep_out
    regs,         \* dep_vector: the uop a register waits for
    supply,       \* list_inst_supplier: the free slots, first in first out
    rob,          \* reorder_buffer_t::list
    rsq,          \* the reservation-station queue
    lsq,          \* the load/store queue
    fu,           \* the uop in each functional unit
    left,         \* the cycles that uop still has to execute
    unit,         \* the loop index of functional_units_t::exec
    dec,          \* the decoder: instruction, its slots, how many dispatched
    mis,          \* decoder_t::mis_speculation: execution is disabled
    numBranches,  \* num_of_branches[CPU_INSTRUCTION_TYPE_BRANCH]
    wbFlusher,    \* the mispredicted branch that may flush on write-back
    writeReady,   \* the load/store queue's write_ready: a store may issue
    pending,      \* the external interrupt received and not yet handled
    user,         \* user mode with interrupts enabled
    running,      \* simulation_runnig
    writer        \* ghost: the executed uop that produces each register

queues == <<rsq, lsq, fu, left, writeReady>>
recovery == <<mis, numBranches, wbFlusher>>
machine == <<pending, user, running>>
vars == <<phase, uop, links, regs, supply, rob, queues, unit, dec, recovery,
          machine, writer>>

-----------------------------------------------------------------------------
(***************************************************************************)
(* State.                                                                  *)
(***************************************************************************)
Statuses == {"FREE", "DECODING", "WAIT_DEP", "DEP_READY", "EXECUTING", "READY"}
\* UNSET: allocated and not decoded yet, INVALID: decoded and not executed.
PipelineStates == {"UNSET", "VALID", "CAN_FLUSH", "INVALID"}

\* ins: the non-NULL entries of dep_in.  needs: ghost, the producers that the
\* executed program makes this uop wait for and that have not finished.
Uop == [type : UopTypes, status : Statuses, depN : Nat, resolved : Nat,
        ins : SUBSET Link, pstate : PipelineStates, foresight : BOOLEAN,
        event : EventKinds, needs : SUBSET Slots]

FreeUop == [type |-> "NONE", status |-> "FREE", depN |-> 0, resolved |-> 0,
            ins |-> {}, pstate |-> "UNSET", foresight |-> TRUE,
            event |-> "none", needs |-> {}]

\* A template, or no template while the decoder is idle.
NoTemplate == [types |-> <<>>, links |-> {}, reader |-> 0, writer |-> 0]
IdleDecoder == [state |-> "idle", tmpl |-> NoTemplate, buf |-> <<>>, sent |-> 0]

RangeOf(q) == {q[i] : i \in DOMAIN q}
NoSlots == [u \in 1 .. Units |-> NoSlot]

\* Definitions marked MUTANT are not part of the model: each is the definition
\* after it with a plausible bug, which some property must detect.

\* MUTANT: also returns the slots that have been dispatched.
BufferedAll == [i \in 1 .. Len(dec.buf) |-> dec.buf[Len(dec.buf) + 1 - i]]

\* get_buffered_rs: what is allocated and not dispatched, youngest first.
Buffered ==
    [i \in 1 .. Len(dec.buf) - dec.sent |-> dec.buf[Len(dec.buf) + 1 - i]]

InFlight == RangeOf(rob) \cup RangeOf(Buffered)

\* MUTANT: the commit of a mispredicted branch does not flush.
FlushingOnEvent(s) == uop[s].event # "none"

\* A uop whose commit empties the pipeline.
Flushing(s) == uop[s].event # "none" \/ ~uop[s].foresight

PositionOf(s) == CHOOSE i \in DOMAIN rob : rob[i] = s

Init ==
    /\ phase = "interrupt"
    /\ uop = [s \in Slots |-> FreeUop]
    /\ links = {}
    /\ regs = [r \in Regs |-> NoSlot]
    /\ supply \in {f \in [1 .. Cardinality(Slots) -> Slots] : RangeOf(f) = Slots}
    /\ rob = <<>>
    /\ rsq = {}
    /\ lsq = {}
    /\ fu = NoSlots
    /\ left = [u \in 1 .. Units |-> 0]
    /\ unit = 1
    /\ dec = IdleDecoder
    /\ mis = FALSE
    /\ numBranches = 0
    /\ wbFlusher = NoSlot
    /\ writeReady = FALSE
    /\ pending = "none"
    /\ user = FALSE
    /\ running = TRUE
    /\ writer = [r \in Regs |-> NoSlot]

-----------------------------------------------------------------------------
\* MUTANT: the functional units are not flushed.
UnitsKept == fu

\* functional_units_t::flush.
UnitsFlushed == NoSlots

(***************************************************************************)
(* Flushing the whole pipeline: reorder_buffer_t::flush and                *)
(* processor_t::flush_pipeline_simple, after an external interrupt or when *)
(* an instruction with an event or a misprediction commits.                *)
(***************************************************************************)
FlushPipeline ==
    /\ supply' = supply \o Buffered \o rob
    /\ rob' = <<>>
    /\ uop' = [s \in Slots |-> FreeUop]
    /\ links' = {}
    /\ regs' = [r \in Regs |-> NoSlot]
    /\ rsq' = {}
    /\ lsq' = {}
    /\ fu' = UnitsFlushed
    /\ left' = [u \in 1 .. Units |-> 0]
    /\ writeReady' = FALSE
    /\ dec' = IdleDecoder
    /\ mis' = FALSE
    /\ numBranches' = 0
    /\ wbFlusher' = NoSlot
    /\ writer' = [r \in Regs |-> NoSlot]

(***************************************************************************)
(* External interrupts, at the top of the cycle (cpu_thread_handler).  In  *)
(* user mode the interrupt enters the kernel and flushes the pipeline; in  *)
(* kernel mode a timer interrupt is skipped and another one stays pending. *)
(***************************************************************************)
TakeInterrupt ==
    /\ phase = "interrupt"
    /\ running
    /\ pending # "none"
    /\ user
    /\ FlushPipeline
    /\ user' = FALSE
    /\ pending' = "none"
    /\ phase' = "commit"
    /\ UNCHANGED <<unit, running>>

NoInterrupt ==
    /\ phase = "interrupt"
    /\ running
    /\ pending = "none" \/ ~user
    /\ pending' = IF pending = "timer" THEN "none" ELSE pending
    /\ phase' = "commit"
    /\ UNCHANGED <<uop, links, regs, supply, rob, queues, unit, dec, recovery,
                   user, running, writer>>

(***************************************************************************)
(* reorder_buffer_t::commit: one action per iteration of its loop.         *)
(***************************************************************************)
HeadIs(st) == phase = "commit" /\ rob # <<>> /\ uop[Head(rob)].status = st

Commit ==
    /\ HeadIs("READY")
    /\ ~Flushing(Head(rob))
    /\ LET s == Head(rob) IN
         /\ rob' = Tail(rob)
         /\ supply' = Append(supply, s)
         /\ uop' = [uop EXCEPT ![s] = FreeUop]
         /\ links' = {l \in links : l.src # s}
    /\ UNCHANGED <<phase, regs, queues, unit, dec, recovery, machine, writer>>

\* process_exception, process_trap, advancedss_stop_simulation or
\* process_instruction_that_flushes_pipeline, then the flush.
CommitFlushing ==
    /\ HeadIs("READY")
    /\ Flushing(Head(rob))
    /\ FlushPipeline
    /\ LET e == uop[Head(rob)].event IN
         /\ user' = (user /\ e \notin {"exception", "trap"})
         /\ running' = (e # "halt")
    /\ phase' = "exec"
    /\ UNCHANGED <<unit, pending>>

\* MUTANT: the load/store queue is not told.
NeverArms == FALSE

\* arrived_to_commit: a store at the head of the reorder buffer may issue.
ArmsStore == HeadIs("DEP_READY") /\ uop[Head(rob)].type = "STORE"

CommitStops ==
    /\ phase = "commit"
    /\ rob # <<>> => uop[Head(rob)].status # "READY"
    /\ writeReady' = (writeReady \/ ArmsStore)
    /\ phase' = "exec"
    /\ UNCHANGED <<uop, links, regs, supply, rob, rsq, lsq, fu, left, unit, dec,
                   recovery, machine, writer>>

-----------------------------------------------------------------------------
(***************************************************************************)
(* functional_units_t::exec and processor_t::write_back.  The code collects*)
(* the finished uops of all units and then writes them back in that order; *)
(* neither step reads what the other changes, so here a unit that finishes *)
(* writes back at once.                                                    *)
(***************************************************************************)
NextUnit == unit' = unit + 1

\* MUTANT: one cycle too many.
TimeOverLate(u) == left[u] < 0

\* cycles++ >= cycles_to_exec
TimeOver(u) == left[u] = 0

UnitIdle ==
    /\ phase = "exec"
    /\ unit <= Units
    /\ fu[unit] = NoSlot
    /\ NextUnit
    /\ UNCHANGED <<phase, uop, links, regs, supply, rob, queues, dec, recovery,
                   machine, writer>>

UnitExecutes ==
    /\ phase = "exec"
    /\ unit <= Units
    /\ fu[unit] # NoSlot
    /\ ~TimeOver(unit)
    /\ left' = [left EXCEPT ![unit] = @ - 1]
    /\ NextUnit
    /\ UNCHANGED <<phase, uop, links, regs, supply, rob, rsq, lsq, fu,
                   writeReady, dec, recovery, machine, writer>>

\* MUTANT: a dependent that is still in the decoder misses its operand.
HitsInQueues(s, d) ==
    {l \in links : l.src = s /\ l.dst = d /\ uop[d].status # "DECODING"}

\* The entries of the dep_out of s that name d.
Hits(s, d) == {l \in links : l.src = s /\ l.dst = d}

\* MUTANT: ready at the first operand.
FirstArrived(n, d) == n >= 1

\* ++dep_in_resolved >= dep_in_n
AllArrived(n, d) == n >= uop[d].depN

\* rs_instruction_t::write_back for the dependents of s: the operand at the
\* dep_in position of every dep_out entry arrives.
Resolve(s, d) ==
    LET hits == Hits(s, d)
        arrived == uop[d].resolved + Cardinality(hits)
    IN  [uop[d] EXCEPT
           !.resolved = arrived,
           !.ins = {l \in @ : \A h \in hits : h.pos # l.pos},
           !.status = IF hits # {} /\ AllArrived(arrived, d)
                      THEN "DEP_READY" ELSE @,
           !.needs = @ \ {s}]

\* MUTANT: dep_vector keeps its pointer to the finished uop.
KeepProducer(s, r) == regs[r]

\* out_deps_regs: a register still waiting for s waits no more.
ClearProducer(s, r) == IF regs[r] = s THEN NoSlot ELSE regs[r]

WriteBack ==
    /\ phase = "exec"
    /\ unit <= Units
    /\ fu[unit] # NoSlot
    /\ TimeOver(unit)
    /\ LET s == fu[unit] IN
         /\ uop' = [d \in Slots |->
                      IF d = s THEN [uop[s] EXCEPT !.status = "READY"]
                      ELSE IF uop[d].status = "FREE" THEN uop[d]
                      ELSE Resolve(s, d)]
         /\ links' = {l \in links : l.src # s}
         /\ regs' = [r \in Regs |-> ClearProducer(s, r)]
         /\ writer' = [r \in Regs |-> IF writer[r] = s THEN NoSlot ELSE writer[r]]
         /\ rsq' = rsq \ {s}
         /\ lsq' = lsq \ {s}
         /\ numBranches' =
              IF /\ uop[s].type = "BRANCH"
                 /\ uop[s].pstate # "INVALID"
                 /\ numBranches \in 1 .. MaxBranches - 1
              THEN numBranches - 1 ELSE numBranches
    /\ fu' = [fu EXCEPT ![unit] = NoSlot]
    /\ NextUnit
    /\ UNCHANGED <<phase, supply, rob, left, writeReady, dec, mis, wbFlusher,
                   machine>>

MayFlushOnWb == DetectOnWb /\ wbFlusher # NoSlot /\ numBranches = 0

ExecDone ==
    /\ phase = "exec"
    /\ unit > Units
    /\ ~MayFlushOnWb
    /\ unit' = 1
    /\ phase' = "issue"
    /\ UNCHANGED <<uop, links, regs, supply, rob, queues, dec, recovery,
                   machine, writer>>

\* MUTANT: the mispredicted branch goes too.
KeptOneLess(s) == PositionOf(s) - 1

\* The part of the reorder buffer that a flush on write-back keeps: up to s, and
\* all of it if s were not there (rb_list_el is NULL).
Kept(s) == IF s \in RangeOf(rob) THEN PositionOf(s) ELSE Len(rob)

(***************************************************************************)
(* flush_on_write_back: the mispredicted branch has executed and no older  *)
(* branch is unresolved, so everything younger goes.  The uops of the      *)
(* reorder buffer are unlinked from their producers' dep_out; those still  *)
(* in the decoder's buffer go back to the supply as they are.              *)
(***************************************************************************)
FlushOnWriteBack ==
    /\ phase = "exec"
    /\ unit > Units
    /\ MayFlushOnWb
    /\ LET k == Kept(wbFlusher)
           younger == SubSeq(rob, k + 1, Len(rob))
           dispatched == uop[wbFlusher].status # "DECODING"
           decoded == IF dispatched THEN Buffered ELSE <<>>
           squashed == RangeOf(younger) \cup RangeOf(decoded)
           unlinked == UNION {uop[s].ins : s \in RangeOf(younger)}
           Keep(s) == IF s \in squashed THEN NoSlot ELSE s
       IN /\ rob' = SubSeq(rob, 1, k)
          /\ supply' = supply \o decoded \o younger
          /\ uop' = [s \in Slots |->
                       IF s \in squashed THEN FreeUop
                       ELSE IF s = wbFlusher THEN [uop[s] EXCEPT !.foresight = TRUE]
                       ELSE uop[s]]
          /\ links' = {l \in links \ unlinked : l.src \notin squashed}
          /\ regs' = [r \in Regs |-> Keep(regs[r])]
          /\ rsq' = rsq \ squashed
          /\ lsq' = lsq \ squashed
          /\ fu' = [u \in 1 .. Units |-> Keep(fu[u])]
          /\ left' = [u \in 1 .. Units |-> IF fu[u] \in squashed THEN 0 ELSE left[u]]
          /\ dec' = IF dispatched THEN IdleDecoder ELSE dec
          /\ mis' = (mis /\ ~dispatched)
    /\ numBranches' = 0
    /\ wbFlusher' = NoSlot
    /\ unit' = 1
    /\ phase' = "issue"
    /\ UNCHANGED <<writeReady, machine, writer>>

-----------------------------------------------------------------------------
(***************************************************************************)
(* Issue: one action per uop that the supply() loops hand to a unit.  A    *)
(* uop that finds no unit finds none later in the same pass either, so the *)
(* pass is: the oldest uop that can issue does, until none can.            *)
(***************************************************************************)
FreeUnits(s) == {u \in 1 .. Units : fu[u] = NoSlot /\ uop[s].type \in UnitTypes[u]}

IsOldest(s, S) == \A t \in S : t = s \/ PositionOf(s) < PositionOf(t)

\* functional_units_t::issue takes the first free unit of the uop's type.
IssueTo(s) ==
    /\ \E u \in FreeUnits(s), c \in Latencies :
         /\ \A v \in FreeUnits(s) : u <= v
         /\ fu' = [fu EXCEPT ![u] = s]
         /\ left' = [left EXCEPT ![u] = c]
    /\ uop' = [uop EXCEPT ![s].status = "EXECUTING"]
    /\ UNCHANGED <<phase, links, regs, supply, rob, rsq, lsq, unit, dec,
                   recovery, machine, writer>>

RsCandidates ==
    {s \in rsq : uop[s].status = "DEP_READY" /\ FreeUnits(s) # {}}

IssueRs ==
    /\ phase = "issue"
    /\ \E s \in RsCandidates : IsOldest(s, RsCandidates) /\ IssueTo(s)
    /\ UNCHANGED writeReady

\* MUTANT: a store issues like a load.
LsCandidatesUnarmed == {s \in lsq : uop[s].status = "DEP_READY"}

\* A store is passed over until the commit stage has set write_ready.
LsCandidates ==
    {s \in lsq : /\ uop[s].status = "DEP_READY"
                 /\ uop[s].type = "STORE" => writeReady}

\* The pass ends at the first candidate that finds no unit.
LsIssues ==
    \E s \in LsCandidates : IsOldest(s, LsCandidates) /\ FreeUnits(s) # {}

IssueLs ==
    /\ phase = "issue"
    /\ RsCandidates = {}
    /\ \E s \in LsCandidates : IsOldest(s, LsCandidates) /\ IssueTo(s)
    /\ writeReady' = FALSE

IssueDone ==
    /\ phase = "issue"
    /\ RsCandidates = {}
    /\ ~LsIssues
    /\ phase' = "decode"
    /\ UNCHANGED <<uop, links, regs, supply, rob, queues, unit, dec, recovery,
                   machine, writer>>

-----------------------------------------------------------------------------
(***************************************************************************)
(* Decode: the loop of processor_t::cycle over decoder_t::decode.          *)
(***************************************************************************)
\* initialize_instruction and x86_64_after_get_inst: an instruction's bytes
\* have been fetched and its uop sequence looked up.
DecodeStart ==
    /\ phase = "decode"
    /\ dec.state = "idle"
    /\ \E t \in Templates :
         dec' = [state |-> "allocate", tmpl |-> t, buf |-> <<>>, sent |-> 0]
    /\ UNCHANGED <<phase, uop, links, regs, supply, rob, queues, unit, recovery,
                   machine, writer>>

\* The fetch buffer or the bytes per cycle are exhausted.
DecodeStops ==
    /\ phase = "decode"
    /\ dec.state = "idle"
    /\ phase' = "io"
    /\ UNCHANGED <<uop, links, regs, supply, rob, queues, unit, dec, recovery,
                   machine, writer>>

Required == Len(dec.tmpl.types)

\* alocate_inst_: one slot from the supply; without one the instruction keeps
\* what it holds and decoding stops for this cycle.
Allocate ==
    /\ phase = "decode"
    /\ dec.state = "allocate"
    /\ Len(dec.buf) < Required
    /\ supply # <<>>
    /\ dec' = [dec EXCEPT !.buf = Append(@, Head(supply))]
    /\ uop' = [uop EXCEPT ![Head(supply)].status = "DECODING"]
    /\ supply' = Tail(supply)
    /\ UNCHANGED <<phase, links, regs, rob, queues, unit, recovery, machine,
                   writer>>

AllocateStops ==
    /\ phase = "decode"
    /\ dec.state = "allocate"
    /\ Len(dec.buf) < Required
    /\ supply = <<>>
    /\ phase' = "io"
    /\ UNCHANGED <<uop, links, regs, supply, rob, queues, unit, dec, recovery,
                   machine, writer>>

\* The operands of uop i of the instruction, as <<producer, position>>: first
\* the links inside the instruction, then the registers of rd (create_dep).
Operands(i, rd) ==
    LET t == dec.tmpl
        micro == {l[2] : l \in {m \in t.links : m[1] = i}}
        read == {r \in rd : i = t.reader /\ regs[r] # NoSlot}
    IN  {<<dec.buf[j], Cardinality({m \in micro : m <= j})>> : j \in micro} \cup
        {<<regs[r], Cardinality(micro) + Cardinality({q \in read : q <= r})>>
            : r \in read}

\* An entry may repeat one left behind by an earlier life of slot d.
MakeLink(d, o) ==
    [src |-> o[1], dst |-> d, pos |-> o[2],
     copy |-> Cardinality({l \in links : l.src = o[1] /\ l.dst = d /\ l.pos = o[2]})]

\* What the program makes uop i wait for, whatever dep_vector says.
TrueProducers(i, rd) ==
    {dec.buf[l[2]] : l \in {m \in dec.tmpl.links : m[1] = i}} \cup
    {writer[r] : r \in {q \in rd : i = dec.tmpl.reader /\ writer[q] # NoSlot}}

\* The guest runs iret and hlt in the kernel and faults outside it, and only an
\* instruction of type NONE (syscall, int, iret, hlt) traps, halts or flushes.
MayRaise(e) ==
    /\ e = "exception" => user
    /\ e \in {"halt", "flush"} => ~user
    /\ e \in {"trap", "halt", "flush"} => dec.tmpl.types = <<"NONE">>

\* The registers the uop i that reads (or writes) them may name.
RegisterSets(i) == IF i = 0 THEN {{}} ELSE SUBSET Regs

\* MUTANT: a trap whose successor was predicted does not stop execution.
DisablesOnMiss(e, foreseen) == ~foreseen

\* inst_unexpected_behavior, or the next instruction was mispredicted.
DisablesExec(e, foreseen) == e # "none" \/ ~foreseen

\* x86_64_after_allocate_rs and INSTRUCTION_END: find the dependences, execute
\* the instruction unless execution is disabled, and mark its uops.  iret is
\* executed here, so the mode changes here.  Two inputs are fixed because nothing
\* reads them: the foresight of a uop with an event, and the event and foresight
\* of a uop decoded while execution is disabled (WrongPathGuarded).
DecodeInstruction(e, foreseen, rd, wr) ==
    LET b == dec.buf
        n == Required
        pstate == IF mis THEN "INVALID"
                  ELSE IF e = "none" /\ ~foreseen /\ dec.tmpl.types = <<"BRANCH">>
                  THEN "CAN_FLUSH" ELSE "VALID"
        index(s) == CHOOSE i \in 1 .. n : b[i] = s
        ins(i) == {MakeLink(b[i], o) : o \in Operands(i, rd)}
        decoded(i) ==
            [type |-> dec.tmpl.types[i], status |-> uop[b[i]].status,
             depN |-> Cardinality(ins(i)), resolved |-> uop[b[i]].resolved,
             ins |-> ins(i), pstate |-> pstate,
             foresight |-> i < n \/ foreseen,
             event |-> IF i = 1 THEN e ELSE "none",
             needs |-> IF mis THEN {} ELSE TrueProducers(i, rd)]
    IN  /\ uop' = [s \in Slots |-> IF s \in RangeOf(b) THEN decoded(index(s))
                                   ELSE uop[s]]
        /\ links' = links \cup UNION {ins(i) : i \in 1 .. n}
        /\ regs' = [r \in Regs |-> IF r \in wr THEN b[dec.tmpl.writer] ELSE regs[r]]
        /\ writer' = [r \in Regs |-> IF r \in wr /\ ~mis THEN b[dec.tmpl.writer]
                                     ELSE writer[r]]
        /\ mis' = (mis \/ DisablesExec(e, foreseen))
        /\ user' = (user \/ (e = "flush" /\ ~mis))

Decode ==
    /\ phase = "decode"
    /\ dec.state = "allocate"
    /\ Len(dec.buf) = Required
    /\ \E e \in Events, foreseen \in BOOLEAN,
          rd \in RegisterSets(dec.tmpl.reader), wr \in RegisterSets(dec.tmpl.writer) :
         /\ mis => e = "none" /\ foreseen
         /\ e # "none" => MayRaise(e) /\ foreseen
         /\ DecodeInstruction(e, foreseen, rd, wr)
    /\ dec' = [dec EXCEPT !.state = "dispatch"]
    /\ UNCHANGED <<phase, supply, rob, queues, unit, numBranches, wbFlusher,
                   pending, running>>

-----------------------------------------------------------------------------
(***************************************************************************)
(* decoder_t::dispatch and processor_t::dispatch.                          *)
(***************************************************************************)
NextUop == dec.buf[dec.sent + 1]

HasRoom(s) ==
    CASE uop[s].type \in {"LOAD", "STORE"} -> Cardinality(lsq) < LsSize
      [] uop[s].type = "NONE" -> TRUE
      [] OTHER -> Cardinality(rsq) < RsSize

\* MUTANT: the mispredicted branch itself is not counted.
IsCountedBefore(s) ==
    wbFlusher = NoSlot /\ uop[s].type = "BRANCH" /\ uop[s].pstate # "CAN_FLUSH"

IsCounted(s) == wbFlusher = NoSlot /\ uop[s].type = "BRANCH"

\* The branch is counted, and remembered when it may flush, before its queue is
\* known to have room: an attempt that fails counts it too.
CountBranch(s) ==
    /\ numBranches' = IF IsCounted(s) /\ numBranches < MaxBranches
                      THEN numBranches + 1 ELSE numBranches
    /\ wbFlusher' = IF wbFlusher = NoSlot /\ uop[s].pstate = "CAN_FLUSH"
                    THEN s ELSE wbFlusher

Dispatch ==
    /\ phase = "decode"
    /\ dec.state = "dispatch"
    /\ HasRoom(NextUop)
    /\ LET s == NextUop
           u == uop[s]
       IN /\ CountBranch(s)
          /\ uop' = [uop EXCEPT ![s].status =
                       IF u.type = "NONE" THEN "READY"
                       ELSE IF u.resolved = u.depN THEN "DEP_READY"
                       ELSE "WAIT_DEP"]
          /\ lsq' = IF u.type \in {"LOAD", "STORE"} THEN lsq \cup {s} ELSE lsq
          /\ rsq' = IF u.type \in {"ALU", "BRANCH"} THEN rsq \cup {s} ELSE rsq
          /\ rob' = Append(rob, s)
    /\ dec' = IF dec.sent + 1 = Required THEN IdleDecoder
              ELSE [dec EXCEPT !.sent = @ + 1]
    /\ UNCHANGED <<phase, links, regs, supply, fu, left, unit, writeReady, mis,
                   machine, writer>>

DispatchStops ==
    /\ phase = "decode"
    /\ dec.state = "dispatch"
    /\ ~HasRoom(NextUop)
    /\ CountBranch(NextUop)
    /\ phase' = "io"
    /\ UNCHANGED <<uop, links, regs, supply, rob, queues, unit, dec, mis,
                   machine, writer>>

(***************************************************************************)
(* io::cycle: a device may raise an interrupt; set_external_interrupt      *)
(* refuses it while another one is pending.                                *)
(***************************************************************************)
DeviceInterrupt ==
    /\ phase = "io"
    /\ pending = "none"
    /\ pending' \in Interrupts
    /\ phase' = "interrupt"
    /\ UNCHANGED <<uop, links, regs, supply, rob, queues, unit, dec, recovery,
                   user, running, writer>>

DevicesQuiet ==
    /\ phase = "io"
    /\ phase' = "interrupt"
    /\ UNCHANGED <<uop, links, regs, supply, rob, queues, unit, dec, recovery,
                   machine, writer>>

CommitPhase == Commit \/ CommitFlushing \/ CommitStops
ExecPhase ==
    UnitIdle \/ UnitExecutes \/ WriteBack \/ ExecDone \/ FlushOnWriteBack
IssuePhase == IssueRs \/ IssueLs \/ IssueDone
DecodePhase ==
    \/ DecodeStart \/ DecodeStops \/ Allocate \/ AllocateStops
    \/ Decode \/ Dispatch \/ DispatchStops

Next ==
    \/ TakeInterrupt \/ NoInterrupt
    \/ CommitPhase \/ ExecPhase \/ IssuePhase \/ DecodePhase
    \/ DeviceInterrupt \/ DevicesQuiet

Spec == Init /\ [][Next]_vars

\* The simulation thread runs cycle after cycle; every stage terminates.
FairSpec == Spec /\ WF_vars(Next)

-----------------------------------------------------------------------------
(***************************************************************************)
(* Properties.                                                             *)
(***************************************************************************)
\* The variables have their types.
TypeOK ==
    /\ phase \in {"interrupt", "commit", "exec", "issue", "decode", "io"}
    /\ uop \in [Slots -> Uop]
    /\ links \subseteq Link
    /\ regs \in [Regs -> Slots \cup {NoSlot}]
    /\ supply \in Seq(Slots)
    /\ rob \in Seq(Slots)
    /\ rsq \subseteq Slots
    /\ lsq \subseteq Slots
    /\ fu \in [1 .. Units -> Slots \cup {NoSlot}]
    /\ left \in [1 .. Units -> Nat]
    /\ unit \in 1 .. Units + 1
    /\ dec \in [state : {"idle", "allocate", "dispatch"},
               tmpl : Templates \cup {NoTemplate}, buf : Seq(Slots), sent : Nat]
    /\ dec.sent <= Len(dec.buf)
    /\ mis \in BOOLEAN
    /\ numBranches \in 0 .. MaxBranches
    /\ wbFlusher \in Slots \cup {NoSlot}
    /\ writeReady \in BOOLEAN
    /\ pending \in {"none", "timer", "device"}
    /\ user \in BOOLEAN
    /\ running \in BOOLEAN
    /\ writer \in [Regs -> Slots \cup {NoSlot}]

\* Everything in flight, oldest first.
ProgramOrder == rob \o SubSeq(dec.buf, dec.sent + 1, Len(dec.buf))

OlderThan(s) ==
    {ProgramOrder[i] : i \in
       {j \in DOMAIN ProgramOrder :
          \E k \in DOMAIN ProgramOrder : j < k /\ ProgramOrder[k] = s}}

Executed(s) == uop[s].pstate \in {"VALID", "CAN_FLUSH"}

\* No flush, commit or failed dispatch loses a slot or hands one out twice: each
\* is exactly once in the supply, the reorder buffer or the decoder's buffer.
\* The comment in processor_t::dispatch that the reorder buffer always has room
\* for an allocated slot rests on it.
SlotConservation ==
    /\ Len(supply) + Len(ProgramOrder) = Cardinality(Slots)
    /\ RangeOf(supply) \cup InFlight = Slots

\* The queues and the units hold exactly the dispatched uops that have still to
\* execute, each in one unit at most, so neither a flush nor a write-back leaves
\* a pointer to a slot that has been given to another instruction.
QueueMembership ==
    /\ \A s \in Slots : uop[s].status = "FREE" <=> s \in RangeOf(supply)
    /\ rsq \cup lsq = {s \in RangeOf(rob) :
                         uop[s].status \in {"WAIT_DEP", "DEP_READY", "EXECUTING"}}
    /\ \A s \in Slots :
         Cardinality({u \in 1 .. Units : fu[u] = s})
           = (IF uop[s].status = "EXECUTING" THEN 1 ELSE 0)

\* The assertion of reorder_buffer_t::commit ("deu dead-lock"): the oldest uop
\* never waits for an operand, because everything it could wait for is older.
HeadHasOperands ==
    phase = "interrupt" /\ rob # <<>> => uop[Head(rob)].status # "WAIT_DEP"

\* The timing respects the program: a uop of the executed path does not become
\* ready before every uop that produces one of its operands has finished.
TrueDependences ==
    \A s \in RangeOf(rob) :
      Executed(s) /\ uop[s].status \in {"DEP_READY", "EXECUTING", "READY"}
        => uop[s].needs = {}

\* dep_vector never points to a uop that has finished or whose slot was reused.
NoDanglingProducer ==
    \A r \in Regs : regs[r] # NoSlot =>
      /\ regs[r] \in InFlight
      /\ uop[regs[r]].status # "READY"

\* Execution is disabled exactly while an instruction that will flush the
\* pipeline is in flight, and whatever was decoded without being executed is
\* younger than such an instruction: it never reaches the commit stage.
WrongPathGuarded ==
    /\ mis <=> \E s \in InFlight : Executed(s) /\ Flushing(s)
    /\ \A s \in InFlight : uop[s].pstate = "INVALID" =>
         \E t \in OlderThan(s) : Executed(t) /\ Flushing(t)

\* num_of_branches never misses an executed branch that is unresolved, so a
\* flush on write-back never overtakes an older branch.
BranchCountCovers ==
    /\ numBranches >= Cardinality(
         {s \in InFlight : /\ uop[s].type = "BRANCH"
                           /\ Executed(s)
                           /\ uop[s].status \notin {"DECODING", "READY"}})
    /\ wbFlusher # NoSlot =>
         /\ wbFlusher \in InFlight
         /\ uop[wbFlusher].pstate = "CAN_FLUSH"
         /\ wbFlusher \notin RangeOf(rob) => numBranches > 0

\* A store executes only as the oldest uop of the processor, so a store of the
\* wrong path never does.
StoreAtHead ==
    \A s \in Slots :
      uop[s].type = "STORE" /\ uop[s].status = "EXECUTING"
        => rob # <<>> /\ s = Head(rob) /\ Executed(s)

\* A flush on write-back discards only what was decoded on the wrong path, and
\* so does the flush of a committing instruction, but for that instruction (an
\* exception sits on the first of its uops and discards the others too).
OnlyWrongPathFlushed ==
    [][ \A s \in InFlight \ InFlight' :
          phase \in {"commit", "exec"} /\ Executed(s) =>
            /\ phase = "commit"
            /\ s = Head(rob) \/ uop[Head(rob)].event = "exception" ]_vars

\* What processor_t's comment promises (cpu.h:997-1003, the result is the same
\* although instructions execute in the decoder): a trap that was decoded on the
\* executed path is processed at its commit.
DecodedTrapIsTaken ==
    [][ \A s \in InFlight \ InFlight' :
          Executed(s) /\ uop[s].event = "trap" => phase = "commit" ]_vars

\* The comments of the load/store queue (rs_policy.cpp:271-276): loads execute
\* when there are no stores before them.
LoadsWaitForStores ==
    \A s \in lsq : uop[s].type = "LOAD" /\ uop[s].status = "EXECUTING" =>
      \A t \in lsq \cap OlderThan(s) :
        uop[t].type = "STORE" => uop[t].status = "EXECUTING"

\* Every slot an instruction takes comes back: nothing in the pipeline waits for
\* ever, neither for an operand, a unit, a queue nor a slot.
Drains == \A s \in Slots : uop[s].status # "FREE" ~> uop[s].status = "FREE"

\* Disabled execution is always enabled again (CPU_DETECT_PIPELINE_DEADLOCK).
RecoveryHappens == mis ~> ~mis
=============================================================================
