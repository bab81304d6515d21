------------------------------ MODULE FrontEnd ------------------------------
(***************************************************************************)
(* The front end of a processor: the fetch buffer (cpu/fetch_buffer.cpp)   *)
(* and the part of the decoder that takes its bytes, looks the instruction *)
(* up in the cache of decoded instructions, executes it and compares the   *)
(* fetched path with the pc (cpu/decoder.cpp, cpu/decoder_cpp.h,           *)
(* cpu/x86_64/x86_64_decoder.cpp).                                         *)
(*                                                                         *)
(* Abstractions.  A byte is its place: an address of an address space, the *)
(* kernel's or that of a program, of which the fetch sees one at a time.   *)
(* The first byte of an instruction gives its length.  The handlers that   *)
(* get opcode, modrm, sib, displacement and immediate bytes are one.  An   *)
(* instruction is one micro-operation.  The back end is the queue of       *)
(* dispatched instructions, committed in order; Pipeline is its model, and *)
(* flushes on write-back are left to it.  The predictor answers anything   *)
(* its table may hold, and knows addresses, but no spaces; BranchPred is   *)
(* its model.                                                              *)
(***************************************************************************)
EXTENDS Integers, Sequences

CONSTANTS
    AddrCount,    \* addresses are 0 .. AddrCount - 1 and wrap
    Spaces,       \* the address spaces
    KernelSpace,  \* what the kernel sees, without virtual memory
    Length,       \* in a space, of the instruction that starts at an address
    Successors,   \* in a space, where the pc may be after that instruction
    Returns,      \* where the kernel has an instruction that returns
    Resumes,      \* pairs of a space and an address it may return to
    FaultPages,   \* the sets of addresses that programs may not execute
    Predictable,  \* pairs of an address and a target the predictor may answer
    Handler,      \* where an exception goes in the kernel
    Size,         \* fetch_buffer_size
    Width,        \* fetch_buffer_width
    Underflow,    \* 0xFFFFFFFF % Size
    MaxDecode,    \* cfg_max_bytes_decoded_per_cycle
    MaxMiss,      \* the longest penalty of a cache miss
    TableSize,    \* CPU_X86_64_DECODER_INST_CACHE_TABLE_SIZE
    Supply,       \* free slots of the reorder buffer
    MaxLength,    \* bound: bytes of what is no instruction of the program
    Strays,       \* bound: where the pc may be after that
    NoInst        \* an instruction cache entry that is not busy

Addrs == 0 .. AddrCount - 1
After(a) == (a + 1) % AddrCount

ASSUME FrontEndAssumption ==
    /\ AddrCount \in Nat \ {0}
    /\ Size \in Nat \ {0} /\ Width \in Nat \ {0}
    /\ MaxDecode \in Nat \ {0} /\ Supply \in Nat \ {0}
    /\ MaxMiss \in Nat /\ TableSize \in Nat \ {0}
    /\ Underflow \in 0 .. Size - 1
    /\ KernelSpace \in Spaces
    /\ Handler \in Addrs
    /\ Length \in [Spaces -> [Addrs -> Nat \ {0}]]
    /\ Successors \in [Spaces -> [Addrs -> SUBSET Addrs]]
    /\ Resumes \subseteq Spaces \X Addrs
    /\ Strays \subseteq Addrs
    /\ Predictable \subseteq Addrs \X Addrs

VARIABLES
    notExecutable,  \* the addresses whose fetch raises an exception
    pc,             \* processor_t::pc
    space,          \* what is fetched from: cpl and the page tables
    spec_pc,        \* where the fetch goes on
    buffer,         \* the array of bytes
    read_pos, write_pos, available,
    disable_until_flush,
    disable_due_to_cache_miss,
    to_fetch,       \* bytes the fetch may still add in this cycle
    dec,            \* the instruction the decoder works on
    next_inst_addr, \* where the fetch went after the last byte taken
    bytes_decoded,  \* bytes_decoded_in_cycle
    inst_cache,     \* inst_cache_tb: an address, and the bytes decoded from it
    mis,            \* mis_speculation
    window,         \* dispatched instructions, oldest first
    phase,          \* the step of the cycle
    seen,           \* history: a byte was taken since the last flush
    faulted,        \* history: a fault of the right path was taken
    garbled         \* history: a fault was decoded since inst_cache is empty

fetchVars == <<spec_pc, buffer, read_pos, write_pos, available,
               disable_until_flush, disable_due_to_cache_miss>>
decodeVars == <<dec, next_inst_addr, bytes_decoded, inst_cache, mis, seen,
                faulted, garbled>>
vars == <<fetchVars, decodeVars, notExecutable, pc, space, to_fetch, window,
          phase>>

\* space stands for the physical address.
Elements == [space : Spaces, vaddr : Addrs, next : Addrs, fault : BOOLEAN]
Uops == [valid : BOOLEAN, flush : {"no", "misprediction", "event", "return"}]

\* What the decoder keeps of its instruction: got are the bytes read one by
\* one, taken counts all bytes.
NoDecoding == [handler |-> "idle", addr |-> 0, got |-> <<>>, taken |-> 0]

\* The byte of a fault is uninitialized memory.
Garbage == [space |-> KernelSpace, addr |-> -1]

\* The first n bytes from a on, and the instruction there.
BytesAt(s, a, n) ==
    [k \in 1 .. n |-> [space |-> s, addr |-> (a + k - 1) % AddrCount]]
InstructionAt(s, a) == BytesAt(s, a, Length[s][a])

EmptyCache == [i \in 0 .. TableSize - 1 |-> NoInst]

Init ==
    /\ notExecutable \in FaultPages
    /\ pc \in {a \in Addrs : Successors[KernelSpace][a] # {}}
    /\ space = KernelSpace
    /\ spec_pc = pc
    /\ buffer = [i \in 0 .. Size - 1 |-> [space |-> KernelSpace, vaddr |-> 0,
                                          next |-> 0, fault |-> FALSE]]
    /\ read_pos = 0 /\ write_pos = 0 /\ available = Size
    /\ disable_until_flush = FALSE
    /\ disable_due_to_cache_miss = 0
    /\ to_fetch = 0
    /\ dec = NoDecoding
    /\ next_inst_addr = 0
    /\ bytes_decoded = 0
    /\ inst_cache = EmptyCache
    /\ mis = FALSE
    /\ window = <<>>
    /\ phase = "commit"
    /\ seen = FALSE
    /\ faulted = FALSE
    /\ garbled = FALSE

-----------------------------------------------------------------------------
(***************************************************************************)
(* Commit: the oldest instruction leaves; if it is of the right path and   *)
(* mispredicted, raised an event or returned from the kernel, everything   *)
(* behind it is flushed.                                                   *)
(***************************************************************************)
CommitUop ==
    /\ phase = "commit"
    /\ window # <<>>
    /\ Head(window).valid => Head(window).flush = "no"
    /\ window' = Tail(window)
    /\ UNCHANGED <<fetchVars, decodeVars, notExecutable, pc, space, to_fetch,
                   phase>>

\* MUTANT: the flush forgets read_pos.
FlushKeepsReadPos(target) ==
    /\ window' = <<>>
    /\ pc' = target
    /\ spec_pc' = target
    /\ available' = Size
    /\ write_pos' = 0
    /\ disable_until_flush' = FALSE
    /\ disable_due_to_cache_miss' = 0
    /\ dec' = NoDecoding
    /\ mis' = FALSE
    /\ seen' = FALSE
    /\ faulted' = FALSE
    /\ UNCHANGED <<buffer, read_pos, next_inst_addr, bytes_decoded>>

\* flush of the decoder and of the fetch buffer; target is the new pc.
FlushFrontEnd(target) ==
    /\ window' = <<>>
    /\ pc' = target
    /\ spec_pc' = target
    /\ available' = Size
    /\ read_pos' = 0
    /\ write_pos' = 0
    /\ disable_until_flush' = FALSE
    /\ disable_due_to_cache_miss' = 0
    /\ dec' = NoDecoding
    /\ mis' = FALSE
    /\ seen' = FALSE
    /\ faulted' = FALSE
    /\ UNCHANGED <<buffer, next_inst_addr, bytes_decoded>>

\* MUTANT: what was decoded in another space is kept.
CacheKept == UNCHANGED <<inst_cache, garbled>>

\* flush_internal_caches
ClearCache == inst_cache' = EmptyCache /\ garbled' = FALSE

\* A program is left for the kernel.
EnterKernel ==
    /\ FlushFrontEnd(Handler)
    /\ ClearCache
    /\ space' = KernelSpace

CommitFlushes(kind) ==
    /\ phase = "commit"
    /\ window # <<>>
    /\ Head(window).valid
    /\ Head(window).flush = kind
    /\ UNCHANGED <<notExecutable, to_fetch, phase>>

\* A misprediction goes on at the pc and keeps what is decoded.
CommitMisprediction ==
    /\ CommitFlushes("misprediction")
    /\ FlushFrontEnd(pc)
    /\ UNCHANGED <<space, inst_cache, garbled>>

\* process_exception and process_trap, of a program
CommitEvent == CommitFlushes("event") /\ EnterKernel

\* process_instruction_that_flushes_pipeline: the instruction that returned
\* has changed pc and space when it was executed.
CommitReturn ==
    /\ CommitFlushes("return")
    /\ FlushFrontEnd(pc)
    /\ ClearCache
    /\ UNCHANGED space

CommitDone ==
    /\ phase = "commit"
    /\ phase' = "decode"
    /\ bytes_decoded' = 0
    /\ UNCHANGED <<fetchVars, dec, next_inst_addr, inst_cache, mis, seen,
                   faulted, garbled, notExecutable, pc, space, to_fetch,
                   window>>

-----------------------------------------------------------------------------
(***************************************************************************)
(* The decoder's side of the fetch buffer.                                 *)
(***************************************************************************)
InBuffer == Size - available
HeadByte == buffer[read_pos]
MayTake == bytes_decoded < MaxDecode /\ InBuffer > 0

\* stop_decoding_in_cycle: the fetch of this cycle follows, into the room that
\* the decoder leaves.
StopDecoding ==
    /\ phase' = "fetch"
    /\ to_fetch' = IF disable_until_flush \/ disable_due_to_cache_miss > 0
                   THEN 0
                   ELSE IF available' > Width THEN Width ELSE available'
    /\ disable_due_to_cache_miss' =
           IF disable_until_flush \/ disable_due_to_cache_miss = 0
           THEN disable_due_to_cache_miss
           ELSE disable_due_to_cache_miss - 1

SameFetch == UNCHANGED <<fetchVars, to_fetch, phase>>

DecodeStart ==
    /\ phase = "decode"
    /\ dec.handler = "idle"
    /\ dec' = [NoDecoding EXCEPT !.handler = "bytes"]
    /\ SameFetch
    /\ UNCHANGED <<next_inst_addr, bytes_decoded, inst_cache, mis, seen,
                   faulted, garbled, notExecutable, pc, space, window>>

NoByte ==
    /\ phase = "decode"
    /\ dec.handler = "bytes"
    /\ ~MayTake
    /\ UNCHANGED <<spec_pc, buffer, read_pos, write_pos, available,
                   disable_until_flush, decodeVars, notExecutable, pc,
                   space, window>>
    /\ StopDecoding

\* MUTANT: the position does not wrap.
TakeByteUnwrapped ==
    /\ read_pos' = read_pos + 1
    /\ available' = available + 1
    /\ UNCHANGED <<spec_pc, buffer, write_pos, disable_until_flush,
                   disable_due_to_cache_miss>>

\* get_byte
TakeByte ==
    /\ read_pos' = (read_pos + 1) % Size
    /\ available' = available + 1
    /\ UNCHANGED <<spec_pc, buffer, write_pos, disable_until_flush,
                   disable_due_to_cache_miss>>

CacheIndex(a) == a % TableSize

\* MUTANT: the entry's address is not compared.
DecodedSomething(a) == inst_cache[CacheIndex(a)] # NoInst

\* The cache of decoded instructions has the one that starts at a.
Decoded(a) ==
    /\ inst_cache[CacheIndex(a)] # NoInst
    /\ inst_cache[CacheIndex(a)].vaddr = a

(***************************************************************************)
(* One more byte b of the instruction, at addr.  The first one is looked   *)
(* up in the cache; when the instruction is complete its entry is, and it  *)
(* needs its slot.                                                         *)
(***************************************************************************)
Hit(addr) == dec.got = <<>> /\ Decoded(addr)

Cached(b, addr, complete) ==
    IF Hit(addr) THEN inst_cache
    ELSE [inst_cache EXCEPT
             ![CacheIndex(IF dec.got = <<>> THEN addr ELSE dec.addr)] =
                 IF complete
                 THEN [vaddr |-> IF dec.got = <<>> THEN addr ELSE dec.addr,
                       bytes |-> Append(dec.got, b)]
                 ELSE NoInst]

WithByte(b, addr, complete) ==
    [got |-> Append(dec.got, b),
     taken |-> dec.taken + 1,
     addr |-> IF dec.got = <<>> THEN addr ELSE dec.addr,
     handler |-> IF Hit(addr)
                 THEN IF Len(inst_cache[CacheIndex(addr)].bytes) = 1
                      THEN "allocate" ELSE "skip"
                 ELSE IF complete THEN "allocate" ELSE "bytes"]

\* The bytes read so far may be all.  Those of an instruction of the program
\* are when it is complete; a prediction inside of it may have led the fetch
\* astray, and what the bytes then are is not known.
MayBeAll(bytes) ==
    LET b == bytes[1]
        n == Len(bytes)
    IN  IF bytes = BytesAt(b.space, b.addr, n)
        THEN {n = Length[b.space][b.addr]}
        ELSE IF n < MaxLength THEN BOOLEAN ELSE {TRUE}

\* GET_BYTE_FROM_FETCH_BUFFER, and what its caller does with the byte.
GetByte ==
    /\ phase = "decode"
    /\ dec.handler = "bytes"
    /\ MayTake
    /\ ~HeadByte.fault
    /\ TakeByte
    /\ next_inst_addr' = HeadByte.next
    /\ bytes_decoded' = bytes_decoded + 1
    /\ seen' = TRUE
    /\ LET addr == HeadByte.vaddr
           b == [space |-> HeadByte.space, addr |-> addr]
       IN  \E complete \in MayBeAll(Append(dec.got, b)) :
               /\ dec' = WithByte(b, addr, complete)
               /\ inst_cache' = Cached(b, addr, complete)
    /\ UNCHANGED <<mis, faulted, garbled, notExecutable, pc, space, window,
                   to_fetch, phase>>

\* MUTANT: one too far.
FirstNotSkipped(skipped) == (read_pos + skipped) % Size

\* The index skip_bytes takes the next address from, in 32 bits.
LastSkipped(skipped) ==
    IF read_pos + skipped = 0 THEN Underflow
    ELSE (read_pos + skipped - 1) % Size

\* SKIP_BYTES_FROM_FETCH_BUFFER: the rest of a decoded instruction.
Skip ==
    LET want == Len(inst_cache[CacheIndex(dec.addr)].bytes) - dec.taken
        left == MaxDecode - bytes_decoded
        asked == IF want < left THEN want ELSE left
        skipped == IF asked < InBuffer THEN asked ELSE InBuffer
    IN
    /\ phase = "decode"
    /\ dec.handler = "skip"
    /\ next_inst_addr' = buffer[LastSkipped(skipped)].next
    /\ read_pos' = (read_pos + skipped) % Size
    /\ available' = available + skipped
    /\ dec' = [dec EXCEPT !.taken = @ + skipped,
                          !.handler = IF skipped < want THEN "skip"
                                      ELSE "allocate"]
    /\ garbled' = (garbled \/ \E i \in 0 .. skipped - 1 :
                                 buffer[(read_pos + i) % Size].fault)
    /\ IF skipped < want THEN StopDecoding
       ELSE UNCHANGED <<phase, to_fetch, disable_due_to_cache_miss>>
    /\ UNCHANGED <<spec_pc, buffer, write_pos, disable_until_flush,
                   bytes_decoded, inst_cache, mis, seen, faulted,
                   notExecutable, pc, space, window>>

-----------------------------------------------------------------------------
(***************************************************************************)
(* Allocation, execution and dispatch.                                     *)
(***************************************************************************)
HasSlot == Len(window) < Supply

NoSlot ==
    /\ phase = "decode"
    /\ dec.handler \in {"allocate", "allocate fault"}
    /\ ~HasSlot
    /\ UNCHANGED <<spec_pc, buffer, read_pos, write_pos, available,
                   disable_until_flush, decodeVars, notExecutable, pc,
                   space, window>>
    /\ StopDecoding

\* MUTANT: execution goes on after a misprediction.
InstructionEndIgnoring(unexpected, target) ==
    LET foresight == next_inst_addr = target IN
    /\ pc' = target
    /\ mis' = (mis \/ unexpected # "no")
    /\ window' = Append(window, [valid |-> ~mis,
                                 flush |-> IF unexpected # "no" \/ foresight
                                           THEN unexpected
                                           ELSE "misprediction"])
    /\ dec' = NoDecoding

\* INSTRUCTION_END: after it the decoder executes nothing more if the
\* instruction did something unexpected, raised an event or returned, or the
\* fetch did not go where the pc went.
InstructionEnd(unexpected, target) ==
    LET foresight == next_inst_addr = target IN
    /\ pc' = target
    /\ mis' = (mis \/ unexpected # "no" \/ ~foresight)
    /\ window' = Append(window, [valid |-> ~mis,
                                 flush |-> IF unexpected # "no" \/ foresight
                                           THEN unexpected
                                           ELSE "misprediction"])
    /\ dec' = NoDecoding

\* The bytes of the instruction that waits for its slot.
DecodedBytes == inst_cache[CacheIndex(dec.addr)].bytes
IsInstruction == DecodedBytes = InstructionAt(space, dec.addr)

\* What an instruction may do: go on, raise an event if it is a program's,
\* or return from the kernel, which changes the space at once.
Runs ==
    \/ \E target \in IF IsInstruction THEN Successors[space][dec.addr]
                      ELSE Strays :
           InstructionEnd("no", target) /\ UNCHANGED space
    \/ /\ space # KernelSpace
       /\ InstructionEnd("event", pc)
       /\ UNCHANGED space
    \/ /\ space = KernelSpace /\ IsInstruction /\ dec.addr \in Returns
       /\ \E r \in Resumes : InstructionEnd("return", r[2]) /\ space' = r[1]

\* The instruction runs at once, unless execution is disabled.
Execute ==
    /\ phase = "decode"
    /\ dec.handler = "allocate"
    /\ HasSlot
    /\ IF mis THEN InstructionEnd("no", pc) /\ UNCHANGED space ELSE Runs
    /\ SameFetch
    /\ UNCHANGED <<next_inst_addr, bytes_decoded, inst_cache, seen, faulted,
                   garbled, notExecutable>>

\* fetch_buffer_exception, entered from alocate_inst_ in a later cycle.
RaiseFault ==
    /\ phase = "decode"
    /\ dec.handler = "allocate fault"
    /\ HasSlot
    /\ InstructionEnd("event", pc)
    /\ SameFetch
    /\ UNCHANGED <<next_inst_addr, bytes_decoded, inst_cache, seen, faulted,
                   garbled, notExecutable, space>>

(***************************************************************************)
(* GET_BYTE_FROM_FETCH_BUFFER takes a fault.  The macro allocates a slot   *)
(* for it and dispatches it, or leaves a handler that will; then it does   *)
(* not return, and its caller goes on with an uninitialized byte.  What    *)
(* that byte is taken for decides the rest: a caller inside a loop asks    *)
(* for another byte and changes nothing; another one leaves a handler that *)
(* waits for the rest of the instruction; or the byte completes it, and it *)
(* is executed, in the slot of the fault if that one was dispatched.       *)
(***************************************************************************)
\* The caller goes on and the instruction gets complete, or does not.
GoOn(complete) ==
    LET addr == HeadByte.vaddr
        over == complete \/ WithByte(Garbage, addr, FALSE).handler = "allocate"
    IN  /\ inst_cache' = Cached(Garbage, addr, complete)
        /\ dec' = IF HasSlot THEN NoDecoding
                  ELSE WithByte(Garbage, addr, complete)
        /\ window' = IF HasSlot
                     THEN Append(window, [valid |-> ~mis /\ ~over,
                                          flush |-> "event"])
                     ELSE window

\* The caller only asks for another byte.
AskAgain ==
    /\ inst_cache' = IF dec.got # <<>> THEN inst_cache
                     ELSE Cached(Garbage, HeadByte.vaddr, FALSE)
    /\ dec' = IF HasSlot THEN NoDecoding
              ELSE [dec EXCEPT !.handler = "allocate fault"]
    /\ window' = IF HasSlot
                 THEN Append(window, [valid |-> ~mis, flush |-> "event"])
                 ELSE window

TakeFault ==
    /\ phase = "decode"
    /\ dec.handler = "bytes"
    /\ MayTake
    /\ HeadByte.fault
    /\ TakeByte
    /\ faulted' = (faulted \/ ~mis)
    /\ garbled' = TRUE
    /\ mis' = (mis \/ HasSlot)
    /\ \/ AskAgain /\ ~Hit(HeadByte.vaddr)
       \/ GoOn(FALSE)
       \/ GoOn(TRUE) /\ ~Hit(HeadByte.vaddr)
    /\ UNCHANGED <<next_inst_addr, bytes_decoded, seen, notExecutable, pc,
                   space, to_fetch, phase>>

-----------------------------------------------------------------------------
(***************************************************************************)
(* Fetch: bytes of the space along the predicted path, until the width is  *)
(* reached, a branch is predicted taken or a byte cannot be executed.  Any *)
(* byte may be predicted to be a branch: of another program, as well.      *)
(***************************************************************************)
FetchByte ==
    LET fault == space # KernelSpace /\ spec_pc \in notExecutable IN
    /\ phase = "fetch"
    /\ to_fetch > 0
    /\ write_pos' = (write_pos + 1) % Size
    /\ available' = available - 1
    /\ \E penalty \in 0 .. MaxMiss :
           disable_due_to_cache_miss' =
               IF penalty > disable_due_to_cache_miss THEN penalty
               ELSE disable_due_to_cache_miss
    /\ \/ /\ fault
          /\ buffer' = [buffer EXCEPT ![write_pos].vaddr = spec_pc,
                                      ![write_pos].fault = TRUE]
          /\ disable_until_flush' = TRUE
          /\ to_fetch' = 0
          /\ UNCHANGED spec_pc
       \/ /\ ~fault
          /\ \E taken \in {p[2] : p \in {q \in Predictable : q[1] = spec_pc}} :
                 /\ spec_pc' = taken
                 /\ buffer' = [buffer EXCEPT ![write_pos] =
                        [space |-> space, vaddr |-> spec_pc, next |-> taken,
                         fault |-> FALSE]]
          /\ to_fetch' = 0
          /\ UNCHANGED disable_until_flush
       \/ /\ ~fault
          /\ spec_pc' = After(spec_pc)
          /\ buffer' = [buffer EXCEPT ![write_pos] =
                 [space |-> space, vaddr |-> spec_pc, next |-> After(spec_pc),
                  fault |-> FALSE]]
          /\ to_fetch' = to_fetch - 1
          /\ UNCHANGED disable_until_flush
    /\ UNCHANGED <<read_pos, decodeVars, notExecutable, pc, space, window,
                   phase>>

\* The next cycle starts.
FetchDone ==
    /\ phase = "fetch"
    /\ to_fetch = 0
    /\ phase' = "commit"
    /\ UNCHANGED <<fetchVars, decodeVars, notExecutable, pc, space, to_fetch,
                   window>>

\* It starts with the flush of an external interrupt, if a program runs.
ExternalInterrupt ==
    /\ phase = "fetch"
    /\ to_fetch = 0
    /\ space # KernelSpace
    /\ phase' = "commit"
    /\ EnterKernel
    /\ UNCHANGED <<notExecutable, to_fetch>>

-----------------------------------------------------------------------------
CommitFlush == CommitMisprediction \/ CommitEvent \/ CommitReturn

Commit == CommitUop \/ CommitFlush \/ CommitDone

Decode == DecodeStart \/ NoByte \/ GetByte \/ Skip \/ NoSlot \/ Execute
          \/ RaiseFault \/ TakeFault

Fetch == FetchByte \/ FetchDone

Next == Commit \/ Decode \/ Fetch \/ ExternalInterrupt

Spec == Init /\ [][Next]_vars

-----------------------------------------------------------------------------
TypeOK ==
    /\ notExecutable \in FaultPages
    /\ {pc, spec_pc, next_inst_addr} \subseteq Addrs
    /\ space \in Spaces
    /\ buffer \in [0 .. Size - 1 -> Elements]
    /\ {read_pos, write_pos} \subseteq 0 .. Size - 1
    /\ available \in 0 .. Size
    /\ disable_until_flush \in BOOLEAN
    /\ disable_due_to_cache_miss \in 0 .. MaxMiss
    /\ to_fetch \in 0 .. Width
    /\ dec.handler \in {"idle", "bytes", "skip", "allocate", "allocate fault"}
    /\ dec.addr \in Addrs
    /\ bytes_decoded \in 0 .. MaxDecode
    /\ \A i \in 0 .. TableSize - 1 :
           inst_cache[i] # NoInst => CacheIndex(inst_cache[i].vaddr) = i
    /\ {mis, seen, faulted, garbled} \subseteq BOOLEAN
    /\ Len(window) <= Supply
    /\ \A k \in DOMAIN window : window[k] \in Uops
    /\ phase \in {"commit", "decode", "fetch"}

\* The address of the next byte the decoder will get.
NextFetched == IF InBuffer = 0 THEN spec_pc ELSE HeadByte.vaddr

\* What the buffer holds is one path: every byte names the next one, up to
\* the place where the fetch goes on, and only the last one may be a fault
\* (fetch_buffer.cpp:204).
BufferIsPath ==
    \A k \in 0 .. InBuffer - 1 :
        LET at(i) == buffer[(read_pos + i) % Size] IN
        IF at(k).fault
        THEN k = InBuffer - 1 /\ disable_until_flush /\ spec_pc = at(k).vaddr
        ELSE at(k).next = IF k = InBuffer - 1 THEN spec_pc
                          ELSE at(k + 1).vaddr

\* When an instruction ends, the address it is compared with is the one the
\* fetch really went to, although skipping no byte reads a stale element
\* (fetch_buffer.cpp:132).  Once a fault was decoded or skipped the decoder
\* remembers instructions with a byte that was none, until it is emptied.
ForesightIsFresh ==
    ~garbled /\ seen /\ dec.handler # "skip" => next_inst_addr = NextFetched

\* An instruction is executed only at the pc: while execution is enabled
\* the decoder works on, or will get, the instruction at the pc, through
\* predictions, misses, flushes and changes of the space (decoder_cpp.h:127).
ExecutesAtPc ==
    ~garbled /\ ~mis =>
        IF dec.got = <<>> THEN NextFetched = pc ELSE dec.addr = pc

\* The bytes are not neighbours, because the predictor took the last byte of
\* another program's branch for one inside of this instruction.
Diverted(bytes) ==
    \E k \in 2 .. Len(bytes) :
        /\ bytes[k].addr # After(bytes[k - 1].addr)
        /\ <<bytes[k - 1].addr, bytes[k].addr>> \in Predictable

\* An instruction that is executed was read, now or before, in the space the
\* processor is in: neither the buffer nor the cache of decoded instructions
\* keeps a byte of another space (x86_64.cpp:636).  It is made of the bytes
\* at its address, or of those a prediction inside of it led to, which is
\* not noticed (x86_64_decoder.cpp:134, fetch_buffer.cpp:236).
ExecutesItsBytes ==
    ~garbled /\ ~mis /\ dec.handler = "allocate" =>
        /\ DecodedBytes[1] = [space |-> space, addr |-> dec.addr]
        /\ \A k \in DOMAIN DecodedBytes : DecodedBytes[k].space = space
        /\ IsInstruction \/ Diverted(DecodedBytes)

\* A fault fetched on the right path is raised: it waits for its slot, or
\* was dispatched and will flush the pipeline.
FaultIsRaised ==
    faulted => \/ dec.handler = "allocate fault"
               \/ \E k \in DOMAIN window :
                      window[k].valid /\ window[k].flush = "event"
=============================================================================
