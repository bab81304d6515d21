--------------------------- MODULE Pipeline_proofs ---------------------------
(***************************************************************************)
(* Theorems about Pipeline, for every number of slots, registers, units    *)
(* and templates.                                                          *)
(***************************************************************************)
EXTENDS Pipeline, TLAPS, FiniteSetTheorems, SequenceTheorems, FunctionTheorems

\* The decoder holds no slot while idle, no more than its instruction needs while
\* it allocates, and has a uop left to dispatch while it dispatches.
DecoderConsistent ==
    /\ dec.state = "idle" => dec = IdleDecoder
    /\ dec.state = "allocate" =>
         /\ dec.tmpl \in Templates
         /\ dec.sent = 0
         /\ Len(dec.buf) <= Required
    /\ dec.state = "dispatch" =>
         /\ dec.tmpl \in Templates
         /\ dec.sent < Len(dec.buf)
         /\ Len(dec.buf) = Required

\* The inductive invariant.  The links must be finitely many for the counts of
\* Resolve and MakeLink to be numbers.
TypeInv == TypeOK /\ DecoderConsistent /\ IsFiniteSet(links)

-----------------------------------------------------------------------------
\* Lemmas about the helpers.
LEMMA RangeOfSequence ==
    ASSUME NEW S, NEW q \in Seq(S)
    PROVE  /\ RangeOf(q) \subseteq S
           /\ RangeOf(q) = {q[i] : i \in 1 .. Len(q)}
  BY DEF RangeOf

\* A function on 1 .. n is a sequence of length n.
LEMMA FunctionIsSequence ==
    ASSUME NEW S, NEW n \in Nat, NEW f \in [1 .. n -> S]
    PROVE  f \in Seq(S) /\ Len(f) = n /\ DOMAIN f = 1 .. n
  <1>1. f \in Seq(S)
    BY SeqDef
  <1>2. Len(f) \in Nat /\ DOMAIN f = 1 .. Len(f)
    BY <1>1, LenProperties
  <1> QED
    BY <1>1, <1>2

\* What is allocated and not dispatched is a sequence of slots.
LEMMA BufferedType ==
    ASSUME TypeInv
    PROVE  /\ Buffered \in Seq(Slots)
           /\ Len(Buffered) = Len(dec.buf) - dec.sent
  <1> DEFINE n == Len(dec.buf) - dec.sent
  <1>1. /\ dec.buf \in Seq(Slots)
        /\ n \in Nat
        /\ dec.sent \in Nat
        /\ Len(dec.buf) \in Nat
    BY DEF TypeInv, TypeOK
  <1>2. \A i \in 1 .. n : dec.buf[Len(dec.buf) + 1 - i] \in Slots
    BY <1>1
  <1>3. Buffered \in [1 .. n -> Slots]
    BY <1>2 DEF Buffered
  <1> HIDE DEF n
  <1>4. Buffered \in Seq(Slots) /\ Len(Buffered) = n
    BY <1>1, <1>3, FunctionIsSequence
  <1> QED
    BY <1>4 DEF n

\* The image of a finite set is finite.
LEMMA ImageIsFinite ==
    ASSUME NEW S, IsFiniteSet(S), NEW f
    PROVE  IsFiniteSet({f[x] : x \in S})
  <1> DEFINE T == {f[x] : x \in S}
             g == [x \in S |-> f[x]]
  <1>1. g \in [S -> T]
    OBVIOUS
  <1>2. \A t \in T : \E x \in S : g[x] = t
    OBVIOUS
  <1>3. g \in Surjection(S, T)
    BY <1>1, <1>2 DEF Surjection
  <1> QED
    BY <1>3, FS_Surjection

-----------------------------------------------------------------------------
\* A free slot has the type of a slot.
LEMMA FreeUopType == FreeUop \in Uop
  BY DEF FreeUop, Uop, UopTypes, Statuses, PipelineStates, EventKinds

\* The initial states have their types.
LEMMA TypeInit == Init => TypeInv
  <1> SUFFICES ASSUME Init PROVE TypeInv
    OBVIOUS
  <1>1. Cardinality(Slots) \in Nat
    BY FS_CardinalityType, SlotAssumption
  <1>2. supply \in Seq(Slots)
    BY <1>1 DEF Init
  <1>3. dec \in [state : {"idle", "allocate", "dispatch"},
                 tmpl : Templates \cup {NoTemplate}, buf : Seq(Slots), sent : Nat]
    BY DEF Init, IdleDecoder
  <1>4. IsFiniteSet(links)
    BY FS_EmptySet DEF Init
  <1>5. uop \in [Slots -> Uop]
    BY FreeUopType DEF Init
  <1>6. regs \in [Regs -> Slots \cup {NoSlot}] /\ writer \in [Regs -> Slots \cup {NoSlot}]
    BY DEF Init
  <1>7. fu \in [1 .. Units -> Slots \cup {NoSlot}] /\ left \in [1 .. Units -> Nat]
    BY DEF Init, NoSlots
  <1>8. unit \in 1 .. Units + 1
    BY UnitAssumption DEF Init
  <1>9. numBranches \in 0 .. MaxBranches
    BY SizeAssumption DEF Init
  <1>10. dec.sent <= Len(dec.buf)
    BY DEF Init, IdleDecoder
  <1>11. DecoderConsistent
    BY DEF Init, IdleDecoder, DecoderConsistent
  <1>12. rob \in Seq(Slots) /\ links \subseteq Link
    BY DEF Init
  <1> QED
    BY <1>2, <1>3, <1>4, <1>5, <1>6, <1>7, <1>8, <1>9, <1>10, <1>11, <1>12
    DEF Init, TypeInv, TypeOK

-----------------------------------------------------------------------------
\* Flushing the whole pipeline.
LEMMA FlushType ==
    ASSUME TypeInv, FlushPipeline,
           phase' \in {"interrupt", "commit", "exec", "issue", "decode", "io"},
           unit' = unit, pending' \in {"none", "timer", "device"},
           user' \in BOOLEAN, running' \in BOOLEAN
    PROVE  TypeInv'
  <1>1. supply' \in Seq(Slots)
    BY BufferedType DEF FlushPipeline, TypeInv, TypeOK
  <1>2. /\ dec' = IdleDecoder
        /\ rob' = <<>>
        /\ links' = {} /\ rsq' = {} /\ lsq' = {}
    BY DEF FlushPipeline
  <1>3. /\ dec' \in [state : {"idle", "allocate", "dispatch"},
                     tmpl : Templates \cup {NoTemplate}, buf : Seq(Slots), sent : Nat]
        /\ dec'.sent <= Len(dec'.buf)
        /\ DecoderConsistent'
    BY <1>2 DEF IdleDecoder, DecoderConsistent
  <1>4. uop' \in [Slots -> Uop]
    BY FreeUopType DEF FlushPipeline
  <1>5. /\ regs' \in [Regs -> Slots \cup {NoSlot}]
        /\ writer' \in [Regs -> Slots \cup {NoSlot}]
        /\ fu' \in [1 .. Units -> Slots \cup {NoSlot}]
        /\ left' \in [1 .. Units -> Nat]
    BY DEF FlushPipeline, UnitsFlushed, NoSlots
  <1>6. /\ numBranches' \in 0 .. MaxBranches
        /\ mis' \in BOOLEAN /\ writeReady' \in BOOLEAN
        /\ wbFlusher' \in Slots \cup {NoSlot}
    <2>1. numBranches' = 0 /\ wbFlusher' = NoSlot
      BY DEF FlushPipeline
    <2>2. mis' \in BOOLEAN /\ writeReady' \in BOOLEAN
      BY DEF FlushPipeline
    <2> QED
      BY <2>1, <2>2, SizeAssumption
  <1>7. /\ IsFiniteSet(links') /\ links' \subseteq Link
        /\ rob' \in Seq(Slots)
        /\ rsq' \subseteq Slots /\ lsq' \subseteq Slots
    BY <1>2, FS_EmptySet
  <1>8. unit' \in 1 .. Units + 1
    BY DEF TypeInv, TypeOK
  <1> QED
    BY <1>1, <1>3, <1>4, <1>5, <1>6, <1>7, <1>8 DEF TypeInv, TypeOK

\* A slot whose status changes keeps its type.
LEMMA StatusType ==
    ASSUME TypeInv, NEW s \in Slots, NEW st \in Statuses
    PROVE  [uop[s] EXCEPT !.status = st] \in Uop
  <1>1. uop[s] \in Uop
    BY DEF TypeInv, TypeOK
  <1> QED
    BY <1>1 DEF Uop

\* The next uop to dispatch is a slot.
LEMMA NextUopType ==
    ASSUME TypeInv, dec.state = "dispatch"
    PROVE  NextUop \in Slots
  BY DEF NextUop, TypeInv, TypeOK, DecoderConsistent

\* The counts of Resolve are numbers.
LEMMA ResolveType ==
    ASSUME TypeInv, NEW s \in Slots, NEW d \in Slots
    PROVE  Resolve(s, d) \in Uop
  <1>1. uop[d] \in Uop
    BY DEF TypeInv, TypeOK
  <1>2. Cardinality(Hits(s, d)) \in Nat
    <2>1. Hits(s, d) \subseteq links
      BY DEF Hits
    <2> QED
      BY <2>1, FS_Subset, FS_CardinalityType DEF TypeInv
  <1>3. uop[d].resolved + Cardinality(Hits(s, d)) \in Nat
    BY <1>1, <1>2 DEF Uop
  <1> QED
    BY <1>1, <1>3 DEF Resolve, Uop, Statuses

\* Counting a branch keeps the types of the count and of wb_flusher.
LEMMA CountBranchType ==
    ASSUME TypeInv, dec.state = "dispatch", CountBranch(NextUop)
    PROVE  numBranches' \in 0 .. MaxBranches /\ wbFlusher' \in Slots \cup {NoSlot}
  <1>1. NextUop \in Slots
    BY NextUopType
  <1> QED
    BY <1>1, SizeAssumption DEF CountBranch, TypeInv, TypeOK

\* Write-back keeps the types.
LEMMA WriteBackType == TypeInv /\ WriteBack => TypeInv'
  <1> SUFFICES ASSUME TypeInv, WriteBack PROVE TypeInv'
    OBVIOUS
  <1> DEFINE s == fu[unit]
  <1>1. s \in Slots
    BY UnitAssumption DEF WriteBack, TypeInv, TypeOK
  <1>2. uop' \in [Slots -> Uop]
    <2>1. [uop[s] EXCEPT !.status = "READY"] \in Uop
      BY <1>1, StatusType DEF Statuses
    <2>2. \A d \in Slots : uop[d] \in Uop /\ Resolve(s, d) \in Uop
      BY <1>1, ResolveType DEF TypeInv, TypeOK
    <2> QED
      BY <2>1, <2>2 DEF WriteBack
  <1>3. links' \subseteq Link /\ IsFiniteSet(links')
    <2>1. links' \in SUBSET links
      BY DEF WriteBack
    <2> QED
      BY <2>1, FS_Subset DEF TypeInv, TypeOK
  <1>4. /\ regs' \in [Regs -> Slots \cup {NoSlot}]
        /\ writer' \in [Regs -> Slots \cup {NoSlot}]
        /\ fu' \in [1 .. Units -> Slots \cup {NoSlot}]
    BY DEF WriteBack, ClearProducer, TypeInv, TypeOK
  <1>5. rsq' \subseteq Slots /\ lsq' \subseteq Slots
    BY DEF WriteBack, TypeInv, TypeOK
  <1>6. numBranches' \in 0 .. MaxBranches
    BY SizeAssumption DEF WriteBack, TypeInv, TypeOK
  <1>7. unit' \in 1 .. Units + 1
    BY UnitAssumption DEF WriteBack, NextUnit, TypeInv, TypeOK
  <1>8. UNCHANGED <<phase, supply, rob, left, writeReady, dec, mis, wbFlusher,
                    pending, user, running>>
    BY DEF WriteBack, machine
  <1> QED
    BY <1>2, <1>3, <1>4, <1>5, <1>6, <1>7, <1>8
    DEF TypeInv, TypeOK, DecoderConsistent, Required

\* Commit without a flush keeps the types.
LEMMA CommitType == TypeInv /\ Commit => TypeInv'
  <1> SUFFICES ASSUME TypeInv, Commit PROVE TypeInv'
    OBVIOUS
  <1>1. Head(rob) \in Slots /\ rob' \in Seq(Slots)
    BY HeadTailProperties DEF Commit, HeadIs, TypeInv, TypeOK
  <1>2. supply' \in Seq(Slots)
    BY <1>1, AppendProperties DEF Commit, TypeInv, TypeOK
  <1>3. uop' \in [Slots -> Uop]
    BY <1>1, FreeUopType DEF Commit, TypeInv, TypeOK
  <1>4. links' \subseteq Link /\ IsFiniteSet(links')
    <2>1. links' \in SUBSET links
      BY DEF Commit
    <2> QED
      BY <2>1, FS_Subset DEF TypeInv, TypeOK
  <1>5. UNCHANGED <<phase, regs, rsq, lsq, fu, left, writeReady, unit, dec, mis,
                    numBranches, wbFlusher, pending, user, running, writer>>
    BY DEF Commit, queues, recovery, machine
  <1> QED
    BY <1>1, <1>2, <1>3, <1>4, <1>5 DEF TypeInv, TypeOK, DecoderConsistent, Required

\* The conditional erasures of a flush on write-back keep the types.
LEMMA FlushOnWriteBackType == TypeInv /\ FlushOnWriteBack => TypeInv'
  <1> SUFFICES ASSUME TypeInv, FlushOnWriteBack PROVE TypeInv'
    OBVIOUS
  <1> DEFINE k == Kept(wbFlusher)
             younger == SubSeq(rob, k + 1, Len(rob))
             decoded == IF uop[wbFlusher].status # "DECODING" THEN Buffered ELSE <<>>
             squashed == RangeOf(younger) \cup RangeOf(decoded)
             Keep(s) == IF s \in squashed THEN NoSlot ELSE s
  <1>1. wbFlusher \in Slots
    BY DEF FlushOnWriteBack, MayFlushOnWb, TypeInv, TypeOK
  <1>2. rob \in Seq(Slots) /\ Len(rob) \in Nat /\ DOMAIN rob = 1 .. Len(rob)
    BY LenProperties DEF TypeInv, TypeOK
  <1>3. k \in 0 .. Len(rob)
    BY <1>2 DEF Kept, PositionOf, RangeOf
  <1>4. /\ SubSeq(rob, 1, k) \in Seq(Slots)
        /\ younger \in Seq(Slots)
    BY <1>2, <1>3, SubSeqProperties
  <1>5. decoded \in Seq(Slots)
    BY BufferedType, EmptySeq
  <1> HIDE DEF k, younger, decoded
  <1>6. /\ rob' = SubSeq(rob, 1, k)
        /\ supply' = supply \o decoded \o younger
        /\ uop' = [s \in Slots |->
                     IF s \in squashed THEN FreeUop
                     ELSE IF s = wbFlusher THEN [uop[s] EXCEPT !.foresight = TRUE]
                     ELSE uop[s]]
        /\ links' \subseteq links
        /\ regs' = [r \in Regs |-> Keep(regs[r])]
        /\ rsq' = rsq \ squashed
        /\ lsq' = lsq \ squashed
        /\ fu' = [u \in 1 .. Units |-> Keep(fu[u])]
        /\ left' = [u \in 1 .. Units |-> IF fu[u] \in squashed THEN 0 ELSE left[u]]
        /\ dec' = IdleDecoder \/ dec' = dec
        /\ mis' \in BOOLEAN
    BY DEF FlushOnWriteBack, k, younger, decoded, TypeInv, TypeOK
  <1>7. rob' \in Seq(Slots) /\ supply' \in Seq(Slots)
    BY <1>4, <1>5, <1>6, ConcatProperties DEF TypeInv, TypeOK
  <1>8. uop' \in [Slots -> Uop]
    <2>1. [uop[wbFlusher] EXCEPT !.foresight = TRUE] \in Uop
      <3>1. uop[wbFlusher] \in Uop
        BY <1>1 DEF TypeInv, TypeOK
      <3> QED
        BY <3>1 DEF Uop
    <2> QED
      BY <1>6, <2>1, FreeUopType DEF TypeInv, TypeOK
  <1>9. links' \subseteq Link /\ IsFiniteSet(links')
    BY <1>6, FS_Subset DEF TypeInv, TypeOK
  <1> HIDE DEF squashed
  <1>10. /\ regs' \in [Regs -> Slots \cup {NoSlot}]
         /\ fu' \in [1 .. Units -> Slots \cup {NoSlot}]
         /\ left' \in [1 .. Units -> Nat]
         /\ rsq' \subseteq Slots /\ lsq' \subseteq Slots
    BY <1>6 DEF TypeInv, TypeOK
  <1>11. /\ dec' \in [state : {"idle", "allocate", "dispatch"},
                      tmpl : Templates \cup {NoTemplate}, buf : Seq(Slots), sent : Nat]
         /\ dec'.sent <= Len(dec'.buf)
         /\ DecoderConsistent'
    <2>1. CASE dec' = dec
      BY <2>1 DEF TypeInv, TypeOK, DecoderConsistent, Required
    <2>2. CASE dec' = IdleDecoder
      BY <2>2 DEF IdleDecoder, DecoderConsistent
    <2> QED
      BY <1>6, <2>1, <2>2
  <1>12. /\ numBranches' \in 0 .. MaxBranches
         /\ wbFlusher' \in Slots \cup {NoSlot}
         /\ unit' \in 1 .. Units + 1
         /\ phase' = "issue"
    BY SizeAssumption, UnitAssumption DEF FlushOnWriteBack
  <1>13. UNCHANGED <<writeReady, pending, user, running, writer>>
    BY DEF FlushOnWriteBack, machine
  <1> QED
    BY <1>6, <1>7, <1>8, <1>9, <1>10, <1>11, <1>12, <1>13 DEF TypeInv, TypeOK

\* Issuing a uop keeps the types.
LEMMA IssueType ==
    ASSUME TypeInv, NEW s \in Slots, IssueTo(s), writeReady' \in BOOLEAN
    PROVE  TypeInv'
  <1>1. PICK u \in 1 .. Units, c \in Latencies :
          fu' = [fu EXCEPT ![u] = s] /\ left' = [left EXCEPT ![u] = c]
    BY DEF IssueTo, FreeUnits
  <1>2. /\ fu' \in [1 .. Units -> Slots \cup {NoSlot}]
        /\ left' \in [1 .. Units -> Nat]
    BY <1>1, UnitAssumption DEF TypeInv, TypeOK
  <1>3. uop' \in [Slots -> Uop]
    BY StatusType DEF IssueTo, TypeInv, TypeOK, Statuses
  <1>4. UNCHANGED <<phase, links, regs, supply, rob, rsq, lsq, unit, dec, mis,
                    numBranches, wbFlusher, pending, user, running, writer>>
    BY DEF IssueTo, recovery, machine
  <1> QED
    BY <1>2, <1>3, <1>4 DEF TypeInv, TypeOK, DecoderConsistent, Required

\* A new instruction keeps the types.
LEMMA DecodeStartType == TypeInv /\ DecodeStart => TypeInv'
  <1> SUFFICES ASSUME TypeInv, DecodeStart PROVE TypeInv'
    OBVIOUS
  <1>1. PICK t \in Templates :
          dec' = [state |-> "allocate", tmpl |-> t, buf |-> <<>>, sent |-> 0]
    BY DEF DecodeStart
  <1>2. Len(t.types) \in Nat
    BY LenProperties, TemplateAssumption DEF IsTemplate
  <1>3. /\ dec' \in [state : {"idle", "allocate", "dispatch"},
                     tmpl : Templates \cup {NoTemplate}, buf : Seq(Slots), sent : Nat]
        /\ dec'.sent <= Len(dec'.buf)
        /\ DecoderConsistent'
    BY <1>1, <1>2 DEF DecoderConsistent, Required
  <1>4. UNCHANGED <<phase, uop, links, regs, supply, rob, rsq, lsq, fu, left,
                    writeReady, unit, mis, numBranches, wbFlusher, pending, user,
                    running, writer>>
    BY DEF DecodeStart, queues, recovery, machine
  <1> QED
    BY <1>3, <1>4 DEF TypeInv, TypeOK

\* Taking a slot from the supply keeps the types.
LEMMA AllocateType == TypeInv /\ Allocate => TypeInv'
  <1> SUFFICES ASSUME TypeInv, Allocate PROVE TypeInv'
    OBVIOUS
  <1>1. Head(supply) \in Slots /\ supply' \in Seq(Slots)
    BY HeadTailProperties DEF Allocate, TypeInv, TypeOK
  <1>2. uop' \in [Slots -> Uop]
    BY <1>1, StatusType DEF Allocate, TypeInv, TypeOK, Statuses
  <1>3. /\ dec' = [dec EXCEPT !.buf = Append(dec.buf, Head(supply))]
        /\ dec.buf \in Seq(Slots) /\ dec.sent = 0 /\ dec.state = "allocate"
        /\ Len(dec.buf) < Required /\ dec.tmpl \in Templates
    BY DEF Allocate, TypeInv, TypeOK, DecoderConsistent
  <1>4. /\ Append(dec.buf, Head(supply)) \in Seq(Slots)
        /\ Len(Append(dec.buf, Head(supply))) = Len(dec.buf) + 1
        /\ Len(dec.buf) \in Nat
    BY <1>1, <1>3, AppendProperties, LenProperties
  <1>5. Required \in Nat
    BY <1>3, LenProperties, TemplateAssumption DEF IsTemplate, Required
  <1>6. /\ dec' \in [state : {"idle", "allocate", "dispatch"},
                     tmpl : Templates \cup {NoTemplate}, buf : Seq(Slots), sent : Nat]
        /\ dec'.sent <= Len(dec'.buf)
        /\ DecoderConsistent'
    <2>1. dec \in [state : {"idle", "allocate", "dispatch"},
                    tmpl : Templates \cup {NoTemplate}, buf : Seq(Slots), sent : Nat]
      BY DEF TypeInv, TypeOK
    <2>2. /\ dec'.state = "allocate" /\ dec'.sent = 0 /\ dec'.tmpl = dec.tmpl
          /\ dec'.buf = Append(dec.buf, Head(supply))
          /\ Required' = Required
      BY <1>3, <2>1 DEF Required
    <2>3. DecoderConsistent'
      BY <1>3, <1>4, <1>5, <2>2 DEF DecoderConsistent
    <2> QED
      BY <1>3, <1>4, <2>1, <2>2, <2>3, SMTT(30)
  <1>7. UNCHANGED <<phase, links, regs, rob, rsq, lsq, fu, left, writeReady, unit,
                    mis, numBranches, wbFlusher, pending, user, running, writer>>
    BY DEF Allocate, queues, recovery, machine
  <1> QED
    BY <1>1, <1>2, <1>6, <1>7 DEF TypeInv, TypeOK

\* Dispatching a uop keeps the types.
LEMMA DispatchType == TypeInv /\ Dispatch => TypeInv'
  <1> SUFFICES ASSUME TypeInv, Dispatch PROVE TypeInv'
    OBVIOUS
  <1> DEFINE s == NextUop
  <1>1. s \in Slots
    BY NextUopType DEF Dispatch
  <1> HIDE DEF s
  <1>2. /\ numBranches' \in 0 .. MaxBranches
        /\ wbFlusher' \in Slots \cup {NoSlot}
    BY CountBranchType DEF Dispatch, s
  <1>3. uop' \in [Slots -> Uop]
    <2>1. PICK st \in Statuses : uop' = [uop EXCEPT ![s].status = st]
      BY DEF Dispatch, Statuses, s
    <2> QED
      BY <1>1, <2>1, StatusType DEF TypeInv, TypeOK
  <1>4. rob' \in Seq(Slots)
    BY <1>1, AppendProperties DEF Dispatch, TypeInv, TypeOK, s
  <1>5. rsq' \subseteq Slots /\ lsq' \subseteq Slots
    BY <1>1 DEF Dispatch, TypeInv, TypeOK, s
  <1>6. /\ dec' \in [state : {"idle", "allocate", "dispatch"},
                     tmpl : Templates \cup {NoTemplate}, buf : Seq(Slots), sent : Nat]
        /\ dec'.sent <= Len(dec'.buf)
        /\ DecoderConsistent'
    <2>1. CASE dec.sent + 1 = Required
      <3>1. dec' = IdleDecoder
        BY <2>1 DEF Dispatch
      <3> QED
        BY <3>1 DEF IdleDecoder, DecoderConsistent
    <2>2. CASE dec.sent + 1 # Required
      <3>1. dec' = [dec EXCEPT !.sent = dec.sent + 1]
        BY <2>2 DEF Dispatch
      <3>2. /\ dec.state = "dispatch" /\ dec.sent < Len(dec.buf)
            /\ Len(dec.buf) = Required /\ dec.sent \in Nat /\ Len(dec.buf) \in Nat
            /\ dec.tmpl \in Templates
        BY LenProperties DEF Dispatch, TypeInv, TypeOK, DecoderConsistent
      <3> QED
        <4>1. dec \in [state : {"idle", "allocate", "dispatch"},
                        tmpl : Templates \cup {NoTemplate}, buf : Seq(Slots), sent : Nat]
          BY DEF TypeInv, TypeOK
        <4>2. /\ dec'.state = "dispatch" /\ dec'.sent = dec.sent + 1
              /\ dec'.tmpl = dec.tmpl /\ dec'.buf = dec.buf
              /\ Required' = Required
          BY <3>1, <3>2, <4>1 DEF Required
        <4>3. DecoderConsistent'
          BY <2>2, <3>2, <4>2 DEF DecoderConsistent
        <4> QED
          BY <3>1, <3>2, <4>1, <4>2, <4>3
    <2> QED
      BY <2>1, <2>2
  <1>7. UNCHANGED <<phase, links, regs, supply, fu, left, unit, writeReady, mis,
                    pending, user, running, writer>>
    BY DEF Dispatch, machine
  <1> QED
    BY <1>2, <1>3, <1>4, <1>5, <1>6, <1>7 DEF TypeInv, TypeOK

-----------------------------------------------------------------------------
\* The operands of a uop are finitely many producers and positions.
LEMMA OperandsType ==
    ASSUME TypeInv, dec.state = "allocate", Len(dec.buf) = Required,
           NEW i, NEW rd \in SUBSET Regs
    PROVE  Operands(i, rd) \subseteq Slots \X Nat /\ IsFiniteSet(Operands(i, rd))
  <1> DEFINE t == dec.tmpl
             micro == {l[2] : l \in {m \in t.links : m[1] = i}}
             read == {r \in rd : i = t.reader /\ regs[r] # NoSlot}
             before(j) == {m \in micro : m <= j}
             beforeReg(r) == {q \in read : q <= r}
             inner == [j \in micro |-> <<dec.buf[j], Cardinality(before(j))>>]
             outer == [r \in read |->
                         <<regs[r], Cardinality(micro) + Cardinality(beforeReg(r))>>]
  <1>1. /\ Required \in Nat
        /\ micro \subseteq 1 .. Required
    BY TemplateAssumption, LenProperties
    DEF TypeInv, TypeOK, DecoderConsistent, IsTemplate, Required
  <1>2. IsFiniteSet(micro) /\ IsFiniteSet(read)
    <2>1. IsFiniteSet(1 .. Required) /\ IsFiniteSet(1 .. NumRegs)
      BY <1>1, SizeAssumption, FS_Interval
    <2>2. read \subseteq 1 .. NumRegs
      BY DEF Regs
    <2> QED
      BY <1>1, <2>1, <2>2, FS_Subset
  <1>3. \A j : Cardinality(before(j)) \in Nat
    <2> SUFFICES ASSUME NEW j PROVE Cardinality(before(j)) \in Nat
      OBVIOUS
    <2>1. before(j) \subseteq micro
      OBVIOUS
    <2> QED
      BY <1>2, <2>1, FS_Subset, FS_CardinalityType
  <1>4. \A r : Cardinality(beforeReg(r)) \in Nat
    <2> SUFFICES ASSUME NEW r PROVE Cardinality(beforeReg(r)) \in Nat
      OBVIOUS
    <2>1. beforeReg(r) \subseteq read
      OBVIOUS
    <2> QED
      BY <1>2, <2>1, FS_Subset, FS_CardinalityType
  <1>5. Cardinality(micro) \in Nat
    BY <1>2, FS_CardinalityType
  <1>6. Operands(i, rd) = {inner[j] : j \in micro} \cup {outer[r] : r \in read}
    <2> DEFINE In == {<<dec.buf[j], Cardinality(before(j))>> : j \in micro}
               Out == {<<regs[r], Cardinality(micro) + Cardinality(beforeReg(r))>>
                          : r \in read}
    <2>1. Operands(i, rd) = In \cup Out
      BY Zenon DEF Operands
    <2> HIDE DEF micro, read, before, beforeReg
    <2>2. In = {inner[j] : j \in micro}
      OBVIOUS
    <2>3. Out = {outer[r] : r \in read}
      OBVIOUS
    <2> HIDE DEF In, Out, inner, outer
    <2> QED
      BY <2>1, <2>2, <2>3
  <1>7. \A j \in micro : dec.buf[j] \in Slots
    <2>1. \A j \in 1 .. Required : dec.buf[j] \in Slots
      BY DEF TypeInv, TypeOK
    <2> HIDE DEF micro
    <2> QED
      BY <1>1, <2>1
  <1>8. \A r \in read : regs[r] \in Slots
    BY DEF TypeInv, TypeOK
  <1> HIDE DEF micro, read, before, beforeReg
  <1>9. {inner[j] : j \in micro} \subseteq Slots \X Nat
    BY <1>3, <1>7
  <1>10. {outer[r] : r \in read} \subseteq Slots \X Nat
    BY <1>4, <1>5, <1>8
  <1> HIDE DEF inner, outer
  <1>11. IsFiniteSet({inner[j] : j \in micro}) /\ IsFiniteSet({outer[r] : r \in read})
    BY <1>2, ImageIsFinite
  <1> QED
    BY <1>6, <1>9, <1>10, <1>11, FS_Union, ZenonT(60)

\* A dependence on a slot is a link.
LEMMA MakeLinkType ==
    ASSUME TypeInv, NEW d \in Slots, NEW o \in Slots \X Nat
    PROVE  MakeLink(d, o) \in Link
  <1> DEFINE same == {l \in links : l.src = o[1] /\ l.dst = d /\ l.pos = o[2]}
  <1>1. same \subseteq links
    OBVIOUS
  <1>2. Cardinality(same) \in Nat
    BY <1>1, FS_Subset, FS_CardinalityType DEF TypeInv
  <1> HIDE DEF same
  <1>3. MakeLink(d, o) = [src |-> o[1], dst |-> d, pos |-> o[2], copy |-> Cardinality(same)]
    BY DEF MakeLink, same
  <1> QED
    BY <1>2, <1>3 DEF Link

\* The links a decoded uop gets are finitely many.
LEMMA NewLinksType ==
    ASSUME TypeInv, dec.state = "allocate", Len(dec.buf) = Required,
           NEW d \in Slots, NEW i, NEW rd \in SUBSET Regs
    PROVE  LET ins == {MakeLink(d, o) : o \in Operands(i, rd)}
           IN  ins \subseteq Link /\ IsFiniteSet(ins)
  <1> DEFINE S == Operands(i, rd)
             f == [o \in S |-> MakeLink(d, o)]
  <1>1. S \subseteq Slots \X Nat /\ IsFiniteSet(S)
    BY OperandsType
  <1> HIDE DEF S
  <1>2. {MakeLink(d, o) : o \in S} = {f[o] : o \in S}
    OBVIOUS
  <1>3. {MakeLink(d, o) : o \in S} \subseteq Link
    BY <1>1, MakeLinkType
  <1> HIDE DEF f
  <1>4. IsFiniteSet({f[o] : o \in S})
    BY <1>1, ImageIsFinite
  <1> QED
    BY <1>2, <1>3, <1>4 DEF S

\* Decoding an instruction keeps the types.
LEMMA DecodeType == TypeInv /\ Decode => TypeInv'
  <1> SUFFICES ASSUME TypeInv, Decode PROVE TypeInv'
    OBVIOUS
  <1>1. PICK e \in Events, foreseen \in BOOLEAN,
             rd \in RegisterSets(dec.tmpl.reader), wr \in RegisterSets(dec.tmpl.writer) :
               DecodeInstruction(e, foreseen, rd, wr)
    BY DEF Decode
  <1>2. rd \in SUBSET Regs /\ wr \in SUBSET Regs /\ e \in EventKinds
    BY TemplateAssumption DEF RegisterSets
  <1> DEFINE b == dec.buf
             n == Required
             pstate == IF mis THEN "INVALID"
                       ELSE IF e = "none" /\ ~foreseen /\ dec.tmpl.types = <<"BRANCH">>
                       THEN "CAN_FLUSH" ELSE "VALID"
             index(s) == CHOOSE i \in 1 .. n : b[i] = s
             ins(i) == {MakeLink(b[i], o) : o \in Operands(i, rd)}
             needs(i) == IF mis THEN {} ELSE TrueProducers(i, rd)
             decoded(i) ==
                 [type |-> dec.tmpl.types[i], status |-> uop[b[i]].status,
                  depN |-> Cardinality(ins(i)), resolved |-> uop[b[i]].resolved,
                  ins |-> ins(i), pstate |-> pstate,
                  foresight |-> i < n \/ foreseen,
                  event |-> IF i = 1 THEN e ELSE "none",
                  needs |-> needs(i)]
  <1>3. /\ uop' = [s \in Slots |-> IF s \in RangeOf(b) THEN decoded(index(s))
                                   ELSE uop[s]]
        /\ links' = links \cup UNION {ins(i) : i \in 1 .. n}
        /\ regs' = [r \in Regs |-> IF r \in wr THEN b[dec.tmpl.writer] ELSE regs[r]]
        /\ writer' = [r \in Regs |-> IF r \in wr /\ ~mis THEN b[dec.tmpl.writer]
                                     ELSE writer[r]]
        /\ mis' = (mis \/ DisablesExec(e, foreseen))
        /\ user' = (user \/ (e = "flush" /\ ~mis))
    BY <1>1 DEF DecodeInstruction
  <1>4. /\ dec.state = "allocate" /\ Len(b) = n /\ n \in Nat /\ n > 0
        /\ dec.tmpl \in Templates /\ dec.sent = 0
        /\ b \in Seq(Slots)
        /\ dec.tmpl.types \in Seq(UopTypes)
        /\ dec.tmpl.links \subseteq (1 .. n) \X (1 .. n)
        /\ dec.tmpl.writer \in 0 .. n
    BY TemplateAssumption, LenProperties
    DEF Decode, TypeInv, TypeOK, DecoderConsistent, IsTemplate, Required
  <1>5. \A i \in 1 .. n : b[i] \in Slots /\ dec.tmpl.types[i] \in UopTypes
    BY <1>4 DEF Required
  <1>6. \A i \in 1 .. n : ins(i) \subseteq Link /\ IsFiniteSet(ins(i))
    BY <1>2, <1>4, <1>5, NewLinksType
  <1>7. \A i \in 1 .. n : needs(i) \subseteq Slots
    <2> SUFFICES ASSUME NEW i \in 1 .. n PROVE TrueProducers(i, rd) \subseteq Slots
      OBVIOUS
    <2>1. \A l \in dec.tmpl.links : b[l[2]] \in Slots
      BY <1>4, <1>5
    <2>2. \A r \in rd : writer[r] \in Slots \cup {NoSlot}
      BY <1>2 DEF TypeInv, TypeOK
    <2> QED
      BY <2>1, <2>2 DEF TrueProducers
  <1>8. \A i \in 1 .. n : Cardinality(ins(i)) \in Nat
    BY <1>6, FS_CardinalityType
  <1>9. \A i \in 1 .. n : uop[b[i]] \in Uop
    BY <1>5 DEF TypeInv, TypeOK
  <1>10. pstate \in PipelineStates
    BY DEF PipelineStates
  <1> HIDE DEF ins, needs, pstate
  <1>11. \A i \in 1 .. n : decoded(i) \in Uop
    <2> SUFFICES ASSUME NEW i \in 1 .. n PROVE decoded(i) \in Uop
      OBVIOUS
    <2>1. /\ (i < n \/ foreseen) \in BOOLEAN
          /\ (IF i = 1 THEN e ELSE "none") \in EventKinds
      BY <1>2 DEF EventKinds
    <2>2. uop[b[i]].status \in Statuses /\ uop[b[i]].resolved \in Nat
      BY <1>9 DEF Uop
    <2> QED
      BY <1>5, <1>6, <1>7, <1>8, <1>10, <2>1, <2>2 DEF Uop
  <1> HIDE DEF decoded
  <1>12. uop' \in [Slots -> Uop]
    <2>1. \A s \in RangeOf(b) : index(s) \in 1 .. n
      <3> SUFFICES ASSUME NEW s \in RangeOf(b) PROVE index(s) \in 1 .. n
        OBVIOUS
      <3>1. \E i \in 1 .. n : b[i] = s
        BY <1>4, RangeOfSequence
      <3> QED
        BY <3>1
    <2> HIDE DEF index
    <2> QED
      BY <1>3, <1>11, <2>1 DEF TypeInv, TypeOK
  <1>13. links' \subseteq Link
    BY <1>3, <1>6 DEF TypeInv, TypeOK
  <1>14. IsFiniteSet(links')
    <2> DEFINE g == [i \in 1 .. n |-> ins(i)]
               all == {g[i] : i \in 1 .. n}
    <2>1. IsFiniteSet(1 .. n)
      BY <1>4, FS_Interval
    <2>2. IsFiniteSet(all)
      BY <2>1, ImageIsFinite
    <2>3. all = {ins(i) : i \in 1 .. n}
      OBVIOUS
    <2>4. \A T \in all : IsFiniteSet(T)
      BY <1>6, <2>3
    <2> HIDE DEF all
    <2>5. IsFiniteSet(UNION all)
      BY <2>2, <2>4, FS_UNION
    <2> QED
      BY <1>3, <2>3, <2>5, FS_Union DEF TypeInv
  <1>15. wr # {} => b[dec.tmpl.writer] \in Slots
    <2>1. wr # {} => dec.tmpl.writer \in 1 .. n
      BY <1>4 DEF RegisterSets
    <2> QED
      BY <1>5, <2>1
  <1>16. /\ regs' \in [Regs -> Slots \cup {NoSlot}]
         /\ writer' \in [Regs -> Slots \cup {NoSlot}]
    BY <1>3, <1>15 DEF TypeInv, TypeOK
  <1>17. mis' \in BOOLEAN /\ user' \in BOOLEAN
    <2>1. mis' \in BOOLEAN
      BY <1>3
    <2>2. user' \in BOOLEAN
      BY <1>3
    <2> QED
      BY <2>1, <2>2
  <1>18. /\ dec' \in [state : {"idle", "allocate", "dispatch"},
                      tmpl : Templates \cup {NoTemplate}, buf : Seq(Slots), sent : Nat]
         /\ dec'.sent <= Len(dec'.buf)
         /\ DecoderConsistent'
    <2>1. dec \in [state : {"idle", "allocate", "dispatch"},
                   tmpl : Templates \cup {NoTemplate}, buf : Seq(Slots), sent : Nat]
      BY DEF TypeInv, TypeOK
    <2>2. /\ dec'.state = "dispatch" /\ dec'.sent = 0 /\ dec'.tmpl = dec.tmpl
          /\ dec'.buf = b /\ Required' = Required
          /\ dec' = [dec EXCEPT !.state = "dispatch"]
      BY <1>4, <2>1 DEF Decode, Required
    <2>3. DecoderConsistent'
      BY <1>4, <2>2 DEF DecoderConsistent
    <2> QED
      BY <1>4, <2>1, <2>2, <2>3
  <1>19. UNCHANGED <<phase, supply, rob, rsq, lsq, fu, left, writeReady, unit,
                     numBranches, wbFlusher, pending, running>>
    BY DEF Decode, queues
  <1> QED
    BY <1>12, <1>13, <1>14, <1>16, <1>17, <1>18, <1>19 DEF TypeInv, TypeOK

\* Every step keeps the types.
LEMMA TypeNext == TypeInv /\ [Next]_vars => TypeInv'
  <1> SUFFICES ASSUME TypeInv, [Next]_vars PROVE TypeInv'
    OBVIOUS
  <1> USE DEF queues, recovery, machine
  <1>1. CASE TakeInterrupt
    BY <1>1, FlushType DEF TakeInterrupt, TypeInv, TypeOK
  <1>2. CASE NoInterrupt
    BY <1>2 DEF NoInterrupt, TypeInv, TypeOK, DecoderConsistent, Required
  <1>3. CASE Commit
    BY <1>3, CommitType
  <1>4. CASE CommitFlushing
    BY <1>4, FlushType DEF CommitFlushing, TypeInv, TypeOK
  <1>5. CASE CommitStops
    BY <1>5 DEF CommitStops, ArmsStore, HeadIs, TypeInv, TypeOK, DecoderConsistent, Required
  <1>6. CASE UnitIdle
    BY <1>6, UnitAssumption DEF UnitIdle, NextUnit, TypeInv, TypeOK, DecoderConsistent, Required
  <1>7. CASE UnitExecutes
    <2>1. unit \in 1 .. Units /\ left[unit] \in Nat /\ left[unit] # 0
      BY <1>7, UnitAssumption DEF UnitExecutes, TimeOver, TypeInv, TypeOK
    <2>2. left' \in [1 .. Units -> Nat] /\ unit' \in 1 .. Units + 1
      BY <1>7, <2>1, UnitAssumption DEF UnitExecutes, NextUnit, TypeInv, TypeOK
    <2> QED
      BY <1>7, <2>2 DEF UnitExecutes, TypeInv, TypeOK, DecoderConsistent, Required
  <1>8. CASE WriteBack
    BY <1>8, WriteBackType
  <1>9. CASE ExecDone
    BY <1>9, UnitAssumption DEF ExecDone, TypeInv, TypeOK, DecoderConsistent, Required
  <1>10. CASE FlushOnWriteBack
    BY <1>10, FlushOnWriteBackType
  <1>11. CASE IssueRs
    <2>1. PICK s \in RsCandidates : IssueTo(s)
      BY <1>11 DEF IssueRs
    <2>2. s \in Slots
      BY <2>1 DEF RsCandidates, TypeInv, TypeOK
    <2> QED
      BY <1>11, <2>1, <2>2, IssueType DEF IssueRs, TypeInv, TypeOK
  <1>12. CASE IssueLs
    <2>1. PICK s \in LsCandidates : IssueTo(s)
      BY <1>12 DEF IssueLs
    <2>2. s \in Slots
      BY <2>1 DEF LsCandidates, TypeInv, TypeOK
    <2> QED
      BY <1>12, <2>1, <2>2, IssueType DEF IssueLs, TypeInv, TypeOK
  <1>13. CASE IssueDone
    BY <1>13 DEF IssueDone, TypeInv, TypeOK, DecoderConsistent, Required
  <1>14. CASE DecodeStart
    BY <1>14, DecodeStartType
  <1>15. CASE DecodeStops
    BY <1>15 DEF DecodeStops, TypeInv, TypeOK, DecoderConsistent, Required
  <1>16. CASE Allocate
    BY <1>16, AllocateType
  <1>17. CASE AllocateStops
    BY <1>17 DEF AllocateStops, TypeInv, TypeOK, DecoderConsistent, Required
  <1>18. CASE Decode
    BY <1>18, DecodeType
  <1>19. CASE Dispatch
    BY <1>19, DispatchType
  <1>20. CASE DispatchStops
    <2>1. numBranches' \in 0 .. MaxBranches /\ wbFlusher' \in Slots \cup {NoSlot}
      BY <1>20, CountBranchType DEF DispatchStops
    <2> QED
      BY <1>20, <2>1 DEF DispatchStops, TypeInv, TypeOK, DecoderConsistent, Required
  <1>21. CASE DeviceInterrupt
    BY <1>21, TemplateAssumption DEF DeviceInterrupt, TypeInv, TypeOK, DecoderConsistent, Required
  <1>22. CASE DevicesQuiet
    BY <1>22 DEF DevicesQuiet, TypeInv, TypeOK, DecoderConsistent, Required
  <1>23. CASE UNCHANGED vars
    BY <1>23 DEF vars, TypeInv, TypeOK, DecoderConsistent, Required
  <1> QED
    BY <1>1, <1>2, <1>3, <1>4, <1>5, <1>6, <1>7, <1>8, <1>9, <1>10, <1>11, <1>12,
       <1>13, <1>14, <1>15, <1>16, <1>17, <1>18, <1>19, <1>20, <1>21, <1>22, <1>23
    DEF Next, CommitPhase, ExecPhase, IssuePhase, DecodePhase

\* Type correctness: whatever the guest program, the devices and the predictors
\* do, every structure of the pipeline holds slots, and its counters are numbers.
THEOREM TypeCorrect == Spec => []TypeOK
  <1>1. TypeInv => TypeOK
    BY DEF TypeInv
  <1> QED
    BY <1>1, TypeInit, TypeNext, PTL DEF Spec

-----------------------------------------------------------------------------
(***************************************************************************)
(* Conservation of slots.                                                  *)
(***************************************************************************)
LEMMA RangeConcat ==
    ASSUME NEW S, NEW a \in Seq(S), NEW b \in Seq(S)
    PROVE  /\ RangeOf(a \o b) = RangeOf(a) \cup RangeOf(b)
           /\ Len(a \o b) = Len(a) + Len(b)
           /\ a \o b \in Seq(S)
  <1> DEFINE c == a \o b
             m == Len(a)
             n == Len(b)
  <1>1. /\ c \in Seq(S)
        /\ Len(c) = m + n
        /\ \A i \in 1 .. m + n : c[i] = IF i <= m THEN a[i] ELSE b[i - m]
    BY ConcatProperties
  <1>2. m \in Nat /\ n \in Nat
    BY LenProperties
  <1> HIDE DEF c
  <1>3. /\ RangeOf(a) = {a[i] : i \in 1 .. m}
        /\ RangeOf(b) = {b[i] : i \in 1 .. n}
        /\ RangeOf(c) = {c[i] : i \in 1 .. m + n}
    BY <1>1, RangeOfSequence
  <1> HIDE DEF m, n
  <1>4. \A i \in 1 .. m + n : \/ i \in 1 .. m /\ c[i] = a[i]
                              \/ i - m \in 1 .. n /\ c[i] = b[i - m]
    BY <1>1, <1>2
  <1>5. \A i \in 1 .. m : i \in 1 .. m + n /\ c[i] = a[i]
    BY <1>1, <1>2
  <1>6. \A i \in 1 .. n : i + m \in 1 .. m + n /\ c[i + m] = b[i]
    <2> SUFFICES ASSUME NEW i \in 1 .. n
                 PROVE  i + m \in 1 .. m + n /\ c[i + m] = b[i]
      OBVIOUS
    <2>1. i + m \in 1 .. m + n /\ ~(i + m <= m) /\ (i + m) - m = i
      BY <1>2
    <2> QED
      BY <1>1, <2>1
  <1>7. RangeOf(c) = RangeOf(a) \cup RangeOf(b)
    BY <1>3, <1>4, <1>5, <1>6
  <1> QED
    BY <1>1, <1>7 DEF c, m, n

\* A sequence loses its head.
LEMMA RangeHeadTail ==
    ASSUME NEW S, NEW q \in Seq(S), q # <<>>
    PROVE  /\ RangeOf(q) = {Head(q)} \cup RangeOf(Tail(q))
           /\ Len(Tail(q)) = Len(q) - 1
           /\ Tail(q) \in Seq(S) /\ Head(q) \in S
  <1>1. /\ Tail(q) \in Seq(S) /\ Head(q) \in S /\ Head(q) = q[1]
        /\ Len(q) \in Nat /\ Len(q) > 0
        /\ Len(Tail(q)) = Len(q) - 1
        /\ \A i \in 1 .. Len(q) - 1 : Tail(q)[i] = q[i + 1]
    BY HeadTailProperties, LenProperties, EmptySeq
  <1>2. RangeOf(q) = {q[i] : i \in 1 .. Len(q)}
    BY RangeOfSequence
  <1>3. RangeOf(Tail(q)) = {Tail(q)[i] : i \in 1 .. Len(q) - 1}
    BY <1>1, RangeOfSequence
  <1>4. \A i \in 1 .. Len(q) : i # 1 => i - 1 \in 1 .. Len(q) - 1 /\ q[i] = Tail(q)[i - 1]
    BY <1>1
  <1>5. \A i \in 1 .. Len(q) - 1 : i + 1 \in 1 .. Len(q) /\ Tail(q)[i] = q[i + 1]
    BY <1>1
  <1>6. RangeOf(q) \subseteq {Head(q)} \cup RangeOf(Tail(q))
    BY <1>1, <1>2, <1>3, <1>4, ZenonT(60)
  <1>7. RangeOf(Tail(q)) \subseteq RangeOf(q) /\ Head(q) \in RangeOf(q)
    BY <1>1, <1>2, <1>3, <1>5
  <1> QED
    BY <1>1, <1>6, <1>7

\* A sequence gains an element at its end.
LEMMA RangeAppend ==
    ASSUME NEW S, NEW q \in Seq(S), NEW e \in S
    PROVE  /\ RangeOf(Append(q, e)) = RangeOf(q) \cup {e}
           /\ Len(Append(q, e)) = Len(q) + 1
           /\ Append(q, e) \in Seq(S)
  <1>1. /\ Append(q, e) \in Seq(S)
        /\ Len(Append(q, e)) = Len(q) + 1
        /\ \A i \in 1 .. Len(q) : Append(q, e)[i] = q[i]
        /\ Append(q, e)[Len(q) + 1] = e
        /\ Len(q) \in Nat
    BY AppendProperties, LenProperties
  <1>2. \A i \in 1 .. Len(q) + 1 : i \in 1 .. Len(q) \/ i = Len(q) + 1
    BY <1>1
  <1>3. /\ RangeOf(q) = {q[i] : i \in 1 .. Len(q)}
        /\ RangeOf(Append(q, e)) = {Append(q, e)[i] : i \in 1 .. Len(q) + 1}
    BY <1>1, RangeOfSequence
  <1>4. RangeOf(Append(q, e)) \subseteq RangeOf(q) \cup {e}
    BY <1>1, <1>2, <1>3
  <1>5. \A i \in 1 .. Len(q) : i \in 1 .. Len(q) + 1
    BY <1>1
  <1>6. Len(q) + 1 \in 1 .. Len(q) + 1
    BY <1>1
  <1>7. RangeOf(q) \subseteq RangeOf(Append(q, e)) /\ e \in RangeOf(Append(q, e))
    BY <1>1, <1>3, <1>5, <1>6
  <1> QED
    BY <1>1, <1>4, <1>7

\* A sequence cut in two.
LEMMA RangeSplit ==
    ASSUME NEW S, NEW q \in Seq(S), NEW k \in 0 .. Len(q)
    PROVE  LET front == SubSeq(q, 1, k)
               rear == SubSeq(q, k + 1, Len(q))
           IN  /\ RangeOf(q) = RangeOf(front) \cup RangeOf(rear)
               /\ Len(front) = k /\ Len(rear) = Len(q) - k
               /\ front \in Seq(S) /\ rear \in Seq(S)
  <1> DEFINE front == SubSeq(q, 1, k)
             rear == SubSeq(q, k + 1, Len(q))
  <1>1. Len(q) \in Nat /\ \A i \in 1 .. Len(q) : q[i] \in S
    BY LenProperties, ElementOfSeq
  <1>2. /\ front \in Seq(S) /\ Len(front) = k
        /\ \A i \in 1 .. k : front[i] = q[i]
    BY <1>1, SubSeqProperties
  <1>3. /\ rear \in Seq(S) /\ Len(rear) = Len(q) - k
        /\ \A i \in 1 .. Len(q) - k : rear[i] = q[k + i]
    BY <1>1, SubSeqProperties
  <1> HIDE DEF front, rear
  <1>4. /\ RangeOf(q) = {q[i] : i \in 1 .. Len(q)}
        /\ RangeOf(front) = {front[i] : i \in 1 .. k}
        /\ RangeOf(rear) = {rear[i] : i \in 1 .. Len(q) - k}
    BY <1>2, <1>3, RangeOfSequence
  <1>5. \A i \in 1 .. Len(q) :
          \/ i \in 1 .. k
          \/ i - k \in 1 .. Len(q) - k /\ k + (i - k) = i
    BY <1>1
  <1>6. RangeOf(q) \subseteq RangeOf(front) \cup RangeOf(rear)
    <2> SUFFICES ASSUME NEW i \in 1 .. Len(q)
                 PROVE  q[i] \in RangeOf(front) \cup RangeOf(rear)
      BY <1>4
    <2>1. CASE i \in 1 .. k
      BY <1>2, <1>4, <2>1
    <2>2. CASE i - k \in 1 .. Len(q) - k /\ k + (i - k) = i
      <3>1. rear[i - k] = q[i]
        BY <1>3, <2>2
      <3> QED
        BY <1>4, <2>2, <3>1
    <2> QED
      BY <1>5, <2>1, <2>2
  <1>7. RangeOf(front) \subseteq RangeOf(q)
    BY <1>1, <1>2, <1>4
  <1>8. \A i \in 1 .. Len(q) - k : k + i \in 1 .. Len(q)
    BY <1>1
  <1>9. RangeOf(rear) \subseteq RangeOf(q)
    BY <1>3, <1>4, <1>8
  <1> QED
    BY <1>2, <1>3, <1>6, <1>7, <1>9 DEF front, rear

\* The slots the decoder holds and has not dispatched.
Held == {dec.buf[j] : j \in dec.sent + 1 .. Len(dec.buf)}

\* SlotConservation in terms of the three places a slot can be in.
ConsInv ==
    /\ Len(supply) + Len(rob) + (Len(dec.buf) - dec.sent) = Cardinality(Slots)
    /\ RangeOf(supply) \cup RangeOf(rob) \cup Held = Slots

\* The reversed copy of get_buffered_rs has the slots the decoder holds.
LEMMA BufferedRange ==
    ASSUME TypeInv
    PROVE  RangeOf(Buffered) = Held
  <1> DEFINE n == Len(dec.buf)
             k == dec.sent
             B == Buffered
  <1>1. n \in Nat /\ k \in Nat /\ k <= n
    BY LenProperties DEF TypeInv, TypeOK
  <1>2. \A i \in 1 .. n - k : B[i] = dec.buf[n + 1 - i]
    BY DEF Buffered
  <1>3. B \in Seq(Slots) /\ Len(B) = n - k
    BY BufferedType
  <1> HIDE DEF B, n, k
  <1>4. RangeOf(B) = {B[i] : i \in 1 .. n - k}
    BY <1>3, RangeOfSequence
  <1>5. Held = {dec.buf[j] : j \in k + 1 .. n}
    BY DEF Held, k, n
  <1>6. \A i \in 1 .. n - k : n + 1 - i \in k + 1 .. n
    BY <1>1
  <1>7. \A j \in k + 1 .. n : n + 1 - j \in 1 .. n - k /\ n + 1 - (n + 1 - j) = j
    BY <1>1
  <1>8. RangeOf(B) \subseteq Held
    BY <1>2, <1>4, <1>5, <1>6
  <1>9. Held \subseteq RangeOf(B)
    <2> SUFFICES ASSUME NEW j \in k + 1 .. n PROVE dec.buf[j] \in RangeOf(B)
      BY <1>5
    <2>1. B[n + 1 - j] = dec.buf[j]
      BY <1>2, <1>7
    <2> QED
      BY <1>4, <1>7, <2>1
  <1> QED
    BY <1>8, <1>9 DEF B

\* The three places add up to all slots.
LEMMA ConsImplies == TypeInv /\ ConsInv => SlotConservation
  <1> SUFFICES ASSUME TypeInv, ConsInv PROVE SlotConservation
    OBVIOUS
  <1> DEFINE rest == SubSeq(dec.buf, dec.sent + 1, Len(dec.buf))
  <1>1. /\ rob \in Seq(Slots) /\ dec.buf \in Seq(Slots)
        /\ supply \in Seq(Slots) /\ dec.sent \in 0 .. Len(dec.buf)
        /\ Len(rob) \in Nat /\ Len(supply) \in Nat /\ Len(dec.buf) \in Nat
    BY LenProperties DEF TypeInv, TypeOK
  <1>2. rest \in Seq(Slots) /\ Len(rest) = Len(dec.buf) - dec.sent
    BY <1>1, RangeSplit
  <1>3. Len(ProgramOrder) = Len(rob) + (Len(dec.buf) - dec.sent)
    BY <1>1, <1>2, RangeConcat DEF ProgramOrder
  <1>4. Len(supply) + Len(ProgramOrder) = Cardinality(Slots)
    BY <1>1, <1>3 DEF ConsInv
  <1>5. RangeOf(supply) \cup InFlight = Slots
    BY BufferedRange DEF ConsInv, InFlight
  <1> QED
    BY <1>4, <1>5 DEF SlotConservation

\* A decoder without an instruction holds no slot.
LEMMA EmptyHeld ==
    /\ RangeOf(<<>>) = {} /\ Len(<<>>) = 0
    /\ dec = IdleDecoder => Held = {} /\ Len(dec.buf) = 0 /\ dec.sent = 0
  <1>1. RangeOf(<<>>) = {} /\ Len(<<>>) = 0
    BY DEF RangeOf
  <1>2. dec = IdleDecoder => Len(dec.buf) = 0 /\ dec.sent = 0
    BY DEF IdleDecoder
  <1>3. dec = IdleDecoder => Held = {}
    BY <1>2 DEF Held
  <1> QED
    BY <1>1, <1>2, <1>3

\* Initially every slot is in the supply.
LEMMA ConsInit == Init => ConsInv
  <1> SUFFICES ASSUME Init PROVE ConsInv
    OBVIOUS
  <1>1. Cardinality(Slots) \in Nat
    BY SlotAssumption, FS_CardinalityType
  <1>2. supply \in [1 .. Cardinality(Slots) -> Slots] /\ RangeOf(supply) = Slots
    BY DEF Init
  <1>3. Len(supply) = Cardinality(Slots)
    BY <1>1, <1>2, FunctionIsSequence
  <1>4. rob = <<>> /\ dec = IdleDecoder
    BY DEF Init
  <1> QED
    BY <1>1, <1>2, <1>3, <1>4, EmptyHeld DEF ConsInv

\* A flush moves every slot to the supply.
LEMMA ConsFlush ==
    ASSUME TypeInv, ConsInv, FlushPipeline
    PROVE  ConsInv'
  <1>1. /\ rob \in Seq(Slots) /\ supply \in Seq(Slots) /\ Buffered \in Seq(Slots)
        /\ Len(Buffered) = Len(dec.buf) - dec.sent
        /\ Len(rob) \in Nat /\ Len(supply) \in Nat /\ Len(dec.buf) - dec.sent \in Nat
    BY BufferedType, LenProperties DEF TypeInv, TypeOK
  <1> DEFINE front == supply \o Buffered
  <1>2. /\ RangeOf(front) = RangeOf(supply) \cup Held
        /\ Len(front) = Len(supply) + (Len(dec.buf) - dec.sent)
        /\ front \in Seq(Slots)
    BY <1>1, RangeConcat, BufferedRange
  <1>3. /\ RangeOf(supply') = RangeOf(supply) \cup Held \cup RangeOf(rob)
        /\ Len(supply') = Len(supply) + (Len(dec.buf) - dec.sent) + Len(rob)
    <2>1. supply' = front \o rob
      BY DEF FlushPipeline
    <2> HIDE DEF front
    <2>2. RangeOf(front \o rob) = RangeOf(front) \cup RangeOf(rob)
          /\ Len(front \o rob) = Len(front) + Len(rob)
      BY <1>1, <1>2, RangeConcat, SMTT(30)
    <2> QED
      BY <1>2, <2>1, <2>2
  <1>4. rob' = <<>> /\ dec' = IdleDecoder
    BY DEF FlushPipeline
  <1>5. /\ RangeOf(rob') = {} /\ Len(rob') = 0
        /\ Held' = {} /\ Len(dec'.buf) = 0 /\ dec'.sent = 0
    BY <1>4, EmptyHeld DEF Held, IdleDecoder
  <1> QED
    BY <1>1, <1>3, <1>5 DEF ConsInv

\* Commit moves the head of the reorder buffer to the supply.
LEMMA ConsCommit ==
    ASSUME TypeInv, ConsInv, Commit
    PROVE  ConsInv'
  <1>1. /\ rob \in Seq(Slots) /\ supply \in Seq(Slots) /\ rob # <<>>
        /\ Len(rob) \in Nat /\ Len(supply) \in Nat
        /\ Len(dec.buf) \in Nat /\ dec.sent \in Nat
    BY LenProperties DEF Commit, HeadIs, TypeInv, TypeOK
  <1>2. rob' = Tail(rob) /\ supply' = Append(supply, Head(rob)) /\ dec' = dec
    BY DEF Commit
  <1>3. /\ RangeOf(rob) = {Head(rob)} \cup RangeOf(rob')
        /\ Len(rob') = Len(rob) - 1
        /\ Head(rob) \in Slots
    BY <1>1, <1>2, RangeHeadTail
  <1>4. /\ RangeOf(supply') = RangeOf(supply) \cup {Head(rob)}
        /\ Len(supply') = Len(supply) + 1
    BY <1>1, <1>2, <1>3, RangeAppend
  <1>5. Held' = Held /\ Len(dec'.buf) = Len(dec.buf) /\ dec'.sent = dec.sent
    BY <1>2 DEF Held
  <1> QED
    BY <1>1, <1>3, <1>4, <1>5 DEF ConsInv

\* A flush on write-back moves all but the branch and what is older to the supply.
LEMMA ConsFlushOnWriteBack ==
    ASSUME TypeInv, ConsInv, FlushOnWriteBack
    PROVE  ConsInv'
  <1> DEFINE k == Kept(wbFlusher)
             older == SubSeq(rob, 1, k)
             younger == SubSeq(rob, k + 1, Len(rob))
             dispatched == uop[wbFlusher].status # "DECODING"
             decoded == IF dispatched THEN Buffered ELSE <<>>
  <1>1. /\ rob \in Seq(Slots) /\ supply \in Seq(Slots) /\ Buffered \in Seq(Slots)
        /\ Len(Buffered) = Len(dec.buf) - dec.sent
        /\ Len(rob) \in Nat /\ Len(supply) \in Nat /\ Len(dec.buf) - dec.sent \in Nat
    BY BufferedType, LenProperties DEF TypeInv, TypeOK
  <1>2. k \in 0 .. Len(rob)
    <2>1. wbFlusher \in RangeOf(rob) => PositionOf(wbFlusher) \in 1 .. Len(rob)
      BY <1>1 DEF PositionOf, RangeOf
    <2> QED
      BY <1>1, <2>1 DEF Kept
  <1>3. /\ rob' = older
        /\ supply' = supply \o decoded \o younger
        /\ dec' = IF dispatched THEN IdleDecoder ELSE dec
    BY DEF FlushOnWriteBack
  <1> HIDE DEF k
  <1>4. /\ RangeOf(rob) = RangeOf(older) \cup RangeOf(younger)
        /\ Len(older) = k /\ Len(younger) = Len(rob) - k
        /\ younger \in Seq(Slots)
    BY <1>1, <1>2, RangeSplit
  <1> HIDE DEF older, younger, dispatched
  <1>5. /\ decoded \in Seq(Slots)
        /\ RangeOf(decoded) \cup Held' = Held
        /\ Len(decoded) + (Len(dec'.buf) - dec'.sent) = Len(dec.buf) - dec.sent
        /\ Len(decoded) \in Nat /\ Len(dec'.buf) - dec'.sent \in Nat
    <2>1. CASE dispatched
      <3>1. decoded = Buffered /\ dec' = IdleDecoder
        BY <1>3, <2>1
      <3>2. Held' = {} /\ Len(dec'.buf) = 0 /\ dec'.sent = 0
        BY <3>1 DEF Held, IdleDecoder
      <3> QED
        BY <1>1, <3>1, <3>2, BufferedRange
    <2>2. CASE ~dispatched
      <3>1. decoded = <<>> /\ dec' = dec
        BY <1>3, <2>2
      <3>2. Held' = Held
        BY <3>1 DEF Held
      <3> QED
        BY <1>1, <3>1, <3>2, EmptyHeld
    <2> QED
      BY <2>1, <2>2
  <1> HIDE DEF decoded
  <1> DEFINE front == supply \o decoded
  <1>6. /\ front \in Seq(Slots)
        /\ RangeOf(front) = RangeOf(supply) \cup RangeOf(decoded)
        /\ Len(front) = Len(supply) + Len(decoded)
    BY <1>1, <1>5, RangeConcat
  <1>7. /\ RangeOf(supply') = RangeOf(supply) \cup RangeOf(decoded) \cup RangeOf(younger)
        /\ Len(supply') = Len(supply) + Len(decoded) + Len(younger)
    <2>1. supply' = front \o younger
      BY <1>3
    <2> HIDE DEF front
    <2>2. /\ RangeOf(front \o younger) = RangeOf(front) \cup RangeOf(younger)
          /\ Len(front \o younger) = Len(front) + Len(younger)
      BY <1>4, <1>6, RangeConcat
    <2> QED
      BY <1>6, <2>1, <2>2
  <1>8. RangeOf(supply') \cup RangeOf(rob') \cup Held' = Slots
    BY <1>3, <1>4, <1>5, <1>7 DEF ConsInv
  <1>9. Len(supply') + Len(rob') + (Len(dec'.buf) - dec'.sent) = Cardinality(Slots)
    BY <1>1, <1>2, <1>3, <1>4, <1>5, <1>7 DEF ConsInv
  <1> QED
    BY <1>8, <1>9 DEF ConsInv

\* Allocation moves a slot from the supply to the decoder.
LEMMA ConsAllocate ==
    ASSUME TypeInv, ConsInv, Allocate
    PROVE  ConsInv'
  <1> DEFINE h == Head(supply)
  <1>1. /\ supply \in Seq(Slots) /\ supply # <<>> /\ dec.buf \in Seq(Slots)
        /\ Len(supply) \in Nat /\ Len(dec.buf) \in Nat /\ Len(rob) \in Nat
        /\ dec.sent = 0 /\ dec.state = "allocate"
    BY LenProperties DEF Allocate, TypeInv, TypeOK, DecoderConsistent
  <1>2. /\ supply' = Tail(supply) /\ rob' = rob
        /\ dec'.buf = Append(dec.buf, h) /\ dec'.sent = 0
    BY <1>1 DEF Allocate, TypeInv, TypeOK
  <1>3. /\ RangeOf(supply) = {h} \cup RangeOf(supply')
        /\ Len(supply') = Len(supply) - 1
        /\ h \in Slots
    BY <1>1, <1>2, RangeHeadTail
  <1> HIDE DEF h
  <1>4. /\ RangeOf(dec'.buf) = RangeOf(dec.buf) \cup {h}
        /\ Len(dec'.buf) = Len(dec.buf) + 1
        /\ dec'.buf \in Seq(Slots)
    BY <1>1, <1>2, <1>3, RangeAppend
  <1>5. Held = RangeOf(dec.buf)
    BY <1>1, RangeOfSequence DEF Held
  <1>6. Held' = RangeOf(dec'.buf)
    <2>1. Held' = {dec'.buf[j] : j \in 1 .. Len(dec'.buf)}
      BY <1>2 DEF Held
    <2> QED
      BY <1>4, <2>1, RangeOfSequence
  <1>7. RangeOf(supply') \cup RangeOf(rob') \cup Held' = Slots
    BY <1>2, <1>3, <1>4, <1>5, <1>6 DEF ConsInv
  <1>8. Len(supply') + Len(rob') + (Len(dec'.buf) - dec'.sent) = Cardinality(Slots)
    <2>1. Len(supply) + Len(rob) + (Len(dec.buf) - 0) = Cardinality(Slots)
      BY <1>1 DEF ConsInv
    <2>2. Len(rob') = Len(rob)
      BY <1>2
    <2>3. Len(dec'.buf) = Len(dec.buf) + 1 /\ dec'.sent = 0
      BY <1>2, <1>4, Zenon
    <2>4. Len(supply) \in Nat /\ Len(rob) \in Nat /\ Len(dec.buf) \in Nat
      BY <1>1
    <2>5. Len(supply') = Len(supply) - 1
      BY <1>3
    <2>6. Len(supply') + Len(rob') + (Len(dec'.buf) - dec'.sent)
            = (Len(supply) - 1) + Len(rob) + ((Len(dec.buf) + 1) - 0)
      BY <2>2, <2>3, <2>5, Zenon
    <2>7. (Len(supply) - 1) + Len(rob) + ((Len(dec.buf) + 1) - 0) = Cardinality(Slots)
      <3>1. \A a, b, c \in Nat : (a - 1) + b + ((c + 1) - 0) = a + b + (c - 0)
        OBVIOUS
      <3> QED
        BY <2>1, <2>4, <3>1, Zenon
    <2> QED
      BY <2>6, <2>7, Zenon
  <1> QED
    BY <1>7, <1>8 DEF ConsInv

\* Dispatch moves a slot from the decoder to the reorder buffer.
LEMMA ConsDispatch ==
    ASSUME TypeInv, ConsInv, Dispatch
    PROVE  ConsInv'
  <1> DEFINE s == NextUop
             n == Len(dec.buf)
             k == dec.sent
  <1>1. /\ rob \in Seq(Slots) /\ dec.buf \in Seq(Slots)
        /\ Len(supply) \in Nat /\ Len(rob) \in Nat /\ n \in Nat /\ k \in Nat
        /\ dec.state = "dispatch" /\ k < n /\ n = Required
    BY LenProperties DEF Dispatch, TypeInv, TypeOK, DecoderConsistent
  <1>2. s = dec.buf[k + 1] /\ s \in Slots
    BY NextUopType, <1>1 DEF NextUop
  <1>3. supply' = supply /\ rob' = Append(rob, s)
    BY DEF Dispatch
  <1> HIDE DEF s
  <1>4. RangeOf(rob') = RangeOf(rob) \cup {s} /\ Len(rob') = Len(rob) + 1
    BY <1>1, <1>2, <1>3, RangeAppend
  <1>5. Held = {s} \cup {dec.buf[j] : j \in k + 2 .. n}
    <2>1. \A j : j \in k + 1 .. n <=> j = k + 1 \/ j \in k + 2 .. n
      BY <1>1
    <2> HIDE DEF k, n
    <2>2. Held = {dec.buf[j] : j \in k + 1 .. n}
      BY DEF Held, k, n
    <2> QED
      BY <1>2, <2>1, <2>2
  <1>6. /\ Held' = {dec.buf[j] : j \in k + 2 .. n}
        /\ Len(dec'.buf) - dec'.sent = n - k - 1
    <2>1. CASE k + 1 = Required
      <3>1. dec' = IdleDecoder
        BY <2>1 DEF Dispatch
      <3>2. Held' = {} /\ Len(dec'.buf) = 0 /\ dec'.sent = 0
        BY <3>1 DEF Held, IdleDecoder
      <3>3. k + 2 .. n = {}
        BY <1>1, <2>1
      <3> QED
        BY <1>1, <2>1, <3>2, <3>3
    <2>2. CASE k + 1 # Required
      <3>1. dec' = [dec EXCEPT !.sent = k + 1]
        BY <2>2 DEF Dispatch
      <3>2. dec'.buf = dec.buf /\ dec'.sent = k + 1
        BY <3>1 DEF TypeInv, TypeOK
      <3>3. Held' = {dec.buf[j] : j \in k + 1 + 1 .. n}
        BY <3>2 DEF Held
      <3>4. k + 1 + 1 = k + 2 /\ n - (k + 1) = n - k - 1
        BY <1>1
      <3> QED
        BY <3>2, <3>3, <3>4
    <2> QED
      BY <2>1, <2>2
  <1>7. RangeOf(supply') \cup RangeOf(rob') \cup Held' = Slots
    BY <1>3, <1>4, <1>5, <1>6 DEF ConsInv
  <1>8. Len(supply') + Len(rob') + (Len(dec'.buf) - dec'.sent) = Cardinality(Slots)
    BY <1>1, <1>3, <1>4, <1>6 DEF ConsInv
  <1> QED
    BY <1>7, <1>8 DEF ConsInv

\* The steps that move no slot.
LEMMA ConsStill ==
    ASSUME ConsInv, UNCHANGED <<supply, rob>>,
           dec'.buf = dec.buf, dec'.sent = dec.sent
    PROVE  ConsInv'
  BY DEF ConsInv, Held

\* Every step moves slots between the three places.
LEMMA ConsNext == TypeInv /\ ConsInv /\ [Next]_vars => ConsInv'
  <1> SUFFICES ASSUME TypeInv, ConsInv, [Next]_vars PROVE ConsInv'
    OBVIOUS
  <1>1. CASE TakeInterrupt
    BY <1>1, ConsFlush DEF TakeInterrupt
  <1>2. CASE Commit
    BY <1>2, ConsCommit
  <1>3. CASE CommitFlushing
    BY <1>3, ConsFlush DEF CommitFlushing
  <1>4. CASE FlushOnWriteBack
    BY <1>4, ConsFlushOnWriteBack
  <1>5. CASE Allocate
    BY <1>5, ConsAllocate
  <1>6. CASE Dispatch
    BY <1>6, ConsDispatch
  <1>7. CASE DecodeStart
    <2>1. PICK t \in Templates :
            dec' = [state |-> "allocate", tmpl |-> t, buf |-> <<>>, sent |-> 0]
      BY <1>7 DEF DecodeStart
    <2>2. dec = IdleDecoder /\ UNCHANGED <<supply, rob>>
      BY <1>7 DEF DecodeStart, TypeInv, DecoderConsistent
    <2>3. dec'.buf = dec.buf /\ dec'.sent = dec.sent
      BY <2>1, <2>2 DEF IdleDecoder
    <2> QED
      BY <2>2, <2>3, ConsStill
  <1>8. CASE Decode
    <2>1. dec'.buf = dec.buf /\ dec'.sent = dec.sent /\ UNCHANGED <<supply, rob>>
      BY <1>8 DEF Decode, TypeInv, TypeOK
    <2> QED
      BY <2>1, ConsStill
  <1>9. CASE IssueRs \/ IssueLs
    <2>1. UNCHANGED <<supply, rob, dec>>
      BY <1>9 DEF IssueRs, IssueLs, IssueTo
    <2> QED
      BY <2>1, ConsStill
  <1>10. CASE \/ NoInterrupt \/ CommitStops \/ UnitIdle \/ UnitExecutes \/ WriteBack
              \/ ExecDone \/ IssueDone \/ DecodeStops \/ AllocateStops
              \/ DispatchStops \/ DeviceInterrupt \/ DevicesQuiet \/ UNCHANGED vars
    <2>1. UNCHANGED <<supply, rob, dec>>
      BY <1>10 DEF NoInterrupt, CommitStops, UnitIdle, UnitExecutes, WriteBack,
         ExecDone, IssueDone, DecodeStops, AllocateStops, DispatchStops,
         DeviceInterrupt, DevicesQuiet, vars
    <2> QED
      BY <2>1, ConsStill
  <1> QED
    BY <1>1, <1>2, <1>3, <1>4, <1>5, <1>6, <1>7, <1>8, <1>9, <1>10
    DEF Next, CommitPhase, ExecPhase, IssuePhase, DecodePhase

\* Conservation of slots: each of the reorder buffer's slots is, in every state
\* of every run, exactly once in the supply, the reorder buffer or the decoder's
\* buffer, whatever is flushed, committed or refused by a full queue.
THEOREM SlotsConserved == Spec => []SlotConservation
  <1>1. Init => TypeInv /\ ConsInv
    BY TypeInit, ConsInit
  <1>2. TypeInv /\ ConsInv /\ [Next]_vars => TypeInv' /\ ConsInv'
    BY TypeNext, ConsNext
  <1>3. TypeInv /\ ConsInv => SlotConservation
    BY ConsImplies
  <1> QED
    BY <1>1, <1>2, <1>3, PTL DEF Spec
=============================================================================
