--------------------------- MODULE FrontEnd_proofs ---------------------------
(***************************************************************************)
(* Theorems about FrontEnd, for every address space, program, set of       *)
(* faults, predictor and size of the buffer: the safety properties of the  *)
(* run front_end.                                                          *)
(***************************************************************************)
EXTENDS FrontEnd, TLAPS, SequenceTheorems

\* The place of a position in the circular buffer.
Place(i) == i % Size

\* The k-th byte of the buffer after the next one.
At(k) == buffer[Place(read_pos + k)]

\* An entry of the instruction cache that is busy, and what the decoder keeps.
Bytes == [space : Spaces, addr : Addrs \cup {-1}]
Insts == [vaddr : Addrs, bytes : Seq(Bytes) \ {<<>>}]
Decodings ==
    [handler : {"idle", "bytes", "skip", "allocate", "allocate fault"},
     addr : Addrs, got : Seq(Bytes), taken : Nat]

\* A table of decoded instructions, each at the index of its address.
IsTable(t) ==
    /\ t \in [0 .. TableSize - 1 -> Insts \cup {NoInst}]
    /\ \A i \in 0 .. TableSize - 1 :
           t[i] # NoInst => CacheIndex(t[i].vaddr) = i

BufferTypes ==
    /\ spec_pc \in Addrs
    /\ buffer \in [0 .. Size - 1 -> Elements]
    /\ read_pos \in 0 .. Size - 1 /\ write_pos \in 0 .. Size - 1
    /\ available \in 0 .. Size
    /\ disable_until_flush \in BOOLEAN
    /\ disable_due_to_cache_miss \in 0 .. MaxMiss

DecoderTypes ==
    /\ dec \in Decodings
    /\ next_inst_addr \in Addrs
    /\ bytes_decoded \in 0 .. MaxDecode
    /\ IsTable(inst_cache)
    /\ mis \in BOOLEAN /\ seen \in BOOLEAN /\ faulted \in BOOLEAN
    /\ garbled \in BOOLEAN

OtherTypes ==
    /\ notExecutable \in FaultPages
    /\ pc \in Addrs /\ space \in Spaces
    /\ to_fetch \in 0 .. Width
    /\ window \in Seq(Uops) /\ Len(window) <= Supply
    /\ phase \in {"commit", "decode", "fetch"}

TypeInv == BufferTypes /\ DecoderTypes /\ OtherTypes

\* The decoder d counts its bytes, and skips the rest of an entry of the table
\* t that is there.
DecodesWith(d, t) ==
    /\ d.handler = "idle" => d = NoDecoding
    /\ d.handler = "bytes" => d.taken = Len(d.got)
    /\ d.handler = "skip" =>
         LET e == t[CacheIndex(d.addr)] IN
         e # NoInst /\ e.vaddr = d.addr /\ d.taken < Len(e.bytes)

DecodeInv == DecodesWith(dec, inst_cache)

\* The bytes end at write_pos, and the fetch that is going on has room.
FetchInv ==
    /\ write_pos = Place(read_pos + InBuffer)
    /\ to_fetch > 0 =>
         phase = "fetch" /\ ~disable_until_flush /\ to_fetch <= available

TypeAndPath == TypeInv /\ DecodeInv /\ FetchInv /\ BufferIsPath

\* A decoder without a fault: what it took was in the buffer.
Decoding ==
    /\ dec.handler # "allocate fault"
    /\ dec.handler \in {"skip", "allocate"} => dec.got # <<>>
    /\ dec.got # <<>> => seen

\* The address compared is that of the next byte, and what is decoded while
\* execution is enabled is at the pc.
RightPath ==
    /\ Decoding
    /\ seen /\ dec.handler # "skip" => next_inst_addr = NextFetched
    /\ ~mis => IF dec.got = <<>> THEN NextFetched = pc ELSE dec.addr = pc

FreshInv == ~garbled => RightPath

\* An instruction of the right path that will flush those behind it.
Flushes(u) == u.valid /\ u.flush # "no"

\* There is none while execution is enabled, and never a second one.
OneFlush ==
    /\ \A k \in DOMAIN window : Flushes(window[k]) => mis
    /\ \A j, k \in DOMAIN window :
           Flushes(window[j]) /\ Flushes(window[k]) => j = k

\* The kernel has returned and what was fetched before is not flushed yet.
Returning ==
    \E k \in DOMAIN window : window[k].valid /\ window[k].flush = "return"

\* Where the fetch may go after an address.
Follows(a, b) == b = After(a) \/ <<a, b>> \in Predictable

\* Bytes of the space s, the first one at a.
StartsAt(bytes, s, a) ==
    /\ bytes[1] = [space |-> s, addr |-> a]
    /\ \A k \in DOMAIN bytes : bytes[k].space = s

\* Some bytes of an instruction, and all of them.
Begun(bytes, s, a) ==
    /\ StartsAt(bytes, s, a)
    /\ bytes = BytesAt(s, a, Len(bytes)) \/ Diverted(bytes)
Whole(bytes, s, a) ==
    /\ StartsAt(bytes, s, a)
    /\ bytes = InstructionAt(s, a) \/ Diverted(bytes)

\* What the table t remembers, what the buffer holds, what the decoder d has
\* read, with next behind it, and what waits for its slot.
Remembers(t, s) ==
    \A i \in 0 .. TableSize - 1 :
        t[i] # NoInst => Whole(t[i].bytes, s, t[i].vaddr)
Holds ==
    \A k \in 0 .. InBuffer - 1 :
        ~At(k).fault =>
            At(k).space = space /\ Follows(At(k).vaddr, At(k).next)
Reads(d, s, next) ==
    d.handler = "bytes" /\ d.got # <<>> =>
        /\ Begun(d.got, s, d.addr)
        /\ Follows(d.got[Len(d.got)].addr, next)
HasRead(d, t, s) ==
    d.handler = "allocate" => Whole(t[CacheIndex(d.addr)].bytes, s, d.addr)

BytesInv ==
    ~garbled /\ ~Returning =>
        /\ Remembers(inst_cache, space)
        /\ Holds
        /\ Reads(dec, space, NextFetched)
        /\ HasRead(dec, inst_cache, space)

-----------------------------------------------------------------------------
\* Lemmas about remainders.

\* A remainder is the only one.
LEMMA RemainderIsOne ==
    ASSUME NEW n \in Nat \ {0}, NEW q \in Int, NEW r \in 0 .. n - 1
    PROVE  (n * q + r) % n = r
<1> DEFINE x == n * q + r
           p == x \div n
           s == x % n
<1>1. x \in Int /\ n * q \in Int
  OBVIOUS
<1>2. p \in Int /\ s \in 0 .. n - 1 /\ x = n * p + s
  BY <1>1, SMTT(20)
<1>3. n * q + r = n * p + s
  BY <1>2
<1> HIDE DEF x, p, s
<1>4. n * (q - p) = s - r
  BY <1>2, <1>3, SMTT(20)
<1>5. PICK d \in Int : d = q - p
  BY <1>2
<1>6. n * d = s - r
  BY <1>4, <1>5
<1>7. d = 0
  <2>1. CASE d >= 1
    <3>1. n * d >= n
      BY <2>1, <1>5, SMTT(20)
    <3> QED BY <3>1, <1>6, <1>2
  <2>2. CASE d <= -1
    <3>1. n * d <= -n
      BY <2>2, <1>5, SMTT(20)
    <3> QED BY <3>1, <1>6, <1>2
  <2> QED BY <2>1, <2>2, <1>5
<1>8. s = r
  BY <1>6, <1>7, <1>2
<1> QED BY <1>8 DEF x, s

\* Counting on from a remainder.
LEMMA RemainderOfSum ==
    ASSUME NEW n \in Nat \ {0}, NEW i \in Nat, NEW j \in Nat
    PROVE  /\ i % n \in 0 .. n - 1
           /\ ((i % n) + j) % n = (i + j) % n
<1> DEFINE p == i \div n
           s == i % n
           q == (s + j) \div n
           r == (s + j) % n
<1>1. p \in Int /\ s \in 0 .. n - 1 /\ i = n * p + s
  BY SMTT(20)
<1>2. s + j \in Nat
  BY <1>1
<1>3. q \in Int /\ r \in 0 .. n - 1 /\ s + j = n * q + r
  BY <1>2, SMTT(20)
<1> HIDE DEF p, s, q, r
<1>4. i + j = n * (p + q) + r
  BY <1>1, <1>3, SMTT(20)
<1>5. p + q \in Int
  BY <1>1, <1>3
<1>6. (i + j) % n = r
  BY <1>3, <1>4, <1>5, RemainderIsOne
<1> QED BY <1>1, <1>6 DEF s, r

\* What is smaller is its own remainder.
LEMMA SmallRemainder ==
    ASSUME NEW n \in Nat \ {0}, NEW i \in 0 .. n - 1
    PROVE  i % n = i
BY SMT

-----------------------------------------------------------------------------
\* Lemmas about the circular buffer.

\* A position up to once around.
LEMMA AroundOnce ==
    ASSUME NEW n \in Nat \ {0}, NEW i \in 0 .. 2 * n - 1
    PROVE  i % n = IF i < n THEN i ELSE i - n
<1>1. CASE i < n
  BY <1>1, SmallRemainder
<1>2. CASE i >= n
  <2>1. i - n \in 0 .. n - 1 /\ i = n * 1 + (i - n)
    BY <1>2
  <2>2. (n * 1 + (i - n)) % n = i - n
    BY <2>1, RemainderIsOne
  <2> QED BY <2>1, <2>2, <1>2
<1> QED BY <1>1, <1>2

\* A place is in the array.
LEMMA PlaceType ==
    ASSUME NEW i \in Nat
    PROVE  Place(i) \in 0 .. Size - 1
BY FrontEndAssumption, RemainderOfSum DEF Place

\* Counting on from a place.
LEMMA PlaceOfSum ==
    ASSUME NEW i \in Nat, NEW j \in Nat
    PROVE  Place(Place(i) + j) = Place(i + j)
BY FrontEndAssumption, RemainderOfSum DEF Place

\* The first time around a position is its place.
LEMMA PlaceOfSmall ==
    ASSUME NEW i \in 0 .. Size - 1
    PROVE  Place(i) = i
BY FrontEndAssumption, SmallRemainder DEF Place

\* Two positions of the buffer are two places.
LEMMA OnePlace ==
    ASSUME NEW r \in 0 .. Size - 1, NEW i \in 0 .. Size - 1,
           NEW j \in 0 .. Size - 1, Place(r + i) = Place(r + j)
    PROVE  i = j
<1>1. Size \in Nat \ {0}
  BY FrontEndAssumption
<1>2. PICK a \in 0 .. 2 * Size - 1 : a = r + i
  BY <1>1
<1>3. PICK b \in 0 .. 2 * Size - 1 : b = r + j
  BY <1>1
<1>4. /\ Place(a) = IF a < Size THEN a ELSE a - Size
      /\ Place(b) = IF b < Size THEN b ELSE b - Size
  BY <1>1, AroundOnce DEF Place
<1>5. Place(a) = Place(b)
  BY <1>2, <1>3
<1> QED BY <1>1, <1>2, <1>3, <1>4, <1>5

\* The buffer holds elements.
LEMMA RingFacts ==
    ASSUME BufferTypes
    PROVE  /\ Size \in Nat \ {0} /\ InBuffer \in 0 .. Size
           /\ available \in 0 .. Size /\ read_pos \in 0 .. Size - 1
           /\ \A k \in Nat : Place(read_pos + k) \in 0 .. Size - 1 /\ At(k) \in Elements
           /\ HeadByte = At(0) /\ HeadByte \in Elements
<1>1. /\ Size \in Nat \ {0} /\ available \in 0 .. Size /\ read_pos \in 0 .. Size - 1
      /\ buffer \in [0 .. Size - 1 -> Elements]
  BY FrontEndAssumption DEF BufferTypes
<1>2. \A k \in Nat : Place(read_pos + k) \in 0 .. Size - 1
  BY <1>1, PlaceType
<1>3. Place(read_pos) = read_pos /\ read_pos + 0 = read_pos
  BY <1>1, PlaceOfSmall
<1>4. HeadByte = At(0) /\ HeadByte \in Elements
  <2>1. Place(read_pos + 0) = read_pos
    BY <1>1, <1>3
  <2> QED BY <2>1, <1>1 DEF HeadByte, At
<1>5. \A k \in Nat : At(k) \in Elements
  BY <1>1, <1>2 DEF At
<1>6. InBuffer \in 0 .. Size
  BY <1>1 DEF InBuffer
<1> QED BY <1>1, <1>2, <1>4, <1>5, <1>6

\* What BufferIsPath says of the k-th byte.
PathAt(k) ==
    IF At(k).fault
    THEN k = InBuffer - 1 /\ disable_until_flush /\ spec_pc = At(k).vaddr
    ELSE At(k).next = IF k = InBuffer - 1 THEN spec_pc ELSE At(k + 1).vaddr

\* BufferIsPath, stated by position in the buffer.
LEMMA PathIs == BufferIsPath <=> \A k \in 0 .. InBuffer - 1 : PathAt(k)
BY DEF BufferIsPath, PathAt, At, Place

\* The same after a step.
LEMMA PathNextIs == BufferIsPath' <=> \A k \in 0 .. InBuffer' - 1 : PathAt(k)'
BY DEF BufferIsPath, PathAt, At, Place

\* The decoder takes the first n bytes.
LEMMA TakenFacts ==
    ASSUME BufferTypes, NEW n \in 0 .. Size, n <= InBuffer,
           UNCHANGED <<buffer, write_pos, spec_pc, disable_until_flush>>,
           read_pos' = Place(read_pos + n), available' = available + n
    PROVE  /\ InBuffer' = InBuffer - n
           /\ read_pos' \in 0 .. Size - 1 /\ available' \in 0 .. Size
           /\ \A k \in Nat : At(k)' = At(n + k)
           /\ Place(read_pos' + InBuffer') = Place(read_pos + InBuffer)
           /\ BufferIsPath => BufferIsPath'
<1>1. PICK m \in Nat : InBuffer = n + m
  <2>1. InBuffer \in 0 .. Size /\ InBuffer - n \in Nat
    BY RingFacts
  <2> QED BY <2>1
<1>2. /\ Size \in Nat \ {0} /\ available \in 0 .. Size /\ read_pos \in 0 .. Size - 1
  BY RingFacts
<1>3. InBuffer' = m /\ available' \in 0 .. Size
  BY <1>1, <1>2 DEF InBuffer
<1>4. ASSUME NEW k \in Nat
      PROVE  Place(read_pos' + k) = Place(read_pos + (n + k))
  <2>1. read_pos + n \in Nat /\ (read_pos + n) + k = read_pos + (n + k)
    BY <1>2
  <2>2. Place(Place(read_pos + n) + k) = Place((read_pos + n) + k)
    BY <2>1, PlaceOfSum
  <2> QED BY <2>1, <2>2
<1>5. \A k \in Nat : At(k)' = At(n + k)
  <2>1. ASSUME NEW k \in Nat PROVE At(k)' = At(n + k)
    <3>1. At(k)' = buffer'[Place(read_pos' + k)]
      BY DEF At, Place
    <3> QED BY <3>1, <1>4 DEF At
  <2> QED BY <2>1
<1>6. read_pos' \in 0 .. Size - 1
  <2>1. read_pos + n \in Nat
    BY <1>2
  <2> QED BY <2>1, PlaceType
<1>7. Place(read_pos' + InBuffer') = Place(read_pos + InBuffer)
  BY <1>1, <1>3, <1>4
<1>8. ASSUME BufferIsPath PROVE BufferIsPath'
  <2>1. ASSUME NEW k \in 0 .. m - 1 PROVE PathAt(k)'
    <3>1. /\ k \in Nat /\ k + 1 \in Nat /\ n + (k + 1) = (n + k) + 1
          /\ n + k \in 0 .. (n + m) - 1
          /\ (n + k = (n + m) - 1 <=> k = m - 1)
      BY <1>2
    <3>2. At(k)' = At(n + k) /\ At(k + 1)' = At((n + k) + 1)
      BY <3>1, <1>5
    <3>3. PathAt(n + k)
      BY <1>8, <3>1, <1>1, PathIs
    <3> QED BY <3>1, <3>2, <3>3, <1>1, <1>3 DEF PathAt
  <2> QED BY <2>1, <1>3, PathNextIs
<1> QED BY <1>1, <1>3, <1>5, <1>6, <1>7, <1>8

\* The fetch puts an element at write_pos.
LEMMA PutFacts ==
    ASSUME BufferTypes, write_pos = Place(read_pos + InBuffer), available > 0,
           NEW e, buffer' = [buffer EXCEPT ![write_pos] = e],
           read_pos' = read_pos, available' = available - 1,
           write_pos' = Place(write_pos + 1)
    PROVE  /\ InBuffer' = InBuffer + 1
           /\ available' \in 0 .. Size /\ write_pos' \in 0 .. Size - 1
           /\ \A k \in 0 .. InBuffer - 1 : At(k)' = At(k)
           /\ \A k \in Nat : k = InBuffer => At(k)' = e
           /\ write_pos' = Place(read_pos' + InBuffer')
<1>1. PICK m \in Nat : m = InBuffer
  BY RingFacts
<1>2. /\ Size \in Nat \ {0} /\ available \in 0 .. Size /\ read_pos \in 0 .. Size - 1
      /\ m \in 0 .. Size - 1
  BY RingFacts, <1>1 DEF InBuffer
<1>3. /\ InBuffer' = m + 1 /\ available' \in 0 .. Size
  BY <1>1, <1>2 DEF InBuffer
<1>4. write_pos = Place(read_pos + m) /\ write_pos \in 0 .. Size - 1
  <2>1. read_pos + m \in Nat
    BY <1>2
  <2> QED BY <2>1, <1>1, PlaceType
<1>5. buffer \in [0 .. Size - 1 -> Elements]
  BY DEF BufferTypes
<1>6. \A k \in Nat : At(k)' = buffer'[Place(read_pos + k)]
  BY DEF At, Place
<1>7. ASSUME NEW k \in 0 .. m - 1 PROVE At(k)' = At(k)
  <2>1. k \in 0 .. Size - 1 /\ k # m /\ k \in Nat
    BY <1>2
  <2>2. Place(read_pos + k) # Place(read_pos + m)
    BY <2>1, <1>2, OnePlace
  <2>3. Place(read_pos + k) \in 0 .. Size - 1
    <3>1. read_pos + k \in Nat
      BY <1>2
    <3> QED BY <3>1, PlaceType
  <2> QED BY <2>1, <2>2, <2>3, <1>4, <1>5, <1>6 DEF At
<1>8. At(m)' = e
  BY <1>4, <1>5, <1>6
<1>9. write_pos' = Place(read_pos' + InBuffer') /\ write_pos' \in 0 .. Size - 1
  <2>1. read_pos + m \in Nat /\ (read_pos + m) + 1 = read_pos + (m + 1)
    BY <1>2
  <2>2. Place(Place(read_pos + m) + 1) = Place((read_pos + m) + 1)
    BY <2>1, PlaceOfSum
  <2>3. Place((read_pos + m) + 1) \in 0 .. Size - 1
    <3>1. (read_pos + m) + 1 \in Nat
      BY <2>1
    <3> QED BY <3>1, PlaceType
  <2> QED BY <2>1, <2>2, <2>3, <1>3, <1>4
<1> QED BY <1>1, <1>3, <1>7, <1>8, <1>9

\* The steps that leave the buffer alone.
LEMMA RingKept ==
    ASSUME BufferIsPath, UNCHANGED <<buffer, read_pos, available, spec_pc,
                                     disable_until_flush>>
    PROVE  /\ InBuffer' = InBuffer
           /\ \A k \in Nat : At(k)' = At(k)
           /\ BufferIsPath' /\ NextFetched' = NextFetched
BY DEF InBuffer, At, Place, BufferIsPath, NextFetched, HeadByte

-----------------------------------------------------------------------------
\* Lemmas about the decoder.

\* Every address has an index.
LEMMA CacheIndexType ==
    ASSUME NEW a \in Addrs
    PROVE  CacheIndex(a) \in 0 .. TableSize - 1
<1>1. a \in Nat /\ TableSize \in Nat \ {0}
  BY FrontEndAssumption DEF Addrs
<1> QED BY <1>1, RemainderOfSum DEF CacheIndex

\* One more byte leaves a table and a decoder in order.
LEMMA ByteFacts ==
    ASSUME DecoderTypes, DecodeInv, dec.handler = "bytes",
           NEW b \in Bytes, NEW a \in Addrs, NEW c \in BOOLEAN
    PROVE  /\ IsTable(Cached(b, a, c))
           /\ WithByte(b, a, c) \in Decodings
           /\ DecodesWith(WithByte(b, a, c), Cached(b, a, c))
<1> DEFINE key == IF dec.got = <<>> THEN a ELSE dec.addr
           new == IF c THEN [vaddr |-> key, bytes |-> Append(dec.got, b)]
                  ELSE NoInst
           d == WithByte(b, a, c)
<1>1. /\ dec \in Decodings /\ IsTable(inst_cache)
      /\ dec.got \in Seq(Bytes) /\ dec.addr \in Addrs /\ dec.taken \in Nat
      /\ dec.taken = Len(dec.got)
  BY DEF DecoderTypes, Decodings, DecodeInv, DecodesWith
<1>2. key \in Addrs /\ CacheIndex(key) \in 0 .. TableSize - 1
  BY <1>1, CacheIndexType
<1>3. /\ Append(dec.got, b) \in Seq(Bytes) \ {<<>>}
      /\ Len(Append(dec.got, b)) = Len(dec.got) + 1
  <2>1. PICK g \in Seq(Bytes) : g = dec.got
    BY <1>1
  <2>2. Append(g, b) \in Seq(Bytes) /\ Len(Append(g, b)) = Len(g) + 1
        /\ Len(g) \in Nat
    BY AppendProperties
  <2>3. Append(g, b) # <<>>
    BY <2>2
  <2> QED BY <2>1, <2>2, <2>3
<1>4. Cached(b, a, c) = IF Hit(a) THEN inst_cache
                        ELSE [inst_cache EXCEPT ![CacheIndex(key)] = new]
  BY DEF Cached
<1>5. new \in Insts \cup {NoInst} /\ (new # NoInst => new.vaddr = key)
  BY <1>2, <1>3 DEF Insts
<1> HIDE DEF key, new
<1>6. IsTable(Cached(b, a, c))
  BY <1>1, <1>2, <1>4, <1>5 DEF IsTable
<1>7. /\ d.got = Append(dec.got, b) /\ d.taken = dec.taken + 1 /\ d.addr = key
      /\ d.handler = IF Hit(a)
                     THEN IF Len(inst_cache[CacheIndex(a)].bytes) = 1
                          THEN "allocate" ELSE "skip"
                     ELSE IF c THEN "allocate" ELSE "bytes"
  BY DEF WithByte, key
<1>8. d \in Decodings
  <2>1. /\ d.handler \in {"bytes", "skip", "allocate"}
        /\ d.got \in Seq(Bytes) /\ d.taken \in Nat /\ d.addr \in Addrs
    BY <1>1, <1>2, <1>3, <1>7
  <2>2. d = [got |-> d.got, taken |-> d.taken, addr |-> d.addr,
             handler |-> d.handler]
    BY DEF WithByte
  <2> HIDE DEF d
  <2> QED BY <2>1, <2>2 DEF Decodings
<1>9. ASSUME d.handler = "skip"
      PROVE  LET e == Cached(b, a, c)[CacheIndex(d.addr)] IN
             e # NoInst /\ e.vaddr = d.addr /\ d.taken < Len(e.bytes)
  <2>1. /\ Hit(a) /\ dec.got = <<>> /\ key = a
        /\ Len(inst_cache[CacheIndex(a)].bytes) # 1
    BY <1>7, <1>9 DEF Hit, key
  <2>2. /\ inst_cache[CacheIndex(a)] # NoInst
        /\ inst_cache[CacheIndex(a)].vaddr = a
    BY <2>1 DEF Hit, Decoded
  <2>3. inst_cache[CacheIndex(a)] \in Insts
    BY <2>2, <1>1, CacheIndexType DEF IsTable
  <2>4. Len(inst_cache[CacheIndex(a)].bytes) \in Nat \ {0}
    BY <2>3 DEF Insts
  <2>5. d.taken = 1
    <3>1. dec.taken = 0
      BY <2>1, <1>1
    <3> QED BY <3>1, <1>7
  <2>6. Cached(b, a, c) = inst_cache /\ d.addr = a
    BY <2>1, <1>4, <1>7
  <2> HIDE DEF d
  <2>7. 1 < Len(inst_cache[CacheIndex(a)].bytes)
    <3>1. PICK n \in Nat \ {0} : n = Len(inst_cache[CacheIndex(a)].bytes)
      BY <2>4
    <3>2. n # 1
      BY <3>1, <2>1
    <3>3. 1 < n
      BY <3>2
    <3> QED BY <3>1, <3>3
  <2> QED BY <2>2, <2>5, <2>6, <2>7
<1>10. d.handler # "idle" /\ (d.handler = "bytes" => d.taken = Len(d.got))
  BY <1>1, <1>3, <1>7
<1> HIDE DEF d
<1>11. DecodesWith(d, Cached(b, a, c))
  BY <1>9, <1>10 DEF DecodesWith
<1> QED BY <1>6, <1>8, <1>11 DEF d

\* A decoder that starts or is flushed.
LEMMA NoDecodingFacts ==
    /\ FrontEndAssumption => NoDecoding \in Decodings
    /\ NoDecoding.got = <<>> /\ NoDecoding.handler = "idle"
    /\ \A t : DecodesWith(NoDecoding, t)
<1>1. FrontEndAssumption => 0 \in Addrs
  BY DEF FrontEndAssumption, Addrs
<1> QED BY <1>1 DEF NoDecoding, Decodings, DecodesWith

\* What is dispatched.
LEMMA DispatchedFacts ==
    ASSUME OtherTypes, HasSlot, NEW u \in Uops
    PROVE  Append(window, u) \in Seq(Uops) /\ Len(Append(window, u)) <= Supply
<1>1. Len(window) \in Nat /\ Len(Append(window, u)) = Len(window) + 1
  BY DEF OtherTypes
<1> QED BY <1>1, FrontEndAssumption DEF OtherTypes, HasSlot

\* The fetch of a cycle gets what room there is, up to its width.
LEMMA StopFacts ==
    ASSUME BufferTypes, StopDecoding, available' \in 0 .. Size,
           UNCHANGED disable_until_flush
    PROVE  /\ to_fetch' \in 0 .. Width /\ phase' = "fetch"
           /\ disable_due_to_cache_miss' \in 0 .. MaxMiss
           /\ to_fetch' > 0 =>
                phase' = "fetch" /\ ~disable_until_flush' /\ to_fetch' <= available'
<1>1. /\ Width \in Nat \ {0} /\ Size \in Nat \ {0} /\ MaxMiss \in Nat
      /\ disable_due_to_cache_miss \in 0 .. MaxMiss
      /\ disable_until_flush \in BOOLEAN
  BY FrontEndAssumption DEF BufferTypes
<1>2. to_fetch' \in 0 .. Width /\ (to_fetch' > 0 => to_fetch' <= available')
  BY <1>1 DEF StopDecoding
<1> QED BY <1>1, <1>2 DEF StopDecoding

-----------------------------------------------------------------------------
\* The types and the path are kept by every step.

\* A flush leaves an empty buffer and an idle decoder at t, with the table that
\* was or an empty one.
LEMMA FlushFacts ==
    ASSUME TypeAndPath, NEW t \in Addrs, FlushFrontEnd(t),
           UNCHANGED <<notExecutable, to_fetch>>, to_fetch = 0,
           phase' \in {"commit", "decode", "fetch"}, space' \in Spaces,
           UNCHANGED <<inst_cache, garbled>> \/ ClearCache
    PROVE  /\ TypeAndPath' /\ InBuffer' = 0 /\ NextFetched' = t /\ pc' = t
<1>1. BufferTypes /\ DecoderTypes /\ OtherTypes
  BY DEF TypeAndPath, TypeInv
<1>2. InBuffer' = 0 /\ NextFetched' = t /\ pc' = t
  BY <1>1, FrontEndAssumption DEF FlushFrontEnd, InBuffer, NextFetched
<1>3. BufferTypes'
  <2>1. 0 \in 0 .. Size - 1 /\ Size \in 0 .. Size /\ 0 \in 0 .. MaxMiss
    BY FrontEndAssumption
  <2>2. buffer' \in [0 .. Size - 1 -> Elements] /\ spec_pc' \in Addrs
    BY <1>1 DEF FlushFrontEnd, BufferTypes
  <2> QED BY <2>1, <2>2 DEF FlushFrontEnd, BufferTypes
<1>4. DecoderTypes' /\ DecodeInv'
  <2>1. dec' = NoDecoding /\ dec' \in Decodings
    BY NoDecodingFacts, FrontEndAssumption DEF FlushFrontEnd
  <2>2. IsTable(inst_cache)' /\ garbled' \in BOOLEAN
    <3>1. CASE UNCHANGED <<inst_cache, garbled>>
      BY <3>1, <1>1 DEF DecoderTypes, IsTable, CacheIndex
    <3>2. CASE ClearCache
      BY <3>2 DEF ClearCache, EmptyCache, IsTable
    <3> QED BY <3>1, <3>2
  <2>3. DecoderTypes'
    BY <1>1, <2>1, <2>2 DEF FlushFrontEnd, DecoderTypes
  <2> QED BY <2>1, <2>3, NoDecodingFacts DEF DecodeInv
<1>5. OtherTypes'
  <2>1. window' = <<>> /\ Len(<<>>) = 0
    BY DEF FlushFrontEnd
  <2> QED BY <1>1, <2>1, FrontEndAssumption DEF FlushFrontEnd, OtherTypes
<1>6. FetchInv'
  <2>1. Place(0) = 0
    BY FrontEndAssumption, PlaceOfSmall
  <2>2. write_pos' = 0 /\ read_pos' = 0 /\ to_fetch' = 0
    BY DEF FlushFrontEnd
  <2>3. write_pos' = Place(read_pos' + InBuffer')
    BY <2>1, <2>2, <1>2
  <2> QED BY <2>2, <2>3 DEF FetchInv, Place
<1>7. BufferIsPath'
  BY <1>2 DEF BufferIsPath
<1> QED BY <1>2, <1>3, <1>4, <1>5, <1>6, <1>7 DEF TypeAndPath, TypeInv

\* The ring in the next state, when it is left alone.
LEMMA RingUntouched ==
    ASSUME TypeAndPath, UNCHANGED <<buffer, read_pos, write_pos, available,
                                    spec_pc, disable_until_flush>>,
           to_fetch' > 0 => phase' = "fetch" /\ ~disable_until_flush'
                            /\ to_fetch' <= available'
    PROVE  FetchInv' /\ BufferIsPath'
<1>1. FetchInv /\ BufferIsPath
  BY DEF TypeAndPath
<1> QED BY <1>1, RingKept DEF FetchInv, InBuffer, Place

\* The flushes there are: the one of a misprediction keeps what is remembered.
LEMMA FlushKinds ==
    ASSUME TypeAndPath, CommitFlush \/ ExternalInterrupt
    PROVE  \E t \in Addrs :
             /\ FlushFrontEnd(t)
             /\ UNCHANGED <<notExecutable, to_fetch>> /\ to_fetch = 0
             /\ phase' \in {"commit", "decode", "fetch"} /\ space' \in Spaces
             /\ \/ /\ CommitMisprediction
                   /\ UNCHANGED <<space, inst_cache, garbled>>
                \/ ClearCache
<1>1. pc \in Addrs /\ Handler \in Addrs /\ space \in Spaces /\ KernelSpace \in Spaces
  BY FrontEndAssumption DEF TypeAndPath, TypeInv, OtherTypes
<1>2. phase = "commit" => to_fetch = 0
  BY FrontEndAssumption DEF TypeAndPath, TypeInv, OtherTypes, FetchInv
<1>3. CASE CommitMisprediction
  BY <1>1, <1>2, <1>3 DEF CommitMisprediction, CommitFlushes
<1>4. CASE CommitEvent
  BY <1>1, <1>2, <1>4 DEF CommitEvent, CommitFlushes, EnterKernel
<1>5. CASE CommitReturn
  BY <1>1, <1>2, <1>5 DEF CommitReturn, CommitFlushes
<1>6. CASE ExternalInterrupt
  BY <1>1, <1>6 DEF ExternalInterrupt, EnterKernel
<1> QED BY <1>3, <1>4, <1>5, <1>6 DEF CommitFlush

\* A flush.
LEMMA FlushKeeps ==
    ASSUME TypeAndPath, CommitFlush \/ ExternalInterrupt
    PROVE  TypeAndPath'
<1>1. PICK t \in Addrs :
        /\ FlushFrontEnd(t)
        /\ UNCHANGED <<notExecutable, to_fetch>> /\ to_fetch = 0
        /\ phase' \in {"commit", "decode", "fetch"} /\ space' \in Spaces
        /\ UNCHANGED <<inst_cache, garbled>> \/ ClearCache
  <2>1. ASSUME UNCHANGED <<space, inst_cache, garbled>>
        PROVE  UNCHANGED <<inst_cache, garbled>>
    BY <2>1
  <2> QED BY <2>1, FlushKinds
<1> QED BY <1>1, FlushFacts

\* CommitUop and CommitDone.
LEMMA CommitKeeps ==
    ASSUME TypeAndPath, CommitUop \/ CommitDone
    PROVE  TypeAndPath'
<1>1. /\ BufferTypes /\ DecoderTypes /\ OtherTypes /\ FetchInv /\ DecodeInv
      /\ BufferIsPath /\ phase = "commit"
  BY DEF TypeAndPath, TypeInv, CommitUop, CommitDone
<1>2. to_fetch = 0
  BY <1>1, FrontEndAssumption DEF FetchInv, OtherTypes
<1>3. CASE CommitUop
  <2>1. Tail(window) \in Seq(Uops) /\ Len(Tail(window)) <= Supply
    <3>1. PICK w \in Seq(Uops) : w = window /\ w # <<>> /\ Len(w) <= Supply
      BY <1>1, <1>3 DEF CommitUop, OtherTypes
    <3>2. Tail(w) \in Seq(Uops) /\ Len(Tail(w)) = Len(w) - 1 /\ Len(w) \in Nat
      BY <3>1, HeadTailProperties, LenProperties
    <3> QED BY <3>1, <3>2, FrontEndAssumption
  <2>2. BufferTypes' /\ DecoderTypes' /\ DecodeInv'
    BY <1>1, <1>3 DEF CommitUop, fetchVars, decodeVars, BufferTypes,
      DecoderTypes, IsTable, DecodeInv
  <2>3. OtherTypes'
    BY <1>1, <1>3, <2>1 DEF CommitUop, OtherTypes
  <2>4. FetchInv' /\ BufferIsPath'
    BY <1>2, <1>3, RingUntouched DEF CommitUop, fetchVars
  <2> QED BY <2>2, <2>3, <2>4 DEF TypeAndPath, TypeInv
<1>4. CASE CommitDone
  <2>1. BufferTypes' /\ DecoderTypes' /\ DecodeInv'
    BY <1>1, <1>4, FrontEndAssumption DEF CommitDone, fetchVars, BufferTypes,
      DecoderTypes, IsTable, DecodeInv
  <2>2. OtherTypes'
    BY <1>1, <1>4 DEF CommitDone, OtherTypes
  <2>3. FetchInv' /\ BufferIsPath'
    BY <1>2, <1>4, RingUntouched DEF CommitDone, fetchVars
  <2> QED BY <2>1, <2>2, <2>3 DEF TypeAndPath, TypeInv
<1> QED BY <1>3, <1>4

\* The steps that wait for a byte or for a slot.
LEMMA WaitKeeps ==
    ASSUME TypeAndPath, DecodeStart \/ NoByte \/ NoSlot
    PROVE  TypeAndPath'
<1>1. /\ BufferTypes /\ DecoderTypes /\ OtherTypes /\ FetchInv /\ DecodeInv
      /\ BufferIsPath /\ phase = "decode"
  BY DEF TypeAndPath, TypeInv, DecodeStart, NoByte, NoSlot
<1>2. CASE DecodeStart
  <2>1. dec' = [handler |-> "bytes", addr |-> 0, got |-> <<>>, taken |-> 0]
    BY <1>2 DEF DecodeStart, NoDecoding
  <2>2. 0 \in Addrs
    BY FrontEndAssumption DEF Addrs
  <2>3. dec' \in Decodings /\ DecodeInv'
    BY <2>1, <2>2 DEF Decodings, DecodeInv, DecodesWith
  <2>4. BufferTypes' /\ DecoderTypes' /\ OtherTypes'
    BY <1>1, <1>2, <2>3 DEF DecodeStart, SameFetch, fetchVars, BufferTypes,
      DecoderTypes, IsTable, OtherTypes
  <2>5. to_fetch = 0
    BY <1>1, FrontEndAssumption DEF FetchInv, OtherTypes
  <2>6. FetchInv' /\ BufferIsPath'
    BY <2>5, <1>2, RingUntouched DEF DecodeStart, SameFetch, fetchVars
  <2> QED BY <2>3, <2>4, <2>6 DEF TypeAndPath, TypeInv
<1>3. CASE NoByte \/ NoSlot
  <2>1. /\ StopDecoding
        /\ UNCHANGED <<spec_pc, buffer, read_pos, write_pos, available,
                       disable_until_flush, decodeVars, notExecutable, pc,
                       space, window>>
    BY <1>3 DEF NoByte, NoSlot
  <2>2. available' \in 0 .. Size
    BY <1>1, <2>1 DEF BufferTypes
  <2>3. /\ to_fetch' \in 0 .. Width /\ phase' = "fetch"
        /\ disable_due_to_cache_miss' \in 0 .. MaxMiss
        /\ to_fetch' > 0 =>
             phase' = "fetch" /\ ~disable_until_flush' /\ to_fetch' <= available'
    BY <1>1, <2>1, <2>2, StopFacts
  <2>4. BufferTypes' /\ DecoderTypes' /\ OtherTypes' /\ DecodeInv'
    BY <1>1, <2>1, <2>3 DEF decodeVars, BufferTypes, DecoderTypes, IsTable,
      OtherTypes, DecodeInv
  <2>5. FetchInv' /\ BufferIsPath'
    BY <2>1, <2>3, RingUntouched
  <2> QED BY <2>4, <2>5 DEF TypeAndPath, TypeInv
<1> QED BY <1>2, <1>3

\* The end of an instruction.
LEMMA EndKeeps ==
    ASSUME TypeAndPath, NEW x \in {"no", "event", "return"}, NEW t \in Addrs,
           InstructionEnd(x, t), HasSlot, SameFetch, phase = "decode",
           UNCHANGED <<next_inst_addr, bytes_decoded, inst_cache, seen, faulted,
                       garbled, notExecutable>>, space' \in Spaces
    PROVE  TypeAndPath'
<1>1. /\ BufferTypes /\ DecoderTypes /\ OtherTypes /\ FetchInv /\ BufferIsPath
  BY DEF TypeAndPath, TypeInv
<1>2. dec' = NoDecoding /\ dec' \in Decodings /\ DecodeInv'
  BY NoDecodingFacts, FrontEndAssumption DEF InstructionEnd, DecodeInv
<1>3. PICK u \in Uops : window' = Append(window, u)
  <2>1. PICK f : f = IF x # "no" \/ next_inst_addr = t THEN x
                     ELSE "misprediction"
    OBVIOUS
  <2>2. window' = Append(window, [valid |-> ~mis, flush |-> f])
    BY <2>1 DEF InstructionEnd
  <2>3. [valid |-> ~mis, flush |-> f] \in Uops
    BY <2>1 DEF Uops
  <2> QED BY <2>2, <2>3
<1>4. pc' \in Addrs /\ mis' \in BOOLEAN
  BY <1>1 DEF InstructionEnd, DecoderTypes
<1>5. BufferTypes' /\ DecoderTypes'
  BY <1>1, <1>2, <1>4 DEF SameFetch, fetchVars, BufferTypes, DecoderTypes, IsTable
<1>6. OtherTypes'
  <2>1. window' \in Seq(Uops) /\ Len(window') <= Supply
    BY <1>1, <1>3, DispatchedFacts
  <2> QED BY <1>1, <1>4, <2>1 DEF SameFetch, OtherTypes
<1>7. to_fetch = 0
  BY <1>1, FrontEndAssumption DEF FetchInv, OtherTypes
<1>8. FetchInv' /\ BufferIsPath'
  BY <1>7, RingUntouched DEF SameFetch, fetchVars
<1> QED BY <1>2, <1>5, <1>6, <1>8 DEF TypeAndPath, TypeInv

\* What an instruction does at its end.
LEMMA EndFacts ==
    ASSUME TypeAndPath, Execute \/ RaiseFault
    PROVE  \E x \in {"no", "event", "return"}, t \in Addrs :
             /\ InstructionEnd(x, t)
             /\ space' \in Spaces /\ (x # "return" => UNCHANGED space)
             /\ mis => x # "return"
             /\ mis /\ Execute => x = "no" /\ t = pc
<1>1. pc \in Addrs /\ dec.addr \in Addrs /\ space \in Spaces
  BY DEF TypeAndPath, TypeInv, OtherTypes, DecoderTypes, Decodings
<1>2. CASE RaiseFault
  <2>1. InstructionEnd("event", pc) /\ UNCHANGED space /\ ~Execute
    BY <1>2 DEF RaiseFault, Execute
  <2> QED BY <2>1, <1>1
<1>3. CASE Execute /\ mis
  <2>1. InstructionEnd("no", pc) /\ UNCHANGED space
    BY <1>3 DEF Execute
  <2> QED BY <2>1, <1>1
<1>4. CASE Execute /\ ~mis
  <2>1. Runs
    BY <1>4 DEF Execute
  <2>2. Successors[space][dec.addr] \subseteq Addrs /\ Strays \subseteq Addrs
        /\ Resumes \subseteq Spaces \X Addrs
    BY <1>1, FrontEndAssumption
  <2>3. CASE \E target \in IF IsInstruction THEN Successors[space][dec.addr]
                           ELSE Strays :
               InstructionEnd("no", target) /\ UNCHANGED space
    BY <2>2, <2>3, <1>1, <1>4
  <2>4. CASE InstructionEnd("event", pc) /\ UNCHANGED space
    BY <2>4, <1>1, <1>4
  <2>5. CASE \E q \in Resumes : InstructionEnd("return", q[2]) /\ space' = q[1]
    <3>1. PICK q \in Resumes : InstructionEnd("return", q[2]) /\ space' = q[1]
      BY <2>5
    <3>2. q[1] \in Spaces /\ q[2] \in Addrs
      BY <2>2
    <3> QED BY <3>1, <3>2, <1>4
  <2> QED BY <2>1, <2>3, <2>4, <2>5 DEF Runs
<1> QED BY <1>2, <1>3, <1>4

\* The execution of an instruction, or of a fault that waited for its slot.
LEMMA ExecuteKeeps ==
    ASSUME TypeAndPath, Execute \/ RaiseFault
    PROVE  TypeAndPath'
<1>1. PICK x \in {"no", "event", "return"}, t \in Addrs :
        InstructionEnd(x, t) /\ space' \in Spaces
  BY EndFacts
<1>2. /\ HasSlot /\ SameFetch /\ phase = "decode"
      /\ UNCHANGED <<next_inst_addr, bytes_decoded, inst_cache, seen, faulted,
                     garbled, notExecutable>>
  BY DEF Execute, RaiseFault
<1> QED BY <1>1, <1>2, EndKeeps

\* A byte that is taken leaves the buffer.
LEMMA ByteTaken ==
    ASSUME TypeAndPath, MayTake, TakeByte, UNCHANGED to_fetch,
           phase = "decode"
    PROVE  /\ BufferTypes' /\ FetchInv' /\ BufferIsPath'
           /\ InBuffer' = InBuffer - 1 /\ InBuffer > 0
           /\ \A k \in Nat : At(k)' = At(1 + k)
<1>1. /\ BufferTypes /\ OtherTypes /\ FetchInv /\ BufferIsPath
  BY DEF TypeAndPath, TypeInv
<1>2. /\ Size \in Nat \ {0} /\ available \in 0 .. Size /\ InBuffer \in 0 .. Size
      /\ InBuffer > 0 /\ 1 \in 0 .. Size /\ 1 <= InBuffer
  BY <1>1, RingFacts DEF MayTake
<1>3. /\ UNCHANGED <<buffer, write_pos, spec_pc, disable_until_flush,
                     disable_due_to_cache_miss>>
      /\ read_pos' = Place(read_pos + 1) /\ available' = available + 1
  BY DEF TakeByte, Place
<1>4. /\ InBuffer' = InBuffer - 1
      /\ read_pos' \in 0 .. Size - 1 /\ available' \in 0 .. Size
      /\ \A k \in Nat : At(k)' = At(1 + k)
      /\ Place(read_pos' + InBuffer') = Place(read_pos + InBuffer)
      /\ BufferIsPath'
  BY <1>1, <1>2, <1>3, TakenFacts
<1>5. BufferTypes'
  BY <1>1, <1>3, <1>4 DEF BufferTypes
<1>6. FetchInv'
  <2>1. to_fetch = 0
    BY <1>1, FrontEndAssumption DEF FetchInv, OtherTypes
  <2>2. ~(to_fetch' > 0)
    BY <2>1
  <2>3. write_pos' = Place(read_pos' + InBuffer')
    BY <1>1, <1>3, <1>4 DEF FetchInv
  <2> QED BY <2>2, <2>3 DEF FetchInv, Place
<1> QED BY <1>2, <1>4, <1>5, <1>6

\* What GetByte takes.
LEMMA GotFacts ==
    ASSUME TypeAndPath, GetByte
    PROVE  \E a \in Addrs, b \in Bytes, c \in BOOLEAN :
             /\ a = HeadByte.vaddr
             /\ b = [space |-> HeadByte.space, addr |-> a]
             /\ c \in MayBeAll(Append(dec.got, b))
             /\ dec' = WithByte(b, a, c) /\ inst_cache' = Cached(b, a, c)
<1>1. HeadByte \in Elements
  BY RingFacts DEF TypeAndPath, TypeInv
<1>2. PICK a \in Addrs : a = HeadByte.vaddr
  BY <1>1 DEF Elements
<1>3. PICK b \in Bytes : b = [space |-> HeadByte.space, addr |-> a]
  BY <1>1 DEF Elements, Bytes
<1>4. PICK c \in MayBeAll(Append(dec.got, b)) :
        dec' = WithByte(b, a, c) /\ inst_cache' = Cached(b, a, c)
  BY <1>2, <1>3 DEF GetByte
<1>5. c \in BOOLEAN
  BY DEF MayBeAll
<1> QED BY <1>2, <1>3, <1>4, <1>5

\* Taking a byte: the buffer loses its first element and the path its first step.
LEMMA GetByteKeeps ==
    ASSUME TypeAndPath, GetByte
    PROVE  TypeAndPath'
<1>1. BufferTypes /\ DecoderTypes /\ OtherTypes /\ DecodeInv
  BY DEF TypeAndPath, TypeInv
<1>2. PICK a \in Addrs, b \in Bytes, c \in BOOLEAN :
        dec' = WithByte(b, a, c) /\ inst_cache' = Cached(b, a, c)
  BY GotFacts
<1>3. dec' \in Decodings /\ IsTable(inst_cache)' /\ DecodeInv'
  <2>1. dec.handler = "bytes"
    BY DEF GetByte
  <2>2. /\ IsTable(Cached(b, a, c)) /\ WithByte(b, a, c) \in Decodings
        /\ DecodesWith(WithByte(b, a, c), Cached(b, a, c))
    BY <1>1, <2>1, ByteFacts
  <2> QED BY <2>2, <1>2 DEF IsTable, DecodeInv
<1>4. next_inst_addr' \in Addrs /\ bytes_decoded' \in 0 .. MaxDecode
  <2>1. HeadByte \in Elements
    BY <1>1, RingFacts
  <2>2. bytes_decoded \in 0 .. MaxDecode /\ bytes_decoded < MaxDecode
    BY <1>1 DEF GetByte, MayTake, DecoderTypes
  <2> QED BY <2>1, <2>2, FrontEndAssumption DEF GetByte, Elements
<1>5. DecoderTypes' /\ OtherTypes'
  BY <1>1, <1>3, <1>4 DEF GetByte, DecoderTypes, OtherTypes
<1>6. BufferTypes' /\ FetchInv' /\ BufferIsPath'
  BY ByteTaken DEF GetByte
<1> QED BY <1>3, <1>5, <1>6 DEF TypeAndPath, TypeInv

\* Whatever the caller takes the byte of a fault for.
LEMMA TakeFaultKeeps ==
    ASSUME TypeAndPath, TakeFault
    PROVE  TypeAndPath'
<1>1. /\ BufferTypes /\ DecoderTypes /\ OtherTypes /\ DecodeInv
      /\ dec.handler = "bytes" /\ dec \in Decodings /\ IsTable(inst_cache)
  BY DEF TypeAndPath, TypeInv, TakeFault, DecoderTypes
<1>2. PICK a \in Addrs : a = HeadByte.vaddr
  BY <1>1, RingFacts DEF Elements
<1>3. \A c \in BOOLEAN :
        /\ IsTable(Cached(Garbage, a, c)) /\ WithByte(Garbage, a, c) \in Decodings
        /\ DecodesWith(WithByte(Garbage, a, c), Cached(Garbage, a, c))
  <2>1. Garbage \in Bytes
    BY FrontEndAssumption DEF Bytes, Garbage
  <2> QED BY <1>1, <2>1, ByteFacts
<1>4. NoDecoding \in Decodings /\ \A t : DecodesWith(NoDecoding, t)
  BY NoDecodingFacts, FrontEndAssumption
<1>5. AskAgain \/ GoOn(FALSE) \/ GoOn(TRUE)
  BY DEF TakeFault
<1>6. dec' \in Decodings /\ IsTable(inst_cache)' /\ DecodeInv'
  <2>1. CASE AskAgain
    <3>1. inst_cache' = Cached(Garbage, a, FALSE) \/ inst_cache' = inst_cache
      BY <2>1, <1>2 DEF AskAgain
    <3>2. IsTable(inst_cache)'
      BY <3>1, <1>1, <1>3 DEF IsTable
    <3>3. dec' \in Decodings /\ DecodeInv'
      <4>1. CASE HasSlot
        BY <4>1, <2>1, <1>4 DEF AskAgain, DecodeInv
      <4>2. CASE ~HasSlot
        <5>1. dec' = [dec EXCEPT !.handler = "allocate fault"]
          BY <4>2, <2>1 DEF AskAgain
        <5>2. dec' \in Decodings /\ dec'.handler = "allocate fault"
          BY <5>1, <1>1 DEF Decodings
        <5> QED BY <5>2 DEF DecodeInv, DecodesWith
      <4> QED BY <4>1, <4>2
    <3> QED BY <3>2, <3>3
  <2>2. CASE GoOn(FALSE) \/ GoOn(TRUE)
    <3>1. PICK c \in BOOLEAN : GoOn(c)
      BY <2>2
    <3>2. /\ inst_cache' = Cached(Garbage, a, c)
          /\ dec' = NoDecoding \/ dec' = WithByte(Garbage, a, c)
      BY <3>1, <1>2 DEF GoOn
    <3> QED BY <3>2, <1>3, <1>4 DEF IsTable, DecodeInv
  <2> QED BY <1>5, <2>1, <2>2
<1>7. window' \in Seq(Uops) /\ Len(window') <= Supply
  <2>1. CASE HasSlot
    <3>1. PICK u \in Uops : window' = Append(window, u)
      <4>1. \A v \in BOOLEAN : [valid |-> v, flush |-> "event"] \in Uops
        BY DEF Uops
      <4>2. \E v \in BOOLEAN :
              window' = Append(window, [valid |-> v, flush |-> "event"])
        BY <1>5, <2>1 DEF AskAgain, GoOn
      <4> QED BY <4>1, <4>2
    <3> QED BY <3>1, <2>1, <1>1, DispatchedFacts
  <2>2. CASE ~HasSlot
    BY <1>1, <1>5, <2>2 DEF AskAgain, GoOn, OtherTypes
  <2> QED BY <2>1, <2>2
<1>8. DecoderTypes' /\ OtherTypes'
  <2>1. mis' \in BOOLEAN /\ faulted' \in BOOLEAN /\ garbled' \in BOOLEAN
    BY DEF TakeFault
  <2> QED BY <1>1, <1>6, <1>7, <2>1 DEF TakeFault, DecoderTypes, OtherTypes
<1>9. BufferTypes' /\ FetchInv' /\ BufferIsPath'
  BY ByteTaken DEF TakeFault
<1> QED BY <1>6, <1>8, <1>9 DEF TypeAndPath, TypeInv

\* The bytes that are skipped: some of those in the buffer, unless it has none
\* or the decoder may take no more.
LEMMA SkippedFacts ==
    ASSUME TypeAndPath, Skip
    PROVE  \E n \in 0 .. Size, w \in Nat \ {0} :
             /\ w = Len(inst_cache[CacheIndex(dec.addr)].bytes) - dec.taken
             /\ n <= w /\ n <= InBuffer
             /\ LastSkipped(n) \in 0 .. Size - 1
             /\ n > 0 => LastSkipped(n) = Place(read_pos + (n - 1))
             /\ next_inst_addr' = buffer[LastSkipped(n)].next
             /\ read_pos' = Place(read_pos + n) /\ available' = available + n
             /\ dec' = [dec EXCEPT !.taken = @ + n,
                                   !.handler = IF n < w THEN "skip" ELSE "allocate"]
             /\ IF n < w THEN StopDecoding
                ELSE UNCHANGED <<phase, to_fetch, disable_due_to_cache_miss>>
             /\ ~garbled' => ~garbled /\ \A i \in 0 .. n - 1 : ~At(i).fault
<1>1. BufferTypes /\ DecoderTypes /\ DecodeInv /\ dec.handler = "skip"
  BY DEF TypeAndPath, TypeInv, Skip
<1>2. /\ Size \in Nat \ {0} /\ InBuffer \in 0 .. Size /\ read_pos \in 0 .. Size - 1
      /\ MaxDecode \in Nat \ {0} /\ Underflow \in 0 .. Size - 1
  BY <1>1, RingFacts, FrontEndAssumption
<1>3. PICK w \in Nat \ {0} :
        w = Len(inst_cache[CacheIndex(dec.addr)].bytes) - dec.taken
  <2>1. dec.addr \in Addrs /\ dec.taken \in Nat
    BY <1>1 DEF DecoderTypes, Decodings
  <2>2. /\ inst_cache[CacheIndex(dec.addr)] # NoInst
        /\ dec.taken < Len(inst_cache[CacheIndex(dec.addr)].bytes)
    BY <1>1 DEF DecodeInv, DecodesWith
  <2>3. inst_cache[CacheIndex(dec.addr)] \in Insts
    BY <1>1, <2>1, <2>2, CacheIndexType DEF DecoderTypes, IsTable
  <2>4. PICK m \in Nat : m = Len(inst_cache[CacheIndex(dec.addr)].bytes)
    BY <2>3 DEF Insts
  <2>5. m - dec.taken \in Nat \ {0}
    BY <2>1, <2>2, <2>4
  <2> QED BY <2>4, <2>5
<1>4. PICK l \in Nat : l = MaxDecode - bytes_decoded
  BY <1>1, <1>2 DEF DecoderTypes
<1> DEFINE asked == IF w < l THEN w ELSE l
<1>5. PICK n \in Nat : n = IF asked < InBuffer THEN asked ELSE InBuffer
  BY <1>2
<1>6. n \in 0 .. Size /\ n <= w /\ n <= InBuffer
  BY <1>2, <1>5
<1>7. /\ next_inst_addr' = buffer[LastSkipped(n)].next
      /\ read_pos' = Place(read_pos + n) /\ available' = available + n
      /\ dec' = [dec EXCEPT !.taken = @ + n,
                            !.handler = IF n < w THEN "skip" ELSE "allocate"]
      /\ IF n < w THEN StopDecoding
         ELSE UNCHANGED <<phase, to_fetch, disable_due_to_cache_miss>>
  BY <1>3, <1>4, <1>5 DEF Skip, Place
<1>10. ~garbled' => ~garbled /\ \A i \in 0 .. n - 1 : ~At(i).fault
  <2>1. garbled' = (garbled \/ \E i \in 0 .. n - 1 :
                                  buffer[(read_pos + i) % Size].fault)
    BY <1>3, <1>4, <1>5 DEF Skip
  <2> QED BY <2>1 DEF At, Place
<1> HIDE DEF asked
<1>8. CASE read_pos + n = 0
  <2>1. LastSkipped(n) = Underflow /\ n = 0
    BY <1>2, <1>8 DEF LastSkipped
  <2>2. LastSkipped(n) \in 0 .. Size - 1 /\ ~(n > 0)
    BY <2>1, <1>2
  <2> QED BY <2>2, <1>3, <1>6, <1>7, <1>10
<1>9. CASE read_pos + n # 0
  <2>1. PICK i \in Nat : i = read_pos + n - 1
    BY <1>2, <1>9
  <2>2. LastSkipped(n) = Place(i)
    BY <2>1, <1>9 DEF LastSkipped, Place
  <2>3. n > 0 => i = read_pos + (n - 1)
    BY <2>1, <1>2
  <2>4. LastSkipped(n) \in 0 .. Size - 1
    BY <2>2, PlaceType
  <2>5. n > 0 => LastSkipped(n) = Place(read_pos + (n - 1))
    BY <2>2, <2>3
  <2> QED BY <2>4, <2>5, <1>3, <1>6, <1>7, <1>10
<1> QED BY <1>8, <1>9

\* Skipping the bytes of a remembered instruction.
LEMMA SkipKeeps ==
    ASSUME TypeAndPath, Skip
    PROVE  TypeAndPath'
<1>1. /\ BufferTypes /\ DecoderTypes /\ OtherTypes /\ DecodeInv /\ FetchInv
      /\ BufferIsPath /\ dec.handler = "skip" /\ dec \in Decodings
      /\ phase = "decode"
  BY DEF TypeAndPath, TypeInv, DecoderTypes, Skip
<1>2. PICK n \in 0 .. Size, w \in Nat \ {0} :
        /\ w = Len(inst_cache[CacheIndex(dec.addr)].bytes) - dec.taken
        /\ n <= w /\ n <= InBuffer
        /\ LastSkipped(n) \in 0 .. Size - 1
        /\ next_inst_addr' = buffer[LastSkipped(n)].next
        /\ read_pos' = Place(read_pos + n) /\ available' = available + n
        /\ dec' = [dec EXCEPT !.taken = @ + n,
                              !.handler = IF n < w THEN "skip" ELSE "allocate"]
        /\ IF n < w THEN StopDecoding
           ELSE UNCHANGED <<phase, to_fetch, disable_due_to_cache_miss>>
  BY SkippedFacts
<1>3. UNCHANGED <<spec_pc, buffer, write_pos, disable_until_flush,
                  bytes_decoded, inst_cache, mis, seen, faulted,
                  notExecutable, pc, space, window>>
  BY DEF Skip
<1>4. /\ InBuffer' = InBuffer - n
      /\ read_pos' \in 0 .. Size - 1 /\ available' \in 0 .. Size
      /\ Place(read_pos' + InBuffer') = Place(read_pos + InBuffer)
      /\ BufferIsPath'
  BY <1>1, <1>2, <1>3, TakenFacts
<1>5. /\ to_fetch' \in 0 .. Width /\ phase' \in {"decode", "fetch"}
      /\ disable_due_to_cache_miss' \in 0 .. MaxMiss
      /\ to_fetch' > 0 =>
           phase' = "fetch" /\ ~disable_until_flush' /\ to_fetch' <= available'
  <2>1. CASE n < w
    <3>1. StopDecoding /\ UNCHANGED disable_until_flush
      BY <2>1, <1>2, <1>3
    <3> QED BY <3>1, <1>1, <1>4, StopFacts
  <2>2. CASE ~(n < w)
    <3>1. UNCHANGED <<phase, to_fetch, disable_due_to_cache_miss>>
      BY <2>2, <1>2
    <3>2. to_fetch = 0
      BY <1>1, FrontEndAssumption DEF FetchInv, OtherTypes
    <3> QED BY <3>1, <3>2, <1>1, FrontEndAssumption DEF OtherTypes, BufferTypes
  <2> QED BY <2>1, <2>2
<1>6. dec' \in Decodings /\ DecodeInv'
  <2>1. PICK t \in Nat : t = dec.taken
    BY <1>1 DEF Decodings
  <2>2. PICK h : h = IF n < w THEN "skip" ELSE "allocate"
    OBVIOUS
  <2>3. dec' = [dec EXCEPT !.taken = t + n, !.handler = h]
    BY <1>2, <2>1, <2>2
  <2>4. dec' \in Decodings /\ dec'.taken = t + n /\ dec'.addr = dec.addr
        /\ dec'.handler = h
    <3>1. PICK m \in Nat : m = t + n
      BY <2>1
    <3>2. h \in {"skip", "allocate"}
      BY <2>2
    <3>3. dec' = [dec EXCEPT !.taken = m, !.handler = h]
      BY <2>3, <3>1
    <3> QED BY <3>1, <3>2, <3>3, <1>1 DEF Decodings
  <2>5. ASSUME h = "skip"
        PROVE  LET e == inst_cache'[CacheIndex(dec'.addr)] IN
               e # NoInst /\ e.vaddr = dec'.addr /\ dec'.taken < Len(e.bytes)
    <3>1. PICK e : e = inst_cache[CacheIndex(dec.addr)]
      OBVIOUS
    <3>2. e # NoInst /\ e.vaddr = dec.addr
      BY <3>1, <1>1 DEF DecodeInv, DecodesWith
    <3>3. e \in Insts
      BY <3>1, <3>2, <1>1, CacheIndexType DEF Decodings, DecoderTypes, IsTable
    <3>4. Len(e.bytes) \in Nat
      BY <3>3 DEF Insts
    <3>5. t + n < Len(e.bytes)
      BY <3>1, <3>4, <2>1, <2>2, <2>5, <1>2
    <3>6. inst_cache'[CacheIndex(dec'.addr)] = e
      BY <3>1, <2>4, <1>3
    <3> QED BY <3>2, <3>5, <3>6, <2>4
  <2>6. dec'.handler # "idle" /\ dec'.handler # "bytes"
    BY <2>2, <2>4
  <2> QED BY <2>4, <2>5, <2>6 DEF DecodeInv, DecodesWith, CacheIndex
<1>7. DecoderTypes'
  <2>1. next_inst_addr' \in Addrs
    BY <1>1, <1>2 DEF BufferTypes, Elements
  <2>2. garbled' \in BOOLEAN
    BY <1>1 DEF Skip, DecoderTypes
  <2> QED BY <2>1, <2>2, <1>1, <1>3, <1>6 DEF DecoderTypes, IsTable
<1>8. BufferTypes' /\ OtherTypes'
  BY <1>1, <1>3, <1>4, <1>5 DEF BufferTypes, OtherTypes
<1>9. FetchInv'
  <2>1. write_pos' = Place(read_pos' + InBuffer')
    BY <1>1, <1>3, <1>4 DEF FetchInv
  <2> QED BY <2>1, <1>5 DEF FetchInv, Place
<1> QED BY <1>4, <1>6, <1>7, <1>8, <1>9 DEF TypeAndPath, TypeInv

\* A byte that is fetched continues the path.
LEMMA FetchFacts ==
    ASSUME TypeAndPath, FetchByte
    PROVE  \E e \in Elements :
             /\ buffer' = [buffer EXCEPT ![write_pos] = e]
             /\ e.vaddr = spec_pc /\ spec_pc' \in Addrs
             /\ IF e.fault THEN /\ to_fetch' = 0 /\ disable_until_flush'
                                /\ spec_pc' = spec_pc
                ELSE /\ e.next = spec_pc' /\ UNCHANGED disable_until_flush
                     /\ to_fetch' = 0 \/ to_fetch' = to_fetch - 1
                     /\ e.space = space /\ Follows(spec_pc, e.next)
<1>1. /\ buffer \in [0 .. Size - 1 -> Elements] /\ write_pos \in 0 .. Size - 1
      /\ spec_pc \in Addrs /\ buffer[write_pos] \in Elements
      /\ space \in Spaces
  BY DEF TypeAndPath, TypeInv, BufferTypes, OtherTypes
<1>2. CASE space # KernelSpace /\ spec_pc \in notExecutable
  <2>1. PICK x \in Addrs, q \in Spaces :
          x = buffer[write_pos].next /\ q = buffer[write_pos].space
    BY <1>1 DEF Elements
  <2>2. PICK e \in Elements :
          e = [space |-> q, vaddr |-> spec_pc, next |-> x, fault |-> TRUE]
    BY <1>1 DEF Elements
  <2>3. buffer[write_pos] = [space |-> q, vaddr |-> buffer[write_pos].vaddr,
                             next |-> x, fault |-> buffer[write_pos].fault]
    BY <1>1, <2>1 DEF Elements
  <2>4. buffer' = [buffer EXCEPT ![write_pos] = e]
    BY <1>1, <1>2, <2>2, <2>3 DEF FetchByte
  <2>5. /\ e.vaddr = spec_pc /\ e.fault /\ disable_until_flush' /\ to_fetch' = 0
        /\ spec_pc' = spec_pc
    BY <1>2, <2>2 DEF FetchByte
  <2> QED BY <1>1, <2>4, <2>5
<1>3. CASE ~(space # KernelSpace /\ spec_pc \in notExecutable)
  <2>1. PICK x : /\ x \in Addrs /\ spec_pc' = x /\ Follows(spec_pc, x)
                 /\ buffer' = [buffer EXCEPT ![write_pos] =
                        [space |-> space, vaddr |-> spec_pc, next |-> x,
                         fault |-> FALSE]]
                 /\ UNCHANGED disable_until_flush
                 /\ to_fetch' = 0 \/ to_fetch' = to_fetch - 1
    <3>1. After(spec_pc) \in Addrs
      <4>1. spec_pc + 1 \in Nat /\ AddrCount \in Nat \ {0}
        BY <1>1, FrontEndAssumption DEF Addrs
      <4> QED BY <4>1, RemainderOfSum DEF After, Addrs
    <3>2. \A x \in {p[2] : p \in {q \in Predictable : q[1] = spec_pc}} :
            x \in Addrs /\ <<spec_pc, x>> \in Predictable
      <4>1. ASSUME NEW q \in Predictable, q[1] = spec_pc
            PROVE  q[2] \in Addrs /\ <<spec_pc, q[2]>> \in Predictable
        <5>1. q \in Addrs \X Addrs
          BY FrontEndAssumption
        <5>2. q = <<q[1], q[2]>> /\ q[2] \in Addrs
          BY <5>1
        <5> QED BY <4>1, <5>2
      <4> QED BY <4>1
    <3>3. CASE /\ spec_pc' = After(spec_pc)
               /\ buffer' = [buffer EXCEPT ![write_pos] =
                      [space |-> space, vaddr |-> spec_pc,
                       next |-> After(spec_pc), fault |-> FALSE]]
               /\ to_fetch' = to_fetch - 1
               /\ UNCHANGED disable_until_flush
      BY <3>1, <3>3 DEF Follows
    <3>4. CASE /\ \E x \in {p[2] : p \in {q \in Predictable : q[1] = spec_pc}} :
                    /\ spec_pc' = x
                    /\ buffer' = [buffer EXCEPT ![write_pos] =
                           [space |-> space, vaddr |-> spec_pc, next |-> x,
                            fault |-> FALSE]]
               /\ to_fetch' = 0
               /\ UNCHANGED disable_until_flush
      BY <3>2, <3>4 DEF Follows
    <3> QED BY <1>3, <3>3, <3>4 DEF FetchByte
  <2>2. PICK e \in Elements :
          e = [space |-> space, vaddr |-> spec_pc, next |-> x, fault |-> FALSE]
    BY <1>1, <2>1 DEF Elements
  <2> QED BY <2>1, <2>2
<1> QED BY <1>2, <1>3

\* Fetching a byte: the path grows by the successor of its last address.
LEMMA FetchByteKeeps ==
    ASSUME TypeAndPath, FetchByte
    PROVE  TypeAndPath'
<1>1. /\ BufferTypes /\ DecoderTypes /\ OtherTypes /\ DecodeInv /\ FetchInv
      /\ BufferIsPath /\ phase = "fetch" /\ to_fetch > 0
  BY DEF TypeAndPath, TypeInv, FetchByte
<1>2. PICK e \in Elements :
        /\ buffer' = [buffer EXCEPT ![write_pos] = e]
        /\ e.vaddr = spec_pc /\ spec_pc' \in Addrs
        /\ IF e.fault THEN /\ to_fetch' = 0
                           /\ disable_until_flush' /\ spec_pc' = spec_pc
           ELSE /\ e.next = spec_pc' /\ UNCHANGED disable_until_flush
                /\ to_fetch' = 0 \/ to_fetch' = to_fetch - 1
  BY FetchFacts
<1>3. /\ to_fetch \in 0 .. Width /\ to_fetch <= available /\ ~disable_until_flush
      /\ available \in 0 .. Size /\ Size \in Nat \ {0} /\ Width \in Nat
      /\ available > 0 /\ write_pos = Place(read_pos + InBuffer)
  BY <1>1, FrontEndAssumption DEF OtherTypes, FetchInv, BufferTypes
<1>4. /\ read_pos' = read_pos /\ available' = available - 1
      /\ write_pos' = Place(write_pos + 1)
      /\ UNCHANGED <<decodeVars, notExecutable, pc, space, window, phase>>
  BY DEF FetchByte, Place
<1>5. /\ InBuffer' = InBuffer + 1
      /\ available' \in 0 .. Size /\ write_pos' \in 0 .. Size - 1
      /\ \A k \in 0 .. InBuffer - 1 : At(k)' = At(k)
      /\ \A k \in Nat : k = InBuffer => At(k)' = e
      /\ write_pos' = Place(read_pos' + InBuffer')
  BY <1>1, <1>2, <1>3, <1>4, PutFacts
<1>6. PICK m \in Nat : m = InBuffer
  BY <1>1, RingFacts
<1>7. BufferIsPath'
  <2>1. ASSUME NEW k \in 0 .. m PROVE PathAt(k)'
    <3>1. CASE k = m
      <4>1. At(k)' = e /\ k = InBuffer' - 1
        BY <3>1, <1>5, <1>6
      <4> QED BY <4>1, <1>2 DEF PathAt
    <3>2. CASE k # m
      <4>1. k \in 0 .. m - 1 /\ k \in 0 .. InBuffer - 1 /\ k # InBuffer' - 1
            /\ k + 1 \in 0 .. m
        BY <3>2, <1>5, <1>6
      <4>2. PathAt(k) /\ At(k)' = At(k)
        BY <4>1, <1>1, <1>5, PathIs
      <4>3. ~At(k).fault
        BY <4>2, <1>3 DEF PathAt
      <4>4. At(k).next = IF k = m - 1 THEN spec_pc ELSE At(k + 1).vaddr
        BY <4>2, <4>3, <1>6 DEF PathAt
      <4>5. CASE k = m - 1
        <5>1. At(k + 1)' = e
          <6>1. k + 1 \in Nat /\ k + 1 = InBuffer
            BY <4>5, <1>6
          <6> QED BY <6>1, <1>5
        <5> QED BY <4>1, <4>2, <4>3, <4>4, <4>5, <5>1, <1>2 DEF PathAt
      <4>6. CASE k # m - 1
        <5>1. At(k + 1)' = At(k + 1)
          <6>1. k + 1 \in 0 .. InBuffer - 1
            BY <4>1, <4>6, <1>6
          <6> QED BY <6>1, <1>5
        <5> QED BY <4>1, <4>2, <4>3, <4>4, <4>6, <5>1 DEF PathAt
      <4> QED BY <4>5, <4>6
    <3> QED BY <3>1, <3>2
  <2>2. InBuffer' - 1 = m
    BY <1>5, <1>6
  <2> QED BY <2>1, <2>2, PathNextIs
<1>8. BufferTypes'
  <2>1. disable_until_flush' \in BOOLEAN
    BY <1>1, <1>2 DEF BufferTypes
  <2>2. disable_due_to_cache_miss' \in 0 .. MaxMiss
    BY <1>1 DEF FetchByte, BufferTypes
  <2>3. buffer' \in [0 .. Size - 1 -> Elements]
    BY <1>1, <1>2 DEF BufferTypes
  <2>4. read_pos' \in 0 .. Size - 1
    BY <1>1, <1>4 DEF BufferTypes
  <2> QED BY <1>2, <1>5, <2>1, <2>2, <2>3, <2>4 DEF BufferTypes
<1>9. DecoderTypes' /\ DecodeInv'
  BY <1>1, <1>4 DEF decodeVars, DecoderTypes, IsTable, DecodeInv
<1>10. OtherTypes'
  <2>1. to_fetch' \in 0 .. Width
    BY <1>2, <1>3, <1>1
  <2> QED BY <1>1, <1>4, <2>1 DEF OtherTypes
<1>11. FetchInv'
  <2>1. to_fetch' > 0 =>
          phase' = "fetch" /\ ~disable_until_flush' /\ to_fetch' <= available'
    <3>1. CASE e.fault
      BY <3>1, <1>2
    <3>2. CASE ~e.fault
      BY <3>2, <1>1, <1>2, <1>3, <1>4
    <3> QED BY <3>1, <3>2
  <2> QED BY <2>1, <1>5 DEF FetchInv, Place
<1> QED BY <1>7, <1>8, <1>9, <1>10, <1>11 DEF TypeAndPath, TypeInv

\* The end of the fetch.
LEMMA FetchEndKeeps ==
    ASSUME TypeAndPath, FetchDone
    PROVE  TypeAndPath'
<1>1. /\ BufferTypes /\ DecoderTypes /\ OtherTypes /\ DecodeInv
      /\ to_fetch = 0
  BY DEF TypeAndPath, TypeInv, FetchDone
<1>2. BufferTypes' /\ DecoderTypes' /\ OtherTypes' /\ DecodeInv'
  BY <1>1 DEF FetchDone, fetchVars, decodeVars, BufferTypes,
    DecoderTypes, IsTable, OtherTypes, DecodeInv
<1>3. FetchInv' /\ BufferIsPath'
  BY <1>1, RingUntouched DEF FetchDone, fetchVars
<1> QED BY <1>2, <1>3 DEF TypeAndPath, TypeInv

\* The empty front end.
LEMMA InitTypeAndPath == Init => TypeAndPath
<1> SUFFICES ASSUME Init PROVE TypeAndPath
  OBVIOUS
<1>1. /\ 0 \in Addrs /\ 0 \in 0 .. Size - 1 /\ Size \in 0 .. Size
      /\ 0 \in 0 .. MaxMiss /\ 0 \in 0 .. Width /\ 0 \in 0 .. MaxDecode
      /\ Supply \in Nat /\ KernelSpace \in Spaces
  BY FrontEndAssumption DEF Addrs
<1>2. pc \in Addrs /\ spec_pc \in Addrs
  BY DEF Init
<1>3. BufferTypes
  BY <1>1, <1>2 DEF Init, BufferTypes, Elements
<1>4. DecoderTypes /\ DecodeInv
  <2>1. IsTable(inst_cache)
    BY DEF Init, EmptyCache, IsTable
  <2>2. dec \in Decodings /\ DecodeInv
    BY NoDecodingFacts, FrontEndAssumption DEF Init, DecodeInv
  <2> QED BY <1>1, <2>1, <2>2 DEF Init, DecoderTypes
<1>5. OtherTypes
  <2>1. window = <<>> /\ Len(<<>>) = 0
    BY DEF Init
  <2> QED BY <1>1, <1>2, <2>1 DEF Init, OtherTypes
<1>6. InBuffer = 0
  BY <1>1, FrontEndAssumption DEF Init, InBuffer
<1>7. FetchInv
  <2>1. Place(0) = 0
    BY <1>1, PlaceOfSmall
  <2> QED BY <1>6, <2>1 DEF Init, FetchInv
<1>8. BufferIsPath
  BY <1>6 DEF BufferIsPath
<1> QED BY <1>3, <1>4, <1>5, <1>7, <1>8 DEF TypeAndPath, TypeInv

\* Every step.
LEMMA NextTypeAndPath == TypeAndPath /\ [Next]_vars => TypeAndPath'
<1> SUFFICES ASSUME TypeAndPath, [Next]_vars PROVE TypeAndPath'
  OBVIOUS
<1>1. CASE CommitUop \/ CommitDone
  BY <1>1, CommitKeeps
<1>2. CASE DecodeStart \/ NoByte \/ NoSlot
  BY <1>2, WaitKeeps
<1>3. CASE GetByte
  BY <1>3, GetByteKeeps
<1>4. CASE Skip
  BY <1>4, SkipKeeps
<1>5. CASE Execute \/ RaiseFault
  BY <1>5, ExecuteKeeps
<1>6. CASE TakeFault
  BY <1>6, TakeFaultKeeps
<1>7. CASE FetchByte
  BY <1>7, FetchByteKeeps
<1>8. CASE FetchDone
  BY <1>8, FetchEndKeeps
<1>10. CASE CommitFlush \/ ExternalInterrupt
  BY <1>10, FlushKeeps
<1>9. CASE UNCHANGED vars
  <2>1. BufferTypes' /\ DecoderTypes' /\ OtherTypes' /\ DecodeInv'
    BY <1>9 DEF vars, fetchVars, decodeVars, TypeAndPath, TypeInv, BufferTypes,
      DecoderTypes, IsTable, OtherTypes, DecodeInv
  <2>2. FetchInv' /\ BufferIsPath'
    <3>1. to_fetch > 0 =>
            phase = "fetch" /\ ~disable_until_flush /\ to_fetch <= available
      BY DEF TypeAndPath, FetchInv
    <3> QED BY <3>1, <1>9, RingUntouched DEF vars, fetchVars
  <2> QED BY <2>1, <2>2 DEF TypeAndPath, TypeInv
<1> QED BY <1>1, <1>2, <1>3, <1>4, <1>5, <1>6, <1>7, <1>8, <1>9, <1>10
     DEF Next, Commit, Decode, Fetch

\* The types and the path hold in every behaviour.
LEMMA TypeAndPathHolds == Spec => []TypeAndPath
BY InitTypeAndPath, NextTypeAndPath, PTL DEF Spec

\* Every variable keeps its type: the positions stay in the buffer, the fetch
\* never gets more room than there is, the window never holds more than the
\* slots, and each decoded instruction is at the index of its address.
THEOREM TypeCorrect == Spec => []TypeOK
<1>1. TypeAndPath => TypeOK
  <2> SUFFICES ASSUME TypeAndPath PROVE TypeOK
    OBVIOUS
  <2>1. \A k \in DOMAIN window : window[k] \in Uops
    BY DEF TypeAndPath, TypeInv, OtherTypes
  <2> QED BY <2>1 DEF TypeAndPath, TypeInv, BufferTypes, DecoderTypes, OtherTypes,
       IsTable, Decodings, TypeOK
<1> QED BY <1>1, TypeAndPathHolds, PTL

\* The buffer always holds one path, from the byte the decoder will get to
\* where the fetch goes on, and a fault ends it.
THEOREM BufferIsPathHolds == Spec => []BufferIsPath
<1>1. TypeAndPath => BufferIsPath
  BY DEF TypeAndPath
<1> QED BY <1>1, TypeAndPathHolds, PTL

-----------------------------------------------------------------------------
\* The address that is compared.

\* The next byte is the first one of the buffer.
LEMMA NextFetchedIs ==
    ASSUME BufferTypes
    PROVE  NextFetched = IF InBuffer = 0 THEN spec_pc ELSE At(0).vaddr
BY RingFacts DEF NextFetched

\* The address that will be taken next, after a step, by position 0.
LEMMA NextFetchedNext ==
    ASSUME BufferTypes'
    PROVE  NextFetched' = IF InBuffer' = 0 THEN spec_pc' ELSE At(0)'.vaddr
<1>1. read_pos' \in 0 .. Size - 1 /\ Size \in Nat \ {0}
  BY FrontEndAssumption DEF BufferTypes
<1>2. Place(read_pos' + 0) = read_pos'
  <2>1. PICK r \in 0 .. Size - 1 : r = read_pos'
    BY <1>1
  <2>2. Place(r) = r /\ r + 0 = r
    BY <1>1, PlaceOfSmall
  <2> QED BY <2>1, <2>2
<1>3. At(0)' = buffer'[Place(read_pos' + 0)]
  BY DEF At, Place
<1>4. At(0)' = HeadByte'
  BY <1>2, <1>3 DEF HeadByte
<1> QED BY <1>4 DEF NextFetched

\* After n bytes are taken the next one is that which the last of them names.
LEMMA NextAfterTaken ==
    ASSUME BufferTypes, BufferTypes', BufferIsPath, NEW n \in Nat \ {0},
           n <= InBuffer, ~At(n - 1).fault, UNCHANGED spec_pc,
           InBuffer' = InBuffer - n, At(0)' = At(n)
    PROVE  NextFetched' = At(n - 1).next
<1>1. PICK m \in Nat : m = InBuffer
  BY RingFacts
<1>2. n - 1 \in 0 .. InBuffer - 1 /\ n - 1 + 1 = n
  BY <1>1
<1>3. At(n - 1).next = IF n - 1 = InBuffer - 1 THEN spec_pc ELSE At(n).vaddr
  BY <1>2, PathIs DEF PathAt
<1>4. n - 1 = InBuffer - 1 <=> InBuffer' = 0
  BY <1>1
<1> QED BY <1>3, <1>4, NextFetchedNext

\* What a fetch does to the buffer.
LEMMA FetchedFacts ==
    ASSUME TypeAndPath, FetchByte
    PROVE  \E e \in Elements, m \in Nat :
             /\ m = InBuffer /\ InBuffer' = m + 1
             /\ \A k \in 0 .. m - 1 : At(k)' = At(k)
             /\ At(m)' = e
             /\ e.vaddr = spec_pc
             /\ ~e.fault => e.space = space /\ Follows(spec_pc, e.next)
<1>1. /\ BufferTypes /\ FetchInv /\ OtherTypes /\ to_fetch > 0
  BY DEF TypeAndPath, TypeInv, FetchByte
<1>2. PICK e \in Elements :
        /\ buffer' = [buffer EXCEPT ![write_pos] = e] /\ e.vaddr = spec_pc
        /\ ~e.fault => e.space = space /\ Follows(spec_pc, e.next)
  BY FetchFacts
<1>3. available > 0 /\ write_pos = Place(read_pos + InBuffer)
  BY <1>1, FrontEndAssumption DEF FetchInv, BufferTypes, OtherTypes
<1>4. /\ read_pos' = read_pos /\ available' = available - 1
      /\ write_pos' = Place(write_pos + 1)
  BY DEF FetchByte, Place
<1>5. /\ InBuffer' = InBuffer + 1
      /\ \A k \in 0 .. InBuffer - 1 : At(k)' = At(k)
      /\ \A k \in Nat : k = InBuffer => At(k)' = e
  BY <1>1, <1>2, <1>3, <1>4, PutFacts
<1>6. PICK m \in Nat : m = InBuffer
  BY <1>1, RingFacts
<1> QED BY <1>2, <1>5, <1>6

\* Fetching a byte leaves the address that will be taken next.
LEMMA NextFetchedKept ==
    ASSUME TypeAndPath, FetchByte
    PROVE  NextFetched' = NextFetched
<1>1. BufferTypes /\ BufferTypes'
  BY FetchByteKeeps DEF TypeAndPath, TypeInv
<1>2. PICK e \in Elements, m \in Nat :
        /\ m = InBuffer /\ InBuffer' = m + 1
        /\ \A k \in 0 .. m - 1 : At(k)' = At(k)
        /\ At(m)' = e /\ e.vaddr = spec_pc
  BY FetchedFacts
<1>3. NextFetched' = At(0)'.vaddr
  BY <1>1, <1>2, NextFetchedNext
<1>4. CASE m = 0
  BY <1>1, <1>2, <1>3, <1>4, NextFetchedIs
<1>5. CASE m # 0
  <2>1. 0 \in 0 .. m - 1
    BY <1>5
  <2> QED BY <1>1, <1>2, <1>3, <1>5, <2>1, NextFetchedIs
<1> QED BY <1>4, <1>5

\* A flush goes on at the pc, whatever was before.
LEMMA FlushKeepsPath ==
    ASSUME TypeAndPath, CommitFlush \/ ExternalInterrupt
    PROVE  RightPath'
<1>1. PICK t \in Addrs :
        /\ FlushFrontEnd(t)
        /\ UNCHANGED <<notExecutable, to_fetch>> /\ to_fetch = 0
        /\ phase' \in {"commit", "decode", "fetch"} /\ space' \in Spaces
        /\ UNCHANGED <<inst_cache, garbled>> \/ ClearCache
  <2>1. ASSUME UNCHANGED <<space, inst_cache, garbled>>
        PROVE  UNCHANGED <<inst_cache, garbled>>
    BY <2>1
  <2> QED BY <2>1, FlushKinds
<1>2. NextFetched' = t /\ pc' = t
  BY <1>1, FlushFacts
<1>3. dec' = NoDecoding /\ mis' = FALSE /\ seen' = FALSE
  BY <1>1 DEF FlushFrontEnd
<1>4. dec'.got = <<>> /\ dec'.handler = "idle"
  BY <1>3, NoDecodingFacts
<1> QED BY <1>2, <1>3, <1>4 DEF RightPath, Decoding

\* The steps that change nothing the path is about.
LEMMA SamePath ==
    ASSUME TypeAndPath, RightPath,
           UNCHANGED <<buffer, read_pos, available, spec_pc,
                       disable_until_flush, dec, seen, mis, pc, next_inst_addr>>
    PROVE  RightPath'
<1>1. NextFetched' = NextFetched
  BY RingKept DEF TypeAndPath
<1> QED BY <1>1 DEF RightPath, Decoding

\* A byte that is taken leaves the decoder at its address and the next one where
\* the byte says.
LEMMA GetByteKeepsPath ==
    ASSUME TypeAndPath, RightPath, GetByte
    PROVE  RightPath'
<1>1. BufferTypes /\ BufferTypes' /\ BufferIsPath /\ Decoding
  BY GetByteKeeps DEF TypeAndPath, TypeInv, RightPath
<1>2. InBuffer' = InBuffer - 1 /\ InBuffer > 0 /\ \A k \in Nat : At(k)' = At(1 + k)
  BY ByteTaken DEF GetByte
<1>3. NextFetched' = HeadByte.next /\ NextFetched = HeadByte.vaddr
  <2>1. InBuffer \in 0 .. Size /\ Size \in Nat
    BY <1>1, RingFacts
  <2>2. At(0)' = At(1)
    BY <1>2
  <2>3. 1 \in Nat \ {0} /\ 1 - 1 = 0 /\ 1 <= InBuffer /\ InBuffer # 0
    BY <1>2, <2>1
  <2>4. ~At(0).fault
    BY <1>1, RingFacts DEF GetByte
  <2>5. UNCHANGED spec_pc
    BY DEF GetByte, TakeByte
  <2>6. NextFetched' = At(0).next
    BY <1>1, <1>2, <2>2, <2>3, <2>4, <2>5, NextAfterTaken
  <2> QED BY <2>3, <2>6, <1>1, NextFetchedIs, RingFacts
<1>4. PICK a \in Addrs, b \in Bytes, c \in BOOLEAN :
        a = HeadByte.vaddr /\ dec' = WithByte(b, a, c)
  BY GotFacts
<1>5. /\ dec'.got # <<>> /\ dec'.addr = IF dec.got = <<>> THEN a ELSE dec.addr
      /\ dec'.handler \in {"bytes", "skip", "allocate"}
  <2>1. dec.got \in Seq(Bytes)
    BY DEF TypeAndPath, TypeInv, DecoderTypes, Decodings
  <2>2. Append(dec.got, b) # <<>>
    BY <2>1
  <2> QED BY <2>2, <1>4 DEF WithByte
<1>6. /\ seen' = TRUE /\ next_inst_addr' = HeadByte.next
      /\ UNCHANGED <<mis, pc>>
  BY DEF GetByte, TakeByte
<1>7. Decoding'
  BY <1>1, <1>5, <1>6 DEF Decoding
<1> QED BY <1>3, <1>4, <1>5, <1>6, <1>7 DEF RightPath

\* The bytes that are skipped leave the next one where the last of them says.
LEMMA SkipKeepsPath ==
    ASSUME TypeAndPath, RightPath, Skip, ~garbled'
    PROVE  RightPath'
<1>1. /\ BufferTypes /\ BufferTypes' /\ BufferIsPath /\ Decoding
      /\ dec.handler = "skip" /\ dec.got # <<>> /\ dec \in Decodings
  BY SkipKeeps DEF TypeAndPath, TypeInv, DecoderTypes, RightPath, Decoding, Skip
<1>2. PICK n \in 0 .. Size, w \in Nat \ {0} :
        /\ n <= w /\ n <= InBuffer
        /\ n > 0 => LastSkipped(n) = Place(read_pos + (n - 1))
        /\ next_inst_addr' = buffer[LastSkipped(n)].next
        /\ read_pos' = Place(read_pos + n) /\ available' = available + n
        /\ dec' = [dec EXCEPT !.taken = @ + n,
                              !.handler = IF n < w THEN "skip" ELSE "allocate"]
        /\ \A i \in 0 .. n - 1 : ~At(i).fault
  BY SkippedFacts
<1>3. UNCHANGED <<spec_pc, buffer, write_pos, disable_until_flush, mis, seen, pc>>
  BY DEF Skip
<1>4. /\ dec'.got = dec.got /\ dec'.addr = dec.addr
      /\ dec'.handler = IF n < w THEN "skip" ELSE "allocate"
  BY <1>1, <1>2 DEF Decodings
<1>5. InBuffer' = InBuffer - n /\ \A k \in Nat : At(k)' = At(n + k)
  BY <1>1, <1>2, <1>3, TakenFacts
<1>6. ASSUME dec'.handler # "skip" PROVE next_inst_addr' = NextFetched'
  <2>1. ~(n < w)
    BY <1>4, <1>6
  <2>2. n \in Nat \ {0} /\ n > 0 /\ n - 1 \in Nat
    BY <2>1, <1>2, FrontEndAssumption
  <2>3. next_inst_addr' = At(n - 1).next
    BY <1>2, <2>2 DEF At
  <2>4. ~At(n - 1).fault
    <3>1. n - 1 \in 0 .. n - 1
      BY <2>2
    <3> QED BY <3>1, <1>2
  <2>5. At(0)' = At(n)
    <3>1. n + 0 = n
      BY <2>2
    <3> QED BY <1>5, <3>1
  <2>6. NextFetched' = At(n - 1).next
    BY <1>1, <1>2, <1>3, <1>5, <2>2, <2>4, <2>5, NextAfterTaken
  <2> QED BY <2>3, <2>6
<1>7. Decoding'
  BY <1>1, <1>3, <1>4 DEF Decoding
<1>8. ~mis' => dec'.addr = pc'
  BY <1>1, <1>3, <1>4 DEF RightPath
<1> QED BY <1>1, <1>4, <1>6, <1>7, <1>8 DEF RightPath

\* An instruction ends on the path of the pc, or execution is disabled.
LEMMA ExecuteKeepsPath ==
    ASSUME TypeAndPath, RightPath, Execute \/ RaiseFault
    PROVE  RightPath'
<1>1. Execute
  BY DEF RaiseFault, RightPath, Decoding
<1>2. dec.handler = "allocate" /\ seen /\ next_inst_addr = NextFetched
  BY <1>1 DEF Execute, RightPath, Decoding
<1>3. PICK x \in {"no", "event", "return"}, t \in Addrs : InstructionEnd(x, t)
  BY EndFacts
<1>4. UNCHANGED <<buffer, read_pos, available, spec_pc, disable_until_flush,
                  next_inst_addr, seen>>
  BY <1>1 DEF Execute, SameFetch, fetchVars
<1>5. NextFetched' = NextFetched
  BY <1>4, RingKept DEF TypeAndPath
<1>6. dec'.got = <<>> /\ dec'.handler = "idle"
  BY <1>3, NoDecodingFacts DEF InstructionEnd
<1>7. ~mis' => NextFetched' = pc'
  BY <1>2, <1>3, <1>5 DEF InstructionEnd
<1> QED BY <1>2, <1>4, <1>5, <1>6, <1>7 DEF RightPath, Decoding

\* At the start.
LEMMA InitFresh == Init => FreshInv
<1> SUFFICES ASSUME Init PROVE RightPath
  BY DEF FreshInv
<1>1. InBuffer = 0
  BY FrontEndAssumption DEF Init, InBuffer
<1>2. dec.got = <<>> /\ dec.handler = "idle" /\ seen = FALSE
  BY NoDecodingFacts DEF Init
<1>3. NextFetched = pc
  BY <1>1 DEF Init, NextFetched
<1> QED BY <1>2, <1>3 DEF RightPath, Decoding

\* Nothing but a flush makes the decoder forget a fault.
LEMMA GarbledStays ==
    ASSUME TypeAndPath, [Next]_vars, ~(CommitFlush \/ ExternalInterrupt),
           ~garbled'
    PROVE  ~garbled /\ ~TakeFault
<1>1. CASE TakeFault
  BY <1>1 DEF TakeFault
<1>2. CASE Skip
  BY <1>2, SkippedFacts DEF Skip, TakeFault
<1>3. CASE ~TakeFault /\ ~Skip
  <2>1. UNCHANGED garbled
    BY <1>3 DEF Next, Commit, Decode, Fetch, CommitUop, CommitDone,
      DecodeStart, NoByte, GetByte, NoSlot, Execute, RaiseFault, FetchByte,
      FetchDone, vars, decodeVars
  <2> QED BY <2>1, <1>3
<1> QED BY <1>1, <1>2, <1>3

\* Every step keeps the decoder on the path of the pc.
LEMMA NextFresh == TypeAndPath /\ FreshInv /\ [Next]_vars => FreshInv'
<1> SUFFICES ASSUME TypeAndPath, FreshInv, [Next]_vars, ~garbled'
             PROVE  RightPath'
  BY DEF FreshInv
<1>1. CASE CommitFlush \/ ExternalInterrupt
  BY <1>1, FlushKeepsPath
<1>2. CASE ~(CommitFlush \/ ExternalInterrupt)
  <2>1. ~garbled /\ ~TakeFault /\ RightPath
    BY <1>2, GarbledStays DEF FreshInv
  <2>2. CASE \/ CommitUop \/ CommitDone \/ NoByte \/ NoSlot \/ FetchDone
             \/ UNCHANGED vars
    BY <2>1, <2>2, SamePath DEF CommitUop, CommitDone, NoByte, NoSlot,
      FetchDone, vars, fetchVars, decodeVars
  <2>3. CASE DecodeStart
    <3>1. dec.got = <<>> /\ dec.handler # "skip"
      BY <2>3, NoDecodingFacts DEF DecodeStart, TypeAndPath, DecodeInv,
        DecodesWith
    <3>2. dec'.got = <<>> /\ dec'.handler = "bytes"
      BY <2>3 DEF DecodeStart, NoDecoding
    <3>3. UNCHANGED <<buffer, read_pos, available, spec_pc,
                      disable_until_flush, seen, mis, pc, next_inst_addr>>
      BY <2>3 DEF DecodeStart, SameFetch, fetchVars
    <3>4. NextFetched' = NextFetched
      BY <3>3, RingKept DEF TypeAndPath
    <3> QED BY <2>1, <3>1, <3>2, <3>3, <3>4 DEF RightPath, Decoding
  <2>4. CASE GetByte
    BY <2>1, <2>4, GetByteKeepsPath
  <2>5. CASE Skip
    BY <2>1, <2>5, SkipKeepsPath
  <2>6. CASE Execute \/ RaiseFault
    BY <2>1, <2>6, ExecuteKeepsPath
  <2>7. CASE FetchByte
    <3>1. NextFetched' = NextFetched
      BY <2>7, NextFetchedKept
    <3>2. UNCHANGED <<dec, seen, mis, pc, next_inst_addr>>
      BY <2>7 DEF FetchByte, decodeVars
    <3> QED BY <2>1, <3>1, <3>2 DEF RightPath, Decoding
  <2> QED BY <1>2, <2>1, <2>2, <2>3, <2>4, <2>5, <2>6, <2>7
       DEF Next, Commit, Decode, Fetch
<1> QED BY <1>1, <1>2

\* The two invariants hold together.
LEMMA FreshHolds == Spec => [](TypeAndPath /\ FreshInv)
<1>1. Init => TypeAndPath /\ FreshInv
  BY InitTypeAndPath, InitFresh
<1>2. TypeAndPath /\ FreshInv /\ [Next]_vars => (TypeAndPath /\ FreshInv)'
  BY NextTypeAndPath, NextFresh
<1> QED BY <1>1, <1>2, PTL DEF Spec

\* When an instruction ends, the address it is compared with is that of the
\* byte the decoder will get, also after skip_bytes was asked for none.
THEOREM ForesightIsFreshHolds == Spec => []ForesightIsFresh
<1>1. FreshInv => ForesightIsFresh
  BY DEF FreshInv, RightPath, ForesightIsFresh
<1> QED BY <1>1, FreshHolds, PTL

\* While execution is enabled the decoder works on the instruction at the pc,
\* over mispredictions, events, interrupts and returns to a program.
THEOREM ExecutesAtPcHolds == Spec => []ExecutesAtPc
<1>1. FreshInv => ExecutesAtPc
  BY DEF FreshInv, RightPath, ExecutesAtPc
<1> QED BY <1>1, FreshHolds, PTL

-----------------------------------------------------------------------------
\* The flush that is to come.

\* An instruction is dispatched behind the others.
LEMMA OneFlushAppend ==
    ASSUME window \in Seq(Uops), OneFlush, NEW u, window' = Append(window, u),
           mis => mis', Flushes(u) => ~mis /\ mis'
    PROVE  OneFlush'
<1>1. PICK n \in Nat : n = Len(window)
  OBVIOUS
<1>2. /\ DOMAIN window = 1 .. n /\ DOMAIN window' = 1 .. n + 1
      /\ window'[n + 1] = u /\ \A k \in 1 .. n : window'[k] = window[k]
  BY <1>1
<1>3. \A k \in 1 .. n : Flushes(window'[k]) => Flushes(window[k]) /\ mis
  BY <1>2 DEF OneFlush
<1>4. ASSUME NEW k \in DOMAIN window', Flushes(window'[k])
      PROVE  mis'
  <2>1. k = n + 1 \/ k \in 1 .. n
    BY <1>2
  <2> QED BY <2>1, <1>2, <1>3, <1>4
<1>5. ASSUME NEW j \in DOMAIN window', NEW k \in DOMAIN window',
             Flushes(window'[j]), Flushes(window'[k])
      PROVE  j = k
  <2>1. j = n + 1 \/ j \in 1 .. n
    BY <1>2
  <2>2. k = n + 1 \/ k \in 1 .. n
    BY <1>2
  <2>3. CASE j \in 1 .. n /\ k \in 1 .. n
    BY <2>3, <1>2, <1>3, <1>5 DEF OneFlush
  <2>4. CASE j = n + 1 \/ k = n + 1
    BY <2>1, <2>2, <2>4, <1>2, <1>3, <1>5
  <2> QED BY <2>1, <2>2, <2>3, <2>4
<1> QED BY <1>4, <1>5 DEF OneFlush, Flushes

\* The oldest instruction leaves.
LEMMA OneFlushTail ==
    ASSUME window \in Seq(Uops), window # <<>>, OneFlush,
           window' = Tail(window), UNCHANGED mis
    PROVE  OneFlush'
<1>1. PICK n \in Nat : n + 1 = Len(window)
  <2>1. Len(window) \in Nat /\ Len(window) # 0
    BY EmptySeq
  <2>2. Len(window) - 1 \in Nat
    BY <2>1
  <2> QED BY <2>2
<1>2. /\ DOMAIN window = 1 .. n + 1 /\ DOMAIN window' = 1 .. n
      /\ \A k \in 1 .. n : window'[k] = window[k + 1]
  BY <1>1
<1>3. ASSUME NEW k \in DOMAIN window', Flushes(window'[k])
      PROVE  mis'
  <2>1. k + 1 \in 1 .. n + 1 /\ window'[k] = window[k + 1]
    BY <1>2
  <2> QED BY <2>1, <1>2, <1>3 DEF OneFlush
<1>4. ASSUME NEW j \in DOMAIN window', NEW k \in DOMAIN window',
             Flushes(window'[j]), Flushes(window'[k])
      PROVE  j = k
  <2>1. /\ j + 1 \in 1 .. n + 1 /\ window'[j] = window[j + 1]
        /\ k + 1 \in 1 .. n + 1 /\ window'[k] = window[k + 1]
    BY <1>2
  <2>2. j + 1 = k + 1
    BY <2>1, <1>2, <1>4 DEF OneFlush
  <2>3. j \in Nat /\ k \in Nat
    BY <1>2
  <2> QED BY <2>2, <2>3
<1> QED BY <1>3, <1>4 DEF OneFlush, Flushes

\* Nothing is dispatched.
LEMMA OneFlushKept ==
    ASSUME OneFlush, UNCHANGED <<window, mis>>
    PROVE  OneFlush'
BY DEF OneFlush, Flushes

\* Every step keeps it so.
LEMMA NextOneFlush == TypeAndPath /\ OneFlush /\ [Next]_vars => OneFlush'
<1> SUFFICES ASSUME TypeAndPath, OneFlush, [Next]_vars PROVE OneFlush'
  OBVIOUS
<1>1. window \in Seq(Uops) /\ mis \in BOOLEAN
  BY DEF TypeAndPath, TypeInv, OtherTypes, DecoderTypes
<1>2. CASE CommitUop
  BY <1>1, <1>2, OneFlushTail DEF CommitUop, decodeVars
<1>3. CASE CommitFlush \/ ExternalInterrupt
  <2>1. window' = <<>>
    BY <1>3, FlushKinds DEF FlushFrontEnd
  <2>2. DOMAIN window' = {}
    BY <2>1
  <2> QED BY <2>2 DEF OneFlush
<1>4. CASE Execute \/ RaiseFault
  <2>1. PICK x \in {"no", "event", "return"}, t \in Addrs : InstructionEnd(x, t)
    BY <1>4, EndFacts
  <2>2. PICK u : /\ window' = Append(window, u)
                 /\ u = [valid |-> ~mis,
                         flush |-> IF x # "no" \/ next_inst_addr = t
                                   THEN x ELSE "misprediction"]
    BY <2>1 DEF InstructionEnd
  <2>3. mis' = (mis \/ x # "no" \/ next_inst_addr # t)
    BY <2>1 DEF InstructionEnd
  <2>4. Flushes(u) => ~mis /\ mis'
    BY <2>2, <2>3 DEF Flushes
  <2> QED BY <1>1, <2>2, <2>3, <2>4, OneFlushAppend
<1>5. CASE TakeFault
  <2>1. CASE HasSlot
    <3>1. PICK v \in BOOLEAN : /\ v => ~mis
                               /\ window' = Append(window, [valid |-> v,
                                                            flush |-> "event"])
      <4>1. CASE AskAgain
        BY <4>1, <2>1, <1>1 DEF AskAgain
      <4>2. CASE GoOn(TRUE) \/ GoOn(FALSE)
        BY <4>2, <2>1, <1>1 DEF GoOn
      <4> QED BY <1>5, <4>1, <4>2 DEF TakeFault
    <3>2. PICK u : u = [valid |-> v, flush |-> "event"]
      OBVIOUS
    <3>3. mis' = TRUE
      BY <1>1, <1>5, <2>1 DEF TakeFault
    <3>4. Flushes(u) => ~mis /\ mis'
      BY <3>1, <3>2, <3>3 DEF Flushes
    <3> QED BY <1>1, <3>1, <3>2, <3>3, <3>4, OneFlushAppend
  <2>2. CASE ~HasSlot
    <3>1. UNCHANGED window
      BY <1>5, <2>2 DEF TakeFault, AskAgain, GoOn
    <3>2. UNCHANGED mis
      BY <1>1, <1>5, <2>2 DEF TakeFault
    <3> QED BY <3>1, <3>2, OneFlushKept
  <2> QED BY <2>1, <2>2
<1>6. CASE \/ CommitDone \/ DecodeStart \/ NoByte \/ GetByte \/ Skip \/ NoSlot
           \/ FetchByte \/ FetchDone \/ UNCHANGED vars
  <2>1. UNCHANGED <<window, mis>>
    BY <1>6 DEF CommitDone, DecodeStart, NoByte, GetByte, Skip, NoSlot,
      FetchByte, FetchDone, vars, decodeVars
  <2> QED BY <2>1, OneFlushKept
<1> QED BY <1>2, <1>3, <1>4, <1>5, <1>6 DEF Next, Commit, Decode, Fetch

\* Initially nothing is dispatched.
LEMMA InitOneFlush == Init => OneFlush
<1> SUFFICES ASSUME Init PROVE OneFlush
  OBVIOUS
<1>1. DOMAIN window = {}
  BY DEF Init
<1> QED BY <1>1 DEF OneFlush

\* The kernel's return stays until it is flushed.
LEMMA ReturningStays ==
    ASSUME TypeAndPath, [Next]_vars, ~(CommitFlush \/ ExternalInterrupt),
           ~Returning'
    PROVE  ~Returning
<1>1. window \in Seq(Uops)
  BY DEF TypeAndPath, TypeInv, OtherTypes
<1> SUFFICES ASSUME NEW k \in DOMAIN window, window[k].valid,
                    window[k].flush = "return"
             PROVE  FALSE
  BY DEF Returning
<1>2. CASE UNCHANGED window
  BY <1>2 DEF Returning
<1>3. CASE \E u : window' = Append(window, u)
  <2>1. PICK u : window' = Append(window, u)
    BY <1>3
  <2>2. k \in DOMAIN window' /\ window'[k] = window[k]
    BY <1>1, <2>1
  <2> QED BY <2>2 DEF Returning
<1>4. CASE CommitUop
  <2>1. /\ window' = Tail(window) /\ window # <<>>
        /\ window[1].valid => window[1].flush = "no"
    BY <1>4 DEF CommitUop
  <2>2. PICK n \in Nat : n = Len(window) /\ k \in 1 .. n /\ DOMAIN window = 1 .. n
    BY <1>1
  <2>3. k # 1
    BY <2>1
  <2>4. PICK i \in Nat : k = i + 1 /\ i \in 1 .. n - 1
    <3>1. k - 1 \in Nat /\ k - 1 \in 1 .. n - 1 /\ k = (k - 1) + 1
      BY <2>2, <2>3
    <3> QED BY <3>1
  <2>5. i \in DOMAIN window' /\ window'[i] = window[k]
    BY <1>1, <2>1, <2>2, <2>4
  <2> QED BY <2>5 DEF Returning
<1>5. UNCHANGED window \/ (\E u : window' = Append(window, u)) \/ CommitUop
  BY DEF Next, Commit, Decode, Fetch, CommitDone, DecodeStart, NoByte, GetByte,
    Skip, NoSlot, FetchByte, FetchDone, vars, Execute, Runs, RaiseFault,
    InstructionEnd, TakeFault, AskAgain, GoOn
<1> QED BY <1>2, <1>3, <1>4, <1>5

-----------------------------------------------------------------------------
\* The bytes of an instruction.

\* The k-th of the bytes from a on.
ByteOf(s, a, k) == [space |-> s, addr |-> (a + k - 1) % AddrCount]

\* The bytes from an address on come one after the other.
LEMMA ByteFrom ==
    ASSUME NEW s \in Spaces, NEW a \in Addrs
    PROVE  /\ ByteOf(s, a, 1) = [space |-> s, addr |-> a]
           /\ \A k \in Nat \ {0} :
                /\ ByteOf(s, a, k) \in Bytes
                /\ ByteOf(s, a, k + 1) =
                     [space |-> s, addr |-> After(ByteOf(s, a, k).addr)]
<1>1. AddrCount \in Nat \ {0} /\ a \in 0 .. AddrCount - 1
  BY FrontEndAssumption DEF Addrs
<1>2. a + 1 - 1 = a /\ a % AddrCount = a
  BY <1>1, SmallRemainder
<1>3. ASSUME NEW k \in Nat \ {0}
      PROVE  /\ ByteOf(s, a, k) \in Bytes
             /\ ByteOf(s, a, k + 1) =
                  [space |-> s, addr |-> After(ByteOf(s, a, k).addr)]
  <2>1. PICK i \in Nat : i = a + k - 1 /\ i + 1 = a + (k + 1) - 1
    BY <1>1
  <2>2. i % AddrCount \in 0 .. AddrCount - 1
        /\ ((i % AddrCount) + 1) % AddrCount = (i + 1) % AddrCount
    BY <1>1, RemainderOfSum
  <2>3. /\ ByteOf(s, a, k) = [space |-> s, addr |-> i % AddrCount]
        /\ ByteOf(s, a, k + 1) = [space |-> s, addr |-> (i + 1) % AddrCount]
    BY <2>1 DEF ByteOf
  <2>4. ByteOf(s, a, k) \in Bytes
    BY <2>2, <2>3 DEF Bytes, Addrs
  <2> QED BY <2>2, <2>3, <2>4 DEF After
<1> QED BY <1>2, <1>3 DEF ByteOf

\* The byte at a place of a run of consecutive bytes.
LEMMA BytesAtIs ==
    ASSUME NEW s \in Spaces, NEW a \in Addrs, NEW n \in Nat
    PROVE  /\ BytesAt(s, a, n) \in Seq(Bytes) /\ Len(BytesAt(s, a, n)) = n
           /\ \A k \in 1 .. n : BytesAt(s, a, n)[k] = ByteOf(s, a, k)
<1>1. \A k \in 1 .. n : ByteOf(s, a, k) \in Bytes
  <2>1. \A k \in Nat \ {0} : ByteOf(s, a, k) \in Bytes
    BY ByteFrom
  <2>2. 1 .. n \subseteq Nat \ {0}
    OBVIOUS
  <2> QED BY <2>1, <2>2, Zenon
<1>2. BytesAt(s, a, n) = [k \in 1 .. n |-> ByteOf(s, a, k)]
  BY DEF BytesAt, ByteOf
<1> QED BY <1>1, <1>2

\* One more byte at the end of a run is a longer run.
LEMMA BytesAtNext ==
    ASSUME NEW s \in Spaces, NEW a \in Addrs, NEW n \in Nat
    PROVE  Append(BytesAt(s, a, n), ByteOf(s, a, n + 1)) = BytesAt(s, a, n + 1)
<1> DEFINE r == BytesAt(s, a, n)
           t == BytesAt(s, a, n + 1)
           u == Append(r, ByteOf(s, a, n + 1))
<1>1. /\ r \in Seq(Bytes) /\ Len(r) = n
      /\ \A k \in 1 .. n : r[k] = ByteOf(s, a, k)
      /\ t \in Seq(Bytes) /\ Len(t) = n + 1
      /\ \A k \in 1 .. n + 1 : t[k] = ByteOf(s, a, k)
  <2>1. n + 1 \in Nat
    OBVIOUS
  <2> QED BY <2>1, BytesAtIs
<1>2. ByteOf(s, a, n + 1) \in Bytes
  <2>1. \A k \in Nat \ {0} : ByteOf(s, a, k) \in Bytes
    BY ByteFrom
  <2>2. n + 1 \in Nat \ {0}
    OBVIOUS
  <2> QED BY <2>1, <2>2, Zenon
<1> HIDE DEF r, t
<1>3. /\ u \in Seq(Bytes) /\ Len(u) = n + 1
      /\ \A k \in 1 .. n : u[k] = r[k]
      /\ u[n + 1] = ByteOf(s, a, n + 1)
  BY <1>1, <1>2, AppendProperties
<1> HIDE DEF u
<1>4. ASSUME NEW k \in 1 .. n + 1 PROVE u[k] = t[k]
  <2>1. CASE k = n + 1
    BY <2>1, <1>1, <1>3
  <2>2. CASE k # n + 1
    <3>1. k \in 1 .. n
      BY <2>2
    <3> QED BY <3>1, <1>1, <1>3
  <2> QED BY <2>1, <2>2
<1>5. u = t
  BY <1>1, <1>3, <1>4, SeqEqual
<1> QED BY <1>5 DEF r, t, u

\* The first byte of an instruction.
LEMMA FirstByte ==
    ASSUME NEW s \in Spaces, NEW a \in Addrs, NEW b \in Bytes,
           b = [space |-> s, addr |-> a]
    PROVE  Begun(<<b>>, s, a)
<1>1. BytesAt(s, a, 0) = <<>>
  BY DEF BytesAt
<1>2. ByteOf(s, a, 0 + 1) = b
  BY ByteFrom
<1>3. Append(<<>>, b) = BytesAt(s, a, 0 + 1)
  BY <1>1, <1>2, BytesAtNext
<1>4. Append(<<>>, b) = <<b>>
  OBVIOUS
<1>5. <<b>> = BytesAt(s, a, Len(<<b>>))
  BY <1>3, <1>4
<1> QED BY <1>5 DEF Begun, StartsAt

\* One more byte, where the fetch went after the last one.
LEMMA OneMoreByte ==
    ASSUME NEW s \in Spaces, NEW a \in Addrs, NEW g \in Seq(Bytes), g # <<>>,
           Begun(g, s, a), NEW x \in Addrs, Follows(g[Len(g)].addr, x),
           NEW b \in Bytes, b = [space |-> s, addr |-> x]
    PROVE  Begun(Append(g, b), s, a)
<1> DEFINE h == Append(g, b)
<1>1. PICK n \in Nat \ {0} : n = Len(g) /\ DOMAIN g = 1 .. n
  <2>1. Len(g) \in Nat /\ Len(g) # 0 /\ DOMAIN g = 1 .. Len(g)
    BY EmptySeq
  <2> QED BY <2>1
<1>2. /\ h \in Seq(Bytes) /\ Len(h) = n + 1 /\ DOMAIN h = 1 .. n + 1
      /\ \A k \in 1 .. n : h[k] = g[k]
      /\ h[n + 1] = b
  BY <1>1, AppendProperties
<1> HIDE DEF h
<1>3. StartsAt(h, s, a)
  <2>1. 1 \in 1 .. n /\ h[1] = [space |-> s, addr |-> a]
    BY <1>1, <1>2 DEF Begun, StartsAt
  <2>2. ASSUME NEW k \in 1 .. n + 1 PROVE h[k].space = s
    <3>1. CASE k = n + 1
      BY <3>1, <1>2
    <3>2. CASE k # n + 1
      <4>1. k \in 1 .. n
        BY <3>2
      <4> QED BY <4>1, <1>1, <1>2 DEF Begun, StartsAt
    <3> QED BY <3>1, <3>2
  <2> QED BY <2>1, <2>2, <1>2 DEF StartsAt
<1>4. CASE Diverted(g)
  <2>1. PICK k \in 2 .. n :
          /\ g[k].addr # After(g[k - 1].addr)
          /\ <<g[k - 1].addr, g[k].addr>> \in Predictable
    BY <1>1, <1>4 DEF Diverted
  <2>2. k \in 1 .. n /\ k - 1 \in 1 .. n /\ k \in 2 .. n + 1
    BY <2>1
  <2>3. h[k] = g[k] /\ h[k - 1] = g[k - 1]
    BY <2>2, <1>2
  <2> QED BY <2>1, <2>2, <2>3, <1>2, <1>3 DEF Begun, Diverted, h
<1>5. CASE ~Diverted(g) /\ x = After(g[n].addr)
  <2>1. g = BytesAt(s, a, n)
    BY <1>1, <1>5 DEF Begun
  <2>2. g[n] = ByteOf(s, a, n)
    <3>1. n \in 1 .. n
      BY <1>1
    <3> QED BY <2>1, <3>1, BytesAtIs
  <2>3. b = ByteOf(s, a, n + 1)
    BY <2>2, <1>5, ByteFrom
  <2>4. h = BytesAt(s, a, n + 1)
    BY <2>1, <2>3, BytesAtNext DEF h
  <2> QED BY <2>4, <1>2, <1>3 DEF Begun, h
<1>6. CASE ~Diverted(g) /\ x # After(g[n].addr)
  <2>1. <<g[n].addr, x>> \in Predictable
    BY <1>1, <1>6 DEF Follows
  <2>2. n + 1 \in 2 .. n + 1 /\ (n + 1) - 1 = n /\ n \in 1 .. n
    BY <1>1
  <2>3. h[n + 1].addr = x /\ h[n] = g[n]
    BY <2>2, <1>2
  <2>4. Diverted(h)
    BY <2>1, <2>2, <2>3, <1>2, <1>6 DEF Diverted
  <2> QED BY <2>4, <1>3 DEF Begun, h
<1> QED BY <1>4, <1>5, <1>6

\* What may be complete is an instruction, or was diverted.
LEMMA CompleteIsWhole ==
    ASSUME NEW s \in Spaces, NEW a \in Addrs, NEW g \in Seq(Bytes),
           Begun(g, s, a), TRUE \in MayBeAll(g)
    PROVE  Whole(g, s, a)
<1>1. g[1].space = s /\ g[1].addr = a
  BY DEF Begun, StartsAt
<1>2. CASE g = BytesAt(s, a, Len(g))
  <2>1. Len(g) = Length[s][a]
    BY <1>1, <1>2 DEF MayBeAll
  <2> QED BY <1>2, <2>1 DEF Whole, Begun, InstructionAt
<1>3. CASE Diverted(g)
  BY <1>3 DEF Whole, Begun
<1> QED BY <1>2, <1>3 DEF Begun

\* The bytes read so far, with the byte at a.
LEMMA ReadSoFar ==
    ASSUME DecoderTypes, dec.handler = "bytes", NEW s \in Spaces,
           NEW a \in Addrs, Reads(dec, s, a),
           NEW b \in Bytes, b = [space |-> s, addr |-> a],
           NEW key, key = IF dec.got = <<>> THEN a ELSE dec.addr
    PROVE  /\ key \in Addrs /\ Begun(Append(dec.got, b), s, key)
           /\ Append(dec.got, b) \in Seq(Bytes)
           /\ Len(Append(dec.got, b)) \in Nat \ {0}
           /\ Append(dec.got, b)[Len(Append(dec.got, b))] = b
<1>1. dec.got \in Seq(Bytes) /\ dec.addr \in Addrs
  BY DEF DecoderTypes, Decodings
<1>2. CASE dec.got = <<>>
  <2>1. Append(dec.got, b) = <<b>>
    BY <1>2
  <2> QED BY <1>1, <1>2, <2>1, FirstByte
<1>3. CASE dec.got # <<>>
  <2>1. PICK g \in Seq(Bytes) : g = dec.got
    BY <1>1
  <2>2. Begun(g, s, key) /\ Follows(g[Len(g)].addr, a) /\ g # <<>> /\ key \in Addrs
    BY <1>1, <1>3, <2>1 DEF Reads
  <2>3. Begun(Append(g, b), s, key)
    BY <2>2, OneMoreByte
  <2>4. /\ Append(g, b) \in Seq(Bytes) /\ Len(Append(g, b)) = Len(g) + 1
        /\ Append(g, b)[Len(g) + 1] = b /\ Len(g) \in Nat
    BY AppendProperties
  <2> QED BY <2>1, <2>2, <2>3, <2>4
<1> QED BY <1>2, <1>3

\* One more byte of an instruction, or the first one of an instruction that is
\* in the table.
LEMMA ByteRead ==
    ASSUME DecoderTypes, dec.handler = "bytes", NEW s \in Spaces,
           Remembers(inst_cache, s), NEW a \in Addrs, Reads(dec, s, a),
           NEW b \in Bytes, b = [space |-> s, addr |-> a],
           NEW c \in BOOLEAN, c \in MayBeAll(Append(dec.got, b)),
           NEW next, Follows(a, next)
    PROVE  /\ Remembers(Cached(b, a, c), s)
           /\ Reads(WithByte(b, a, c), s, next)
           /\ HasRead(WithByte(b, a, c), Cached(b, a, c), s)
<1> DEFINE d == WithByte(b, a, c)
           t == Cached(b, a, c)
           g == Append(dec.got, b)
<1>1. PICK key : key = IF dec.got = <<>> THEN a ELSE dec.addr
  OBVIOUS
<1>2. /\ key \in Addrs /\ Begun(g, s, key)
      /\ g \in Seq(Bytes) /\ Len(g) \in Nat \ {0} /\ g[Len(g)] = b
  BY <1>1, ReadSoFar
<1>3. c = TRUE => Whole(g, s, key)
  BY <1>2, CompleteIsWhole
<1> HIDE DEF g
<1>4. /\ d.got = g /\ d.addr = key
      /\ d.handler = IF Hit(a)
                     THEN IF Len(inst_cache[CacheIndex(a)].bytes) = 1
                          THEN "allocate" ELSE "skip"
                     ELSE IF c THEN "allocate" ELSE "bytes"
  BY <1>1 DEF WithByte, g
<1>5. t = IF Hit(a) THEN inst_cache
          ELSE [inst_cache EXCEPT ![CacheIndex(key)] =
                  IF c THEN [vaddr |-> key, bytes |-> g] ELSE NoInst]
  BY <1>1 DEF Cached, g
<1>6. IsTable(inst_cache) /\ CacheIndex(key) \in 0 .. TableSize - 1
  BY <1>2, CacheIndexType DEF DecoderTypes
<1> HIDE DEF d, t
<1>7. CASE Hit(a)
  <2>1. t = inst_cache /\ key = a /\ d.handler # "bytes"
    BY <1>1, <1>4, <1>5, <1>7 DEF Hit
  <2>2. inst_cache[CacheIndex(a)] # NoInst /\ inst_cache[CacheIndex(a)].vaddr = a
    BY <1>7 DEF Hit, Decoded
  <2>3. Whole(t[CacheIndex(d.addr)].bytes, s, d.addr)
    BY <2>1, <2>2, <1>4, <1>6 DEF Remembers
  <2> QED BY <2>1, <2>3 DEF Reads, HasRead, d, t
<1>8. CASE ~Hit(a) /\ c
  <2>1. /\ t = [inst_cache EXCEPT ![CacheIndex(key)] =
                  [vaddr |-> key, bytes |-> g]]
        /\ d.handler = "allocate" /\ Whole(g, s, key)
    BY <1>3, <1>4, <1>5, <1>8
  <2>2. /\ t[CacheIndex(key)] = [vaddr |-> key, bytes |-> g]
        /\ \A i \in 0 .. TableSize - 1 :
             i # CacheIndex(key) => t[i] = inst_cache[i]
    BY <2>1, <1>6 DEF IsTable
  <2>3. ASSUME NEW i \in 0 .. TableSize - 1, t[i] # NoInst
        PROVE  Whole(t[i].bytes, s, t[i].vaddr)
    <3>1. CASE i = CacheIndex(key)
      BY <3>1, <2>1, <2>2
    <3>2. CASE i # CacheIndex(key)
      <4>1. t[i] = inst_cache[i]
        BY <3>2, <2>2
      <4> QED BY <4>1, <2>3 DEF Remembers
    <3> QED BY <3>1, <3>2
  <2>4. HasRead(d, t, s)
    BY <2>1, <2>2, <1>4 DEF HasRead
  <2> QED BY <2>1, <2>3, <2>4 DEF Remembers, Reads, d, t
<1>9. CASE ~Hit(a) /\ ~c
  <2>1. t = [inst_cache EXCEPT ![CacheIndex(key)] = NoInst] /\ d.handler = "bytes"
    BY <1>4, <1>5, <1>9
  <2>2. \A i \in 0 .. TableSize - 1 : t[i] = NoInst \/ t[i] = inst_cache[i]
    BY <2>1, <1>6 DEF IsTable
  <2>3. ASSUME NEW i \in 0 .. TableSize - 1, t[i] # NoInst
        PROVE  Whole(t[i].bytes, s, t[i].vaddr)
    <3>1. t[i] = inst_cache[i]
      BY <2>2, <2>3
    <3> QED BY <3>1, <2>3 DEF Remembers
  <2>4. d.got[Len(d.got)].addr = a /\ Begun(d.got, s, d.addr)
    BY <1>2, <1>4
  <2> QED BY <2>1, <2>3, <2>4 DEF Remembers, Reads, HasRead, d, t
<1> QED BY <1>7, <1>8, <1>9

\* The decoder takes the first n bytes.
LEMMA HoldsTaken ==
    ASSUME BufferTypes, Holds, NEW n \in Nat, n <= InBuffer,
           InBuffer' = InBuffer - n, \A k \in Nat : At(k)' = At(n + k),
           UNCHANGED space
    PROVE  Holds'
<1>1. PICK m \in Nat : InBuffer = n + m
  <2>1. InBuffer \in Nat /\ InBuffer - n \in Nat
    BY RingFacts
  <2> QED BY <2>1
<1>2. InBuffer' = m
  BY <1>1
<1>3. ASSUME NEW k \in 0 .. m - 1, ~At(k)'.fault
      PROVE  At(k)'.space = space' /\ Follows(At(k)'.vaddr, At(k)'.next)
  <2>1. k \in Nat /\ n + k \in 0 .. InBuffer - 1
    BY <1>1
  <2>2. At(k)' = At(n + k)
    BY <2>1
  <2> QED BY <2>1, <2>2, <1>3 DEF Holds
<1> QED BY <1>2, <1>3 DEF Holds, Follows, After

\* The buffer is left alone.
LEMMA HoldsKept ==
    ASSUME BufferIsPath, Holds,
           UNCHANGED <<buffer, read_pos, available, spec_pc,
                       disable_until_flush, space>>
    PROVE  Holds'
<1>1. InBuffer' = InBuffer /\ \A k \in Nat : At(k)' = At(k)
  BY RingKept
<1>2. ASSUME NEW k \in 0 .. InBuffer - 1, ~At(k)'.fault
      PROVE  At(k)'.space = space' /\ Follows(At(k)'.vaddr, At(k)'.next)
  <2>1. At(k)' = At(k)
    BY <1>1
  <2> QED BY <1>2, <2>1 DEF Holds
<1> QED BY <1>1, <1>2 DEF Holds, Follows, After

\* What the invariant says of each part, in the space of the processor.
BytesParts ==
    /\ Remembers(inst_cache, space) /\ Holds
    /\ Reads(dec, space, NextFetched) /\ HasRead(dec, inst_cache, space)

\* The same, with its constants expanded, so that it can be primed.
LEMMA PartsNext ==
    ASSUME NEW t, t = inst_cache', NEW d, d = dec', NEW s, s = space',
           NEW x, x = NextFetched', Holds',
           Remembers(t, s), Reads(d, s, x), HasRead(d, t, s)
    PROVE  BytesParts'
<1>1. Remembers(inst_cache, space)'
  BY DEF Remembers, Whole, StartsAt, Diverted, After, InstructionAt, BytesAt
<1>2. Reads(dec, space, NextFetched)'
  BY DEF Reads, Begun, StartsAt, Diverted, Follows, After, BytesAt
<1>3. HasRead(dec, inst_cache, space)'
  BY DEF HasRead, Whole, StartsAt, Diverted, After, InstructionAt, BytesAt,
    CacheIndex
<1> QED BY <1>1, <1>2, <1>3 DEF BytesParts

\* The byte taken continues the instruction.
LEMMA GetByteKeepsBytes ==
    ASSUME TypeAndPath, BytesParts, GetByte
    PROVE  BytesParts'
<1>1. /\ BufferTypes /\ BufferTypes' /\ DecoderTypes /\ BufferIsPath
      /\ dec.handler = "bytes" /\ space \in Spaces /\ UNCHANGED space
  BY GetByteKeeps DEF TypeAndPath, TypeInv, OtherTypes, GetByte
<1>2. /\ InBuffer' = InBuffer - 1 /\ InBuffer > 0
      /\ \A k \in Nat : At(k)' = At(1 + k)
  BY ByteTaken DEF GetByte
<1>3. InBuffer \in Nat /\ 1 <= InBuffer /\ 0 \in 0 .. InBuffer - 1
  BY <1>1, <1>2, RingFacts
<1>4. NextFetched' = HeadByte.next /\ NextFetched = HeadByte.vaddr
      /\ HeadByte = At(0) /\ ~At(0).fault
  <2>1. At(0)' = At(1)
    BY <1>2
  <2>2. 1 \in Nat \ {0} /\ 1 - 1 = 0 /\ 1 <= InBuffer /\ InBuffer # 0
    BY <1>3
  <2>3. ~At(0).fault /\ HeadByte = At(0)
    BY <1>1, RingFacts DEF GetByte
  <2>4. UNCHANGED spec_pc
    BY DEF GetByte, TakeByte
  <2>5. NextFetched' = At(0).next
    BY <1>1, <1>2, <2>1, <2>2, <2>3, <2>4, NextAfterTaken
  <2> QED BY <2>2, <2>3, <2>5, <1>1, NextFetchedIs
<1>5. HeadByte.space = space /\ Follows(HeadByte.vaddr, HeadByte.next)
  BY <1>3, <1>4 DEF BytesParts, Holds
<1>6. PICK a \in Addrs, b \in Bytes, c \in BOOLEAN :
        /\ a = HeadByte.vaddr
        /\ b = [space |-> HeadByte.space, addr |-> a]
        /\ c \in MayBeAll(Append(dec.got, b))
        /\ dec' = WithByte(b, a, c) /\ inst_cache' = Cached(b, a, c)
  BY GotFacts
<1>7. PICK next : next = HeadByte.next
  OBVIOUS
<1>8. /\ Remembers(Cached(b, a, c), space)
      /\ Reads(WithByte(b, a, c), space, next)
      /\ HasRead(WithByte(b, a, c), Cached(b, a, c), space)
  <2>1. Remembers(inst_cache, space) /\ Reads(dec, space, a)
    BY <1>4, <1>6 DEF BytesParts
  <2>2. b = [space |-> space, addr |-> a] /\ Follows(a, next)
    BY <1>5, <1>6, <1>7
  <2> QED BY <1>1, <1>6, <2>1, <2>2, ByteRead
<1>9. Holds'
  BY <1>1, <1>2, <1>3, HoldsTaken DEF BytesParts
<1> QED BY <1>1, <1>4, <1>6, <1>7, <1>8, <1>9, PartsNext

\* The rest of an instruction that is skipped is in the table.
LEMMA SkipKeepsBytes ==
    ASSUME TypeAndPath, BytesParts, Skip
    PROVE  BytesParts'
<1>1. /\ BufferTypes /\ DecodeInv /\ dec.handler = "skip" /\ dec \in Decodings
      /\ dec.addr \in Addrs
  BY DEF TypeAndPath, TypeInv, DecoderTypes, Decodings, Skip
<1>2. PICK n \in 0 .. Size, w \in Nat \ {0} :
        /\ n <= w /\ n <= InBuffer
        /\ read_pos' = Place(read_pos + n) /\ available' = available + n
        /\ dec' = [dec EXCEPT !.taken = @ + n,
                              !.handler = IF n < w THEN "skip" ELSE "allocate"]
  BY SkippedFacts
<1>3. UNCHANGED <<spec_pc, buffer, write_pos, disable_until_flush, inst_cache,
                  space>>
  BY DEF Skip
<1>4. dec'.addr = dec.addr /\ dec'.handler # "bytes"
  BY <1>1, <1>2 DEF Decodings
<1>5. InBuffer' = InBuffer - n /\ \A k \in Nat : At(k)' = At(n + k)
  BY <1>1, <1>2, <1>3, TakenFacts
<1>6. Holds'
  <2>1. n \in Nat
    BY FrontEndAssumption
  <2> QED BY <2>1, <1>1, <1>2, <1>3, <1>5, HoldsTaken DEF BytesParts
<1>7. Whole(inst_cache[CacheIndex(dec.addr)].bytes, space, dec.addr)
  <2>1. /\ inst_cache[CacheIndex(dec.addr)] # NoInst
        /\ inst_cache[CacheIndex(dec.addr)].vaddr = dec.addr
        /\ CacheIndex(dec.addr) \in 0 .. TableSize - 1
    BY <1>1, CacheIndexType DEF DecodeInv, DecodesWith
  <2> QED BY <2>1 DEF BytesParts, Remembers
<1>8. PICK d, x : d = dec' /\ x = NextFetched'
  OBVIOUS
<1>9. Reads(d, space, x) /\ HasRead(d, inst_cache, space)
  BY <1>4, <1>7, <1>8 DEF Reads, HasRead
<1>10. Remembers(inst_cache, space)
  BY DEF BytesParts
<1> QED BY <1>3, <1>6, <1>8, <1>9, <1>10, PartsNext

\* The fetch adds one more byte of the space to the path.
LEMMA FetchKeepsBytes ==
    ASSUME TypeAndPath, BytesParts, FetchByte
    PROVE  BytesParts'
<1>1. UNCHANGED <<dec, inst_cache, space>> /\ NextFetched' = NextFetched
  BY NextFetchedKept DEF FetchByte, decodeVars
<1>2. PICK e \in Elements, m \in Nat :
        /\ m = InBuffer /\ InBuffer' = m + 1
        /\ \A k \in 0 .. m - 1 : At(k)' = At(k)
        /\ At(m)' = e /\ e.vaddr = spec_pc
        /\ ~e.fault => e.space = space /\ Follows(spec_pc, e.next)
  BY FetchedFacts
<1>3. Holds'
  <2>1. ASSUME NEW k \in 0 .. m, ~At(k)'.fault
        PROVE  At(k)'.space = space' /\ Follows(At(k)'.vaddr, At(k)'.next)
    <3>1. CASE k = m
      BY <3>1, <2>1, <1>1, <1>2
    <3>2. CASE k # m
      <4>1. k \in 0 .. m - 1 /\ At(k)' = At(k)
        BY <3>2, <1>2
      <4> QED BY <4>1, <2>1, <1>1, <1>2 DEF BytesParts, Holds
    <3> QED BY <3>1, <3>2
  <2>2. InBuffer' - 1 = m
    BY <1>2
  <2> QED BY <2>1, <2>2 DEF Holds, Follows, After
<1> QED BY <1>1, <1>3, PartsNext DEF BytesParts

\* The decoder starts, ends or is flushed: it has read nothing.
LEMMA IdleKeepsBytes ==
    ASSUME Remembers(inst_cache, space), UNCHANGED <<inst_cache, space>>,
           dec'.got = <<>>, dec'.handler # "allocate", Holds'
    PROVE  BytesParts'
<1>1. PICK d, x : d = dec' /\ x = NextFetched'
  OBVIOUS
<1>2. Reads(d, space, x) /\ HasRead(d, inst_cache, space)
  BY <1>1 DEF Reads, HasRead
<1> QED BY <1>1, <1>2, PartsNext

\* A flush: what is remembered is of the space, or nothing.
LEMMA FlushKeepsBytes ==
    ASSUME TypeAndPath, OneFlush, BytesInv, CommitFlush \/ ExternalInterrupt,
           ~garbled'
    PROVE  BytesParts'
<1>1. PICK t \in Addrs :
        /\ FlushFrontEnd(t)
        /\ \/ CommitMisprediction /\ UNCHANGED <<space, inst_cache, garbled>>
           \/ ClearCache
  BY FlushKinds
<1>2. InBuffer' = 0
  BY <1>1, FrontEndAssumption DEF FlushFrontEnd, InBuffer
<1>3. Holds'
  BY <1>2 DEF Holds
<1>4. dec'.got = <<>> /\ dec'.handler = "idle"
  BY <1>1, NoDecodingFacts DEF FlushFrontEnd
<1>5. CASE CommitMisprediction /\ UNCHANGED <<space, inst_cache, garbled>>
  <2>1. /\ window # <<>> /\ window[1].valid
        /\ window[1].flush = "misprediction"
    BY <1>5 DEF CommitMisprediction, CommitFlushes
  <2>2. 1 \in DOMAIN window
    <3>1. window \in Seq(Uops)
      BY DEF TypeAndPath, TypeInv, OtherTypes
    <3> QED BY <2>1, <3>1, EmptySeq
  <2>3. ~Returning
    BY <2>1, <2>2 DEF Returning, OneFlush, Flushes
  <2>4. Remembers(inst_cache, space)
    BY <1>5, <2>3 DEF BytesInv
  <2> QED BY <1>3, <1>4, <1>5, <2>4, IdleKeepsBytes
<1>6. CASE ClearCache
  <2>1. PICK c, d, s, x : c = inst_cache' /\ d = dec' /\ s = space' /\ x = NextFetched'
    OBVIOUS
  <2>2. Remembers(c, s)
    BY <1>6, <2>1 DEF ClearCache, EmptyCache, Remembers
  <2>3. Reads(d, s, x) /\ HasRead(d, c, s)
    BY <1>4, <2>1 DEF Reads, HasRead
  <2> QED BY <1>3, <2>1, <2>2, <2>3, PartsNext
<1> QED BY <1>1, <1>5, <1>6

\* The space does not change but by a return.
LEMMA SpaceKept ==
    ASSUME TypeAndPath, Execute \/ RaiseFault, ~Returning'
    PROVE  UNCHANGED space
<1>1. PICK x \in {"no", "event", "return"}, t \in Addrs :
        /\ InstructionEnd(x, t) /\ (x # "return" => UNCHANGED space)
        /\ mis => x # "return"
  BY EndFacts
<1>2. ASSUME x = "return" PROVE FALSE
  <2>1. window' = Append(window, [valid |-> TRUE, flush |-> "return"])
    <3>1. ~mis /\ mis \in BOOLEAN
      BY <1>1, <1>2 DEF TypeAndPath, TypeInv, DecoderTypes
    <3> QED BY <3>1, <1>1, <1>2 DEF InstructionEnd
  <2>2. window \in Seq(Uops)
    BY DEF TypeAndPath, TypeInv, OtherTypes
  <2>3. /\ Len(window) + 1 \in DOMAIN window'
        /\ window'[Len(window) + 1] = [valid |-> TRUE, flush |-> "return"]
    BY <2>1, <2>2
  <2> QED BY <2>3 DEF Returning
<1> QED BY <1>1, <1>2

\* Initially nothing is remembered and nothing is taken.
LEMMA InitBytes == Init => BytesInv
<1> SUFFICES ASSUME Init PROVE BytesParts
  BY DEF BytesInv, BytesParts
<1>1. InBuffer = 0
  BY FrontEndAssumption DEF Init, InBuffer
<1>2. dec.got = <<>> /\ dec.handler = "idle"
  BY NoDecodingFacts DEF Init
<1>3. Holds
  BY <1>1 DEF Holds
<1>4. Remembers(inst_cache, space)
  BY DEF Init, EmptyCache, Remembers
<1> QED BY <1>2, <1>3, <1>4 DEF BytesParts, Reads, HasRead

\* Every step keeps the bytes read and remembered those of their instruction.
LEMMA NextBytes ==
    TypeAndPath /\ OneFlush /\ BytesInv /\ [Next]_vars => BytesInv'
<1> SUFFICES ASSUME TypeAndPath, OneFlush, BytesInv, [Next]_vars,
                    ~garbled', ~Returning'
             PROVE  BytesParts'
  BY DEF BytesInv, BytesParts
<1>1. CASE CommitFlush \/ ExternalInterrupt
  BY <1>1, FlushKeepsBytes
<1>2. CASE ~(CommitFlush \/ ExternalInterrupt)
  <2>1. ~garbled /\ ~TakeFault /\ ~Returning
    BY <1>2, GarbledStays, ReturningStays
  <2>2. BytesParts /\ BufferIsPath /\ Holds /\ Remembers(inst_cache, space)
    BY <2>1 DEF BytesInv, BytesParts, TypeAndPath
  <2>3. CASE \/ CommitUop \/ CommitDone \/ NoByte \/ NoSlot \/ FetchDone
             \/ UNCHANGED vars
    <3>1. UNCHANGED <<buffer, read_pos, available, spec_pc,
                      disable_until_flush, dec, inst_cache, space>>
      BY <2>3 DEF CommitUop, CommitDone, NoByte, NoSlot, FetchDone, vars,
        fetchVars, decodeVars
    <3>2. Holds' /\ NextFetched' = NextFetched
      BY <3>1, <2>2, HoldsKept, RingKept
    <3> QED BY <3>1, <3>2, <2>2, PartsNext DEF BytesParts
  <2>4. CASE DecodeStart \/ Execute \/ RaiseFault
    <3>1. dec'.got = <<>> /\ dec'.handler # "allocate" /\ UNCHANGED inst_cache
      <4>1. CASE DecodeStart
        BY <4>1 DEF DecodeStart, NoDecoding
      <4>2. CASE Execute \/ RaiseFault
        <5>1. dec' = NoDecoding
          BY <4>2, EndFacts DEF InstructionEnd
        <5> QED BY <4>2, <5>1, NoDecodingFacts DEF Execute, RaiseFault
      <4> QED BY <2>4, <4>1, <4>2
    <3>2. UNCHANGED space
      BY <2>4, SpaceKept DEF DecodeStart
    <3>3. UNCHANGED <<buffer, read_pos, available, spec_pc,
                      disable_until_flush>>
      BY <2>4 DEF DecodeStart, Execute, RaiseFault, SameFetch, fetchVars
    <3>4. Holds'
      BY <3>2, <3>3, <2>2, HoldsKept
    <3> QED BY <3>1, <3>2, <3>4, <2>2, IdleKeepsBytes
  <2>5. CASE GetByte
    BY <2>2, <2>5, GetByteKeepsBytes
  <2>6. CASE Skip
    BY <2>2, <2>6, SkipKeepsBytes
  <2>7. CASE FetchByte
    BY <2>2, <2>7, FetchKeepsBytes
  <2> QED BY <1>2, <2>1, <2>3, <2>4, <2>5, <2>6, <2>7
       DEF Next, Commit, Decode, Fetch
<1> QED BY <1>1, <1>2

\* An instruction that is executed was read in the space the processor is in,
\* from the byte at the pc on.  It is the instruction at that address, or the
\* predictor led the fetch away inside of it.  Nothing is assumed of what the
\* predictor answers.
THEOREM ExecutesItsBytesHolds == Spec => []ExecutesItsBytes
<1>1. Init => TypeAndPath /\ OneFlush /\ BytesInv
  BY InitTypeAndPath, InitOneFlush, InitBytes
<1>2. TypeAndPath /\ OneFlush /\ BytesInv /\ [Next]_vars =>
        (TypeAndPath /\ OneFlush /\ BytesInv)'
  BY NextTypeAndPath, NextOneFlush, NextBytes
<1>3. TypeAndPath /\ OneFlush /\ BytesInv => ExecutesItsBytes
  <2> SUFFICES ASSUME OneFlush, BytesInv, ~garbled, ~mis,
                      dec.handler = "allocate"
               PROVE  /\ DecodedBytes[1] = [space |-> space, addr |-> dec.addr]
                      /\ \A k \in DOMAIN DecodedBytes :
                             DecodedBytes[k].space = space
                      /\ IsInstruction \/ Diverted(DecodedBytes)
    BY DEF ExecutesItsBytes
  <2>1. ~Returning
    BY DEF OneFlush, Flushes, Returning
  <2>2. Whole(DecodedBytes, space, dec.addr)
    BY <2>1 DEF BytesInv, HasRead, DecodedBytes
  <2> QED BY <2>2 DEF Whole, StartsAt, IsInstruction
<1> QED BY <1>1, <1>2, <1>3, PTL DEF Spec

=============================================================================
