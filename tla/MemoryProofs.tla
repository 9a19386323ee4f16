---------------------------- MODULE MemoryProofs ----------------------------
(***************************************************************************)
(* The two readers of the memory of the target: the line cache behind the  *)
(* m request, and the poller of the RTT rings.                             *)
(*                                                                         *)
(* The cache.  For every line size, memory and map: the line it holds is   *)
(* the memory of the target unless a writer bypassed it, it is an aligned  *)
(* line of one region of the attached target, and none is held while the   *)
(* target runs.  Coherence alone is not inductive: the target's own writes *)
(* do not invalidate, and it is only because nothing is cached while it    *)
(* runs that they need not.  From these follows what the debugger sees:    *)
(* the reply to an m request is the memory, byte for byte, however its     *)
(* chunks and lines were cut.  That needs one more fact: nobody holds a    *)
(* reply while the target runs.                                            *)
(*                                                                         *)
(* The rings.  A poll stays inside its buffers, whatever the rings hold    *)
(* and whatever the target does meanwhile: what it does in its later steps *)
(* was decided when it read the descriptor, the chunk lies within the ring *)
(* and within RTT_BUFFER, and no step of the target can change that.  From *)
(* it follow the types.  What the host gets is what the target wrote       *)
(* (RttInOrder), for any ring, transfer buffer and number of channels:     *)
(* OrderInv says which bytes the cells between rd and wr hold, which of    *)
(* them the transfer holds, and that a byte is sent once and none is       *)
(* skipped unless a restart wiped it.                                      *)
(***************************************************************************)
EXTENDS MemCache, RttRing, TLAPS

-----------------------------------------------------------------------------
(* The line cache.                                                         *)

CacheInv == CacheCoherent /\ OnlyMappedLinesCached /\ NothingCachedWhileRunning

(* The base of a line is a multiple of its size. *)
LEMMA LineBaseAligned ==
  ASSUME NEW a \in Int
  PROVE  LineBase(a) % LINE_SIZE = 0
<1>1. LINE_SIZE \in Nat /\ LINE_SIZE > 0
  BY MemCacheAssumption DEF MemCacheAssumption
<1>2. a = LINE_SIZE * (a \div LINE_SIZE) + (a % LINE_SIZE)
  BY <1>1
<1>3. LineBase(a) = LINE_SIZE * (a \div LINE_SIZE)
  BY <1>1, <1>2 DEF LineBase
<1>4. \A q \in Int : (LINE_SIZE * q) % LINE_SIZE = 0
  BY <1>1
<1>5. a \div LINE_SIZE \in Int
  BY <1>1
<1> QED BY <1>3, <1>4, <1>5, Zenon

LEMMA CacheInitInv == CacheInit => CacheInv
BY DEF CacheInit, CacheInv, CacheCoherent, NeverStale, OnlyMappedLinesCached, NothingCachedWhileRunning

(* A step that invalidates may do what it likes to the rest. *)
LEMMA InvalidateStep ==
  ASSUME invalidate
  PROVE  CacheInv'
BY DEF invalidate, CacheInv, CacheCoherent, NeverStale, OnlyMappedLinesCached, NothingCachedWhileRunning

(* A step that bypasses the cache owns up to it. *)
LEMMA BypassStep ==
  ASSUME CacheInv, bypass, UNCHANGED <<map, running>>
  PROVE  CacheInv'
BY DEF bypass, CacheInv, CacheCoherent, NeverStale, OnlyMappedLinesCached, NothingCachedWhileRunning,
       Bytes

(* A step that keeps the cache leaves the memory and the map alone, or runs. *)
LEMMA KeepStep ==
  ASSUME CacheInv, keepCache, UNCHANGED map, running' => running,
         UNCHANGED mem \/ running
  PROVE  CacheInv'
BY DEF keepCache, CacheInv, CacheCoherent, NeverStale, OnlyMappedLinesCached,
       NothingCachedWhileRunning, Bytes, MemLine

-----------------------------------------------------------------------------
(* A read request: the line it fills is aligned, within a region and fresh. *)
LEMMA ReadStep ==
  ASSUME CacheInv, NEW addr \in Addr, NEW n \in Lengths, m(addr, n)
  PROVE  CacheInv'
<1> DEFINE last == ChunkAt(addr, Chunks(n))
           rest == ChunkSize(n, Chunks(n))
<1>1. /\ ~running
      /\ UNCHANGED <<mem, map, attached, running, pending>>
  BY DEF m
<1>2. last \in Int
  <2>1. /\ addr \in Nat /\ n \in Nat /\ n > 0
        /\ READ_CHUNK_SIZE \in Nat /\ READ_CHUNK_SIZE > 0
    BY MemCacheAssumption DEF MemCacheAssumption, READ_CHUNK_SIZE
  <2>2. Chunks(n) \in Int
    BY <2>1 DEF Chunks
  <2> QED BY <2>1, <2>2 DEF ChunkAt
<1>3. PICK lineFails \in BOOLEAN : Fill(last, rest, lineFails)
  BY Zenon DEF m
<1> HIDE DEF last, rest
<1>4. CASE Prefetches(last, rest) /\ ~lineFails
  <2>1. cacheable(LineBase(last), LINE_SIZE)
    BY <1>4 DEF Prefetches
  <2>2. LineBase(last) % LINE_SIZE = 0
    BY <1>2, LineBaseAligned
  <2>3. /\ valid' = TRUE /\ base' = LineBase(last)
        /\ data' = MemLine(LineBase(last))
    BY <1>3, <1>4 DEF Fill
  <2>4. OnlyMappedLinesCached'
    BY <1>1, <2>1, <2>2, <2>3 DEF OnlyMappedLinesCached, cacheable, Bytes
  <2>5. CacheCoherent'
    BY <1>1, <2>3 DEF CacheCoherent, NeverStale, MemLine
  <2> QED BY <1>1, <2>4, <2>5 DEF CacheInv, NothingCachedWhileRunning
<1>5. CASE ~(Prefetches(last, rest) /\ ~lineFails)
  <2>1. keepCache
    BY <1>3, <1>5 DEF Fill
  <2> QED BY <1>1, <2>1, KeepStep
<1> QED BY <1>4, <1>5

-----------------------------------------------------------------------------
LEMMA CacheNextInv == CacheInv /\ [CacheNext]_cacheVars => CacheInv'
<1> SUFFICES ASSUME CacheInv, [CacheNext]_cacheVars PROVE CacheInv'
  OBVIOUS
<1>1. CASE \E a \in Addr, n \in Lengths : m(a, n)
  BY <1>1, ReadStep
<1>2. ASSUME NEW a \in Hot, NEW v \in Byte,
             \/ Write(a, v) \/ RttWrite(a, v) \/ FlashWrite(a, v)
             \/ FlashBreakpoint(a, v) \/ Execute(a, v) \/ Reset(a, v)
             \/ \E to \in Maps : Attach(to, a, v)
      PROVE  CacheInv'
  <2>1. CASE Write(a, v) \/ FlashWrite(a, v) \/ Reset(a, v)
    BY <2>1, InvalidateStep DEF Write, bmp_mem_write, FlashWrite, Reset
  <2>2. CASE \E to \in Maps : Attach(to, a, v)
    BY <2>2, InvalidateStep DEF Attach, bmp_attach
  <2>3. CASE RttWrite(a, v) \/ FlashBreakpoint(a, v)
    BY <2>3, BypassStep DEF RttWrite, FlashBreakpoint
  <2>4. CASE Execute(a, v)
    BY <2>4, KeepStep DEF Execute
  <2> QED BY <1>2, <2>1, <2>2, <2>3, <2>4
<1>3. CASE \E a \in Hot : FlashErase(a)
  BY <1>3, InvalidateStep DEF FlashErase
<1>4. CASE FlashDone
  <2>1. CASE pending = {}
    BY <1>4, <2>1, KeepStep DEF FlashDone
  <2>2. CASE pending # {}
    BY <1>4, <2>2, BypassStep DEF FlashDone
  <2> QED BY <2>1, <2>2
<1>5. CASE Resume
  BY <1>5, InvalidateStep DEF Resume, set_running_true
<1>6. CASE Stop
  BY <1>6, KeepStep DEF Stop
<1>7. CASE Detach
  BY <1>7, InvalidateStep DEF Detach
<1>8. CASE UNCHANGED cacheVars
  BY <1>8, KeepStep DEF cacheVars, keepCache
<1> QED BY <1>1, <1>2, <1>3, <1>4, <1>5, <1>6, <1>7, <1>8 DEF CacheNext

(* The inductive invariant holds of every behaviour. *)
THEOREM CacheInvariant == CacheSpec => []CacheInv
BY CacheInitInv, CacheNextInv, PTL DEF CacheSpec

(* mem_cache.rs:21 with its exceptions: only the writers that bypass       *)
(* invalidate() can make the cached line stale.                            *)
THEOREM CacheStaysCoherent == CacheSpec => []CacheCoherent
<1>1. CacheInv => CacheCoherent
  BY DEF CacheInv
<1> QED BY <1>1, CacheInvariant, PTL

(* mem_cache.rs:14 "Only addresses inside RAM/flash map regions are ever   *)
(* cached": of the target attached now.                                    *)
THEOREM CachedLinesAreMapped == CacheSpec => []OnlyMappedLinesCached
<1>1. CacheInv => OnlyMappedLinesCached
  BY DEF CacheInv
<1> QED BY <1>1, CacheInvariant, PTL

(* set_running(true) drops the line, and no request fills it until the stop. *)
THEOREM NoLineWhileRunning == CacheSpec => []NothingCachedWhileRunning
<1>1. CacheInv => NothingCachedWhileRunning
  BY DEF CacheInv
<1> QED BY <1>1, CacheInvariant, PTL

-----------------------------------------------------------------------------
NoReplyWhileRunning == running => reply = NoReply

ReplyInv == CacheInv /\ ReplyIsMemory /\ NoReplyWhileRunning

(* The byte i of a request lies at place i % READ_CHUNK_SIZE of its chunk. *)
LEMMA ChunkOfByte ==
  ASSUME NEW addr \in Nat, NEW n \in Nat, NEW i \in 0..(n - 1)
  PROVE  LET k == i \div READ_CHUNK_SIZE + 1
             j == i % READ_CHUNK_SIZE
         IN  /\ k \in Nat \ {0}
             /\ j \in 0..(ChunkSize(n, k) - 1)
             /\ ChunkAt(addr, k) + j = addr + i
             /\ ChunkAt(addr, k) \in Nat /\ ChunkSize(n, k) \in Int
<1> DEFINE R == READ_CHUNK_SIZE
           q == i \div R
           j == i % R
<1>1. R \in Nat /\ R > 0
  BY MemCacheAssumption DEF MemCacheAssumption, READ_CHUNK_SIZE
<1> HIDE DEF R
<1>2. i \in Nat /\ i < n
  OBVIOUS
<1>3. /\ q \in Nat /\ j \in 0..(R - 1)
      /\ i = R * q + j
  BY <1>1, <1>2
<1> HIDE DEF q, j
<1>4. R * q = q * R /\ q * R \in Nat
  BY <1>1, <1>3
<1>5. j < n - q * R
  BY <1>2, <1>3, <1>4
<1>6. (q + 1) - 1 = q
  BY <1>3
<1>7. /\ ChunkAt(addr, q + 1) = addr + q * R
      /\ ChunkSize(n, q + 1) \in {R, n - q * R}
  BY <1>6 DEF ChunkAt, ChunkSize, R
<1>8. /\ j \in 0..(ChunkSize(n, q + 1) - 1)
      /\ ChunkSize(n, q + 1) \in Int
  BY <1>1, <1>3, <1>4, <1>5, <1>7
<1>9. /\ ChunkAt(addr, q + 1) + j = addr + i
      /\ ChunkAt(addr, q + 1) \in Nat
  BY <1>3, <1>4, <1>7
<1> QED BY <1>3, <1>8, <1>9 DEF q, j, R

(* With no chunk that failed, the buffer holds the chunk just read. *)
LEMMA BufferOfChunk ==
  ASSUME NEW addr, NEW n, NEW k \in Nat \ {0}, NEW j \in 0..(ChunkSize(n, k) - 1)
  PROVE  Buffer(addr, n, {}, k)[j] = Fetched(ChunkAt(addr, k), ChunkSize(n, k), ChunkAt(addr, k) + j)
<1> DEFINE served == (1..k) \ {}
<1>1. k \in served /\ \A l \in served : k >= l
  OBVIOUS
<1>2. Max(served) = k
  BY <1>1 DEF Max
<1> QED BY <1>1, <1>2 DEF Buffer

(* A coherent line and the memory serve the same bytes. *)
LEMMA FetchedIsMemory ==
  ASSUME NeverStale, NEW c \in Nat, NEW n \in Int, NEW j \in 0..(n - 1)
  PROVE  Fetched(c, n, c + j) = mem[c + j]
<1>1. CASE n <= LINE_SIZE /\ Hit(c, n)
  <2>1. /\ valid /\ base = LineBase(c) /\ (c - base) + n <= LINE_SIZE
        /\ data = MemLine(base)
    BY <1>1 DEF Hit, NeverStale
  <2>2. LINE_SIZE \in Nat /\ LINE_SIZE > 0
    BY MemCacheAssumption DEF MemCacheAssumption
  <2>3. base \in Int /\ base <= c
    BY <2>1, <2>2 DEF LineBase
  <2>4. (c + j) - base \in 0..(LINE_SIZE - 1) /\ base + ((c + j) - base) = c + j
    BY <2>1, <2>2, <2>3
  <2>5. data[(c + j) - base] = mem[c + j]
    BY <2>1, <2>4 DEF MemLine
  <2> QED BY <1>1, <2>5 DEF Fetched
<1>2. CASE ~(n <= LINE_SIZE /\ Hit(c, n))
  BY <1>2 DEF Fetched
<1> QED BY <1>1, <1>2

(* A request whose chunks were all read, of a line nobody bypassed, is     *)
(* answered with the memory.                                               *)
LEMMA AnswerIsMemory ==
  ASSUME CacheInv, NEW addr \in Addr, NEW n \in Lengths, m(addr, n)
  PROVE  ReplyIsMemory' /\ NoReplyWhileRunning'
<1>1. UNCHANGED <<mem, running>> /\ ~running
  BY DEF m
<1>2. PICK failed \in SUBSET (1..Chunks(n)), lineFails \in BOOLEAN :
        /\ reply' = [addr |-> addr,
                     bytes |-> [i \in 0..(n - 1) |->
                                  Buffer(addr, n, failed, i \div READ_CHUNK_SIZE + 1)
                                        [i % READ_CHUNK_SIZE]],
                     whole |-> failed = {}]
        /\ Fill(ChunkAt(addr, Chunks(n)), ChunkSize(n, Chunks(n)), lineFails)
  BY Zenon DEF m
<1>3. bypassed' = bypassed
  BY <1>2 DEF Fill, keepCache
<1>4. addr \in Nat /\ n \in Nat
  BY MemCacheAssumption DEF MemCacheAssumption
<1> SUFFICES ASSUME failed = {}, ~bypassed, NEW i \in 0..(n - 1)
             PROVE  Buffer(addr, n, {}, i \div READ_CHUNK_SIZE + 1)[i % READ_CHUNK_SIZE]
                      = mem[addr + i]
  BY <1>1, <1>2, <1>3 DEF ReplyIsMemory, NoReplyWhileRunning
<1> DEFINE k == i \div READ_CHUNK_SIZE + 1
           j == i % READ_CHUNK_SIZE
<1>5. /\ k \in Nat \ {0}
      /\ j \in 0..(ChunkSize(n, k) - 1)
      /\ ChunkAt(addr, k) + j = addr + i
      /\ ChunkAt(addr, k) \in Nat /\ ChunkSize(n, k) \in Int
  BY <1>4, ChunkOfByte
<1> HIDE DEF k, j
<1>6. NeverStale
  BY DEF CacheInv, CacheCoherent
<1>7. Buffer(addr, n, {}, k)[j] = Fetched(ChunkAt(addr, k), ChunkSize(n, k), ChunkAt(addr, k) + j)
  BY <1>5, BufferOfChunk
<1>8. @ = mem[addr + i]
  BY <1>5, <1>6, FetchedIsMemory
<1> QED BY <1>7, <1>8 DEF k, j

(* Without a reply there is nothing to compare. *)
LEMMA NothingToCompare ==
  ASSUME reply' = NoReply
  PROVE  ReplyIsMemory' /\ NoReplyWhileRunning'
BY DEF NoReply, ReplyIsMemory, NoReplyWhileRunning

(* No step makes a reply differ from the memory. *)
LEMMA NextReply == ReplyInv /\ [CacheNext]_cacheVars => ReplyInv'
<1> SUFFICES ASSUME ReplyInv, [CacheNext]_cacheVars PROVE ReplyIsMemory' /\ NoReplyWhileRunning'
  BY CacheNextInv DEF ReplyInv
<1>1. CASE \E a \in Addr, n \in Lengths : m(a, n)
  BY <1>1, AnswerIsMemory DEF ReplyInv
<1>2. ASSUME NEW a \in Hot, NEW v \in Byte,
             \/ Write(a, v) \/ RttWrite(a, v) \/ FlashWrite(a, v)
             \/ FlashBreakpoint(a, v) \/ Execute(a, v) \/ Reset(a, v)
             \/ \E to \in Maps : Attach(to, a, v)
      PROVE  ReplyIsMemory' /\ NoReplyWhileRunning'
  <2>1. CASE Execute(a, v)
    <3>1. reply' = NoReply
      BY <2>1 DEF Execute, ReplyInv, NoReplyWhileRunning
    <3> QED BY <3>1, NothingToCompare
  <2>2. CASE Write(a, v) \/ RttWrite(a, v) \/ FlashWrite(a, v) \/ FlashBreakpoint(a, v) \/ Reset(a, v)
    BY <2>2, NothingToCompare DEF Write, RttWrite, FlashWrite, FlashBreakpoint, Reset
  <2>3. CASE \E to \in Maps : Attach(to, a, v)
    BY <2>3, NothingToCompare DEF Attach
  <2> QED BY <1>2, <2>1, <2>2, <2>3
<1>3. CASE \E a \in Hot : FlashErase(a)
  BY <1>3, NothingToCompare DEF FlashErase
<1>4. CASE FlashDone \/ Resume \/ Detach
  BY <1>4, NothingToCompare DEF FlashDone, Resume, Detach
<1>5. CASE Stop
  BY <1>5 DEF Stop, keepCache, ReplyInv, ReplyIsMemory, NoReplyWhileRunning
<1>6. CASE UNCHANGED cacheVars
  BY <1>6 DEF cacheVars, ReplyInv, ReplyIsMemory, NoReplyWhileRunning
<1> QED BY <1>1, <1>2, <1>3, <1>4, <1>5, <1>6 DEF CacheNext

(* commands/memory.rs:18 "read memory and return hex-encoded bytes": for    *)
(* every line size, request, memory and map, the reply is the memory.      *)
THEOREM RepliesAreMemory == CacheSpec => []ReplyIsMemory
<1>1. CacheInit => ReplyInv
  BY CacheInitInv DEF ReplyInv, CacheInit, NoReply, ReplyIsMemory, NoReplyWhileRunning
<1>2. ReplyInv => ReplyIsMemory
  BY DEF ReplyInv
<1> QED BY <1>1, <1>2, NextReply, PTL DEF CacheSpec

-----------------------------------------------------------------------------
(* The RTT rings.                                                          *)

Deciding == {"data", "offset", "send"}

ChunkFits ==
  pc \in Deciding => chunk \in 1..TRANSFER_BUFFER_SIZE /\ from + chunk <= SIZE

IInv == TypeOK /\ ChunkFits

(* The aligned read fits RTT_BUFFER, one word longer than the largest      *)
(* chunk, and covers the chunk.                                            *)
TransferFits ==
  pc \in Deciding => /\ extra_chunk \in 0..TRANSFER_BUFFER_SIZE + WORD
                     /\ extra + chunk <= extra_chunk

-----------------------------------------------------------------------------
(* The least of two or three naturals.                                     *)
LEMMA LeastIsLeast ==
  ASSUME NEW a \in Nat, NEW b \in Nat, NEW c \in Nat, NEW S, S = {a, b, c}
  PROVE  Least(S) \in S /\ \A x \in S : Least(S) <= x
<1>1. \E n \in S : \A x \in S : n <= x
  <2>1. CASE a <= b /\ a <= c  BY <2>1
  <2>2. CASE b <= a /\ b <= c  BY <2>2
  <2>3. CASE c <= a /\ c <= b  BY <2>3
  <2> QED BY <2>1, <2>2, <2>3
<1> QED BY <1>1, Zenon DEF Least

(* What the steps need of the constants, apart from the remainders.        *)
Constants ==
  /\ UpChannels \in 1..4 /\ SIZE \in Nat \ {0, 1} /\ WORD \in {2, 4}
  /\ Offset \in [Channel -> 0..WORD - 1]
  /\ TRANSFER_BUFFER_SIZE \in Nat \ {0}
  /\ RTT_POLL_ROUNDUP \in Nat \ {0} /\ ClockSize \in Nat \ {0}
  /\ PortSize \in Nat /\ ScantRoom \in Nat /\ NominalRoom \in Nat \ {0}

LEMMA ConstantsTyped ==
  ASSUME RttAssumption PROVE Constants
BY Zenon DEF RttAssumption, Constants

LEMMA Aligned ==
  ASSUME RttAssumption PROVE TRANSFER_BUFFER_SIZE % WORD = 0
BY Zenon DEF RttAssumption

LEMMA RemainderTyped ==
  ASSUME NEW n \in Nat \ {0}, NEW i \in Nat PROVE i % n \in 0..n - 1
OBVIOUS

(* How far an aligned read reaches.                                        *)
LEMMA AlignedRead ==
  ASSUME NEW w \in {2, 4}, NEW b \in Nat, b % w = 0, NEW e \in 0..w - 1, NEW n \in 1..b
  PROVE  LET top == n + w - 1 + e
         IN  top - (top % w) \in 0..b + w /\ e + n <= top - (top % w)
<1>1. CASE w = 2
  BY <1>1
<1>2. CASE w = 4
  BY <1>2
<1> QED BY <1>1, <1>2

LEMMA ExtraTyped ==
  ASSUME Constants, TypeOK PROVE extra \in 0..WORD - 1
<1>1. Offset[index] \in 0..WORD - 1 /\ from \in 0..SIZE - 1
  BY DEF TypeOK, PollTyped, Cell, Constants
<1>2. Offset[index] + from \in Nat /\ WORD \in Nat \ {0}
  BY <1>1 DEF Constants
<1> QED BY <1>2, RemainderTyped, Zenon DEF extra

LEMMA ChunkFitsBuffer ==
  ASSUME Constants, IInv, TRANSFER_BUFFER_SIZE % WORD = 0 PROVE TransferFits
<1> SUFFICES ASSUME pc \in Deciding PROVE TransferFits
  BY DEF TransferFits
<1>1. extra \in 0..WORD - 1
  BY ExtraTyped DEF IInv
<1>2. chunk \in 1..TRANSFER_BUFFER_SIZE
  BY DEF IInv, ChunkFits
<1>3. extra_chunk \in 0..TRANSFER_BUFFER_SIZE + WORD /\ extra + chunk <= extra_chunk
  <2>1. WORD \in {2, 4} /\ TRANSFER_BUFFER_SIZE \in Nat /\ TRANSFER_BUFFER_SIZE % WORD = 0
    BY DEF Constants
  <2> QED BY <1>1, <1>2, <2>1, AlignedRead, Zenon DEF extra_chunk
<1> QED BY <1>3 DEF TransferFits
-----------------------------------------------------------------------------
LEMMA InitIInv ==
  ASSUME Constants, Init PROVE IInv
<1>1. 0 \in Cell /\ 0 \in Channel
  BY DEF Cell, Channel, Constants
<1>2. TargetTyped
  BY <1>1 DEF Init, TargetTyped, Other
<1>3. PortTyped
  <2>1. 0 \in 0..PortSize /\ <<>> \in Seq(Nat)
    BY DEF Constants
  <2> QED BY <2>1 DEF Init, PortTyped
<1>4. ClockTyped
  <2>1. 0 \in 0..RTT_POLL_ROUNDUP - 1 /\ 0 \in 0..ClockSize - 1
    BY DEF Constants
  <2> QED BY <2>1 DEF Init, ClockTyped
<1>5. PollTyped
  BY <1>1 DEF Init, PollTyped, Other
<1> QED BY <1>2, <1>3, <1>4, <1>5 DEF Init, IInv, TypeOK, ChunkFits, Deciding

(* The target, the port, the clock and GDB leave the poll alone.           *)
PollKept == UNCHANGED <<poll, transfer, faults>> /\ mishaps' \subseteq Mishap

LEMMA KeptPoll ==
  ASSUME IInv, PollKept PROVE PollTyped' /\ ChunkFits'
BY DEF PollKept, poll, IInv, TypeOK, PollTyped, ChunkFits

LEMMA TargetStep ==
  ASSUME Constants, IInv, (\E c \in Channel : Put(c)) \/ Restart \/ SEGGER_RTT_Init
  PROVE  IInv'
<1>1. PortTyped' /\ ClockTyped' /\ PollKept
  BY DEF Put, Restart, SEGGER_RTT_Init, IInv, TypeOK, PortTyped, ClockTyped, PollTyped,
         PollKept, port, rtt, Mishap
<1>2. ASSUME NEW c \in Channel, Put(c) PROVE TargetTyped'
  <2>1. wr[c] \in Cell /\ made[c] \in Nat /\ SIZE \in Nat \ {0}
    BY DEF IInv, TypeOK, TargetTyped, Constants
  <2>2. wr[c] + 1 \in Nat
    BY <2>1 DEF Cell
  <2>3. (wr[c] + 1) % SIZE \in Cell
    BY <2>1, <2>2, RemainderTyped, Zenon DEF Cell
  <2> QED BY <1>2, <2>1, <2>3 DEF Put, IInv, TypeOK, TargetTyped
<1>3. ASSUME Restart PROVE TargetTyped'
  <2>1. 0 \in Cell
    BY DEF Cell, Constants
  <2>2. \A c \in Channel : {ring[c][i] : i \in Unread(c)} \subseteq Nat
    BY DEF IInv, TypeOK, TargetTyped, Unread
  <2> QED BY <1>3, <2>1, <2>2 DEF Restart, IInv, TypeOK, TargetTyped
<1>4. ASSUME SEGGER_RTT_Init PROVE TargetTyped'
  <2>1. 0 \in Cell
    BY DEF Cell, Constants
  <2> QED BY <1>4, <2>1 DEF SEGGER_RTT_Init, IInv, TypeOK, TargetTyped
<1> QED BY <1>1, <1>2, <1>3, <1>4, KeptPoll DEF IInv, TypeOK

LEMMA PortStep ==
  ASSUME Constants, IInv, HostReads \/ OtherOutput \/ Tick
                          \/ \E on \in BOOLEAN : Enable(on) \/ Symbol(on)
  PROVE  IInv'
<1>1. TargetTyped' /\ PollKept
  BY DEF HostReads, OtherOutput, Tick, Enable, Symbol, IInv, TypeOK, TargetTyped, PollTyped,
         PollKept, target
<1>2. PortTyped'
  BY DEF HostReads, OtherOutput, Tick, Enable, Symbol, IInv, TypeOK, PortTyped, port, Constants
<1>3. ClockTyped'
  <2>1. ASSUME Tick PROVE tick' \in 0..RTT_POLL_ROUNDUP - 1
    <3>1. tick + 1 \in Nat /\ RTT_POLL_ROUNDUP \in Nat \ {0}
      BY DEF IInv, TypeOK, ClockTyped, Constants
    <3> QED BY <2>1, <3>1, RemainderTyped DEF Tick
  <2> QED BY <2>1 DEF HostReads, OtherOutput, Tick, Enable, Symbol, IInv, TypeOK, ClockTyped, rtt
<1> QED BY <1>1, <1>2, <1>3, KeptPoll DEF IInv, TypeOK
-----------------------------------------------------------------------------
(* The clock: the time of a poll is one a u32 holds.                       *)
LEMMA DueStep ==
  ASSUME Constants, IInv, Due PROVE IInv'
<1>1. last_time' \in 0..ClockSize - 1
  BY DEF Due, Later, IInv, TypeOK, ClockTyped
<1>2. ClockTyped'
  BY <1>1 DEF Due, IInv, TypeOK, ClockTyped, rtt
<1>3. TargetTyped' /\ PortTyped'
  BY DEF Due, IInv, TypeOK, TargetTyped, PortTyped, target, port
<1>4. PollTyped' /\ ChunkFits'
  BY DEF Due, IInv, TypeOK, PollTyped, ChunkFits, Deciding
<1> QED BY <1>2, <1>3, <1>4 DEF IInv, TypeOK

(* The end of a channel decides nothing for the next one.                  *)
LEMMA NextChannelTyped ==
  ASSUME UpChannels \in 1..4, index \in Channel, NextChannel
  PROVE  pc' \in {"descriptor", "idle"} /\ index' \in Channel
BY DEF NextChannel, Channel

(* The chunk read from the descriptor is inside the ring and the buffer.   *)
LEMMA ChunkTyped ==
  ASSUME Constants, TypeOK, Room > ScantRoom, wr[index] # rd[index]
  PROVE  Chunk \in 1..TRANSFER_BUFFER_SIZE /\ rd[index] + Chunk <= SIZE
<1> DEFINE ahead == (IF rd[index] < wr[index] THEN wr[index] ELSE SIZE) - rd[index]
<1>1. ahead \in Nat \ {0} /\ rd[index] + ahead <= SIZE /\ rd[index] \in Nat
  <2>1. wr[index] \in 0..SIZE - 1 /\ rd[index] \in 0..SIZE - 1
    BY DEF TypeOK, TargetTyped, PollTyped, Cell
  <2> QED BY <2>1 DEF Constants
<1>2. Room \in Nat \ {0}
  BY DEF Room, TypeOK, PortTyped, Constants
<1>3. TRANSFER_BUFFER_SIZE \in Nat \ {0}
  BY DEF Constants
<1> DEFINE S == {ahead, TRANSFER_BUFFER_SIZE, Room}
<1>4. Chunk = Least(S)
  BY DEF Chunk
<1> HIDE DEF ahead
<1>5. Chunk \in S /\ \A x \in S : Chunk <= x
  <2>1. Least(S) \in S /\ \A x \in S : Least(S) <= x
    BY <1>1, <1>2, <1>3, LeastIsLeast
  <2> HIDE DEF S
  <2> QED BY <2>1, <1>4
<1>6. Chunk \in Nat \ {0} /\ Chunk <= ahead /\ Chunk <= TRANSFER_BUFFER_SIZE
  BY <1>1, <1>2, <1>3, <1>5
<1>7. SIZE \in Nat
  BY DEF Constants
<1> HIDE DEF S
<1> QED BY <1>1, <1>3, <1>6, <1>7

LEMMA ReadDescriptorStep ==
  ASSUME Constants, IInv, ReadDescriptor PROVE IInv'
<1>1. TargetTyped' /\ PortTyped' /\ ClockTyped'
  BY DEF ReadDescriptor, IInv, TypeOK, TargetTyped, PortTyped, ClockTyped, target, port, rtt
<1>2. CASE /\ Room > ScantRoom /\ ready /\ wr[index] # rd[index]
           /\ from' = rd[index] /\ chunk' = Chunk
           /\ pc' = "data" /\ UNCHANGED <<index, faults>>
  <2>1. Chunk \in 1..TRANSFER_BUFFER_SIZE /\ rd[index] + Chunk <= SIZE
    BY <1>2, ChunkTyped DEF IInv
  <2>2. Chunk \in Nat /\ rd[index] \in Cell
    BY <2>1 DEF IInv, TypeOK, TargetTyped, PollTyped, Constants
  <2>3. PollTyped' /\ ChunkFits'
    BY <1>2, <2>1, <2>2 DEF ReadDescriptor, IInv, TypeOK, PollTyped, ChunkFits
  <2> QED BY <1>1, <2>3 DEF IInv, TypeOK
<1>3. CASE NextChannel /\ UNCHANGED <<from, chunk>> /\ faults' \in Nat
  <2>1. pc' \in {"descriptor", "idle"} /\ index' \in Channel
    BY <1>3, NextChannelTyped DEF Constants, IInv, TypeOK, PollTyped
  <2>2. PollTyped' /\ ChunkFits'
    BY <1>3, <2>1 DEF ReadDescriptor, IInv, TypeOK, PollTyped, ChunkFits, Deciding
  <2> QED BY <1>1, <2>2 DEF IInv, TypeOK
<1>4. faults \in Nat
  BY DEF IInv, TypeOK, PollTyped
<1> QED BY <1>2, <1>3, <1>4 DEF ReadDescriptor, Fault

LEMMA ReadDataStep ==
  ASSUME Constants, IInv, ReadData PROVE IInv'
<1>1. TargetTyped' /\ PortTyped' /\ ClockTyped'
  BY DEF ReadData, IInv, TypeOK, TargetTyped, PortTyped, ClockTyped, target, port, rtt
<1>2. CASE /\ transfer' = [i \in Slot |-> IF i < extra_chunk THEN At(from - extra + i)
                                                            ELSE transfer[i]]
           /\ pc' = "offset" /\ UNCHANGED <<index, faults, mishaps>>
  <2>1. \A i : At(i) \in Nat
    BY DEF At, IInv, TypeOK, TargetTyped, PollTyped, Other
  <2>2. transfer' \in [Slot -> Nat]
    <3>1. \A i \in Slot : transfer[i] \in Nat
      BY DEF IInv, TypeOK, PollTyped
    <3> QED BY <1>2, <2>1, <3>1
  <2>3. PollTyped' /\ ChunkFits'
    BY <1>2, <2>2 DEF ReadData, IInv, TypeOK, PollTyped, ChunkFits, Deciding
  <2> QED BY <1>1, <2>3 DEF IInv, TypeOK
<1>3. CASE /\ Fault /\ pc' = "offset" /\ mishaps' = mishaps \cup {"cut"}
           /\ UNCHANGED <<index, transfer>>
  <2>1. PollTyped' /\ ChunkFits'
    BY <1>3 DEF ReadData, Fault, Mishap, IInv, TypeOK, PollTyped, ChunkFits, Deciding
  <2> QED BY <1>1, <2>1 DEF IInv, TypeOK
<1>4. CASE needs_halt /\ Fault /\ NextChannel /\ UNCHANGED <<transfer, mishaps>>
  <2>1. pc' \in {"descriptor", "idle"} /\ index' \in Channel
    BY <1>4, NextChannelTyped DEF Constants, IInv, TypeOK, PollTyped
  <2>2. PollTyped' /\ ChunkFits'
    BY <1>4, <2>1 DEF ReadData, Fault, IInv, TypeOK, PollTyped, ChunkFits, Deciding
  <2> QED BY <1>1, <2>2 DEF IInv, TypeOK
<1> QED BY <1>2, <1>3, <1>4 DEF ReadData

(* The offset written back is one of the ring.                             *)
LEMMA WriteOffsetStep ==
  ASSUME Constants, IInv, WriteOffset PROVE IInv'
<1>1. new_read \in Cell
  <2>1. from \in 0..SIZE - 1 /\ chunk \in Nat /\ from + chunk <= SIZE
    BY DEF WriteOffset, IInv, TypeOK, PollTyped, ChunkFits, Deciding, Cell
  <2> QED BY <2>1 DEF new_read, Cell, Constants
<1>2. TargetTyped'
  BY <1>1 DEF WriteOffset, IInv, TypeOK, TargetTyped
<1>3. PortTyped' /\ ClockTyped'
  BY DEF WriteOffset, IInv, TypeOK, PortTyped, ClockTyped, port, rtt
<1>4. faults' \in Nat /\ mishaps' \subseteq Mishap
  <2>1. faults' \in {faults, faults + 1} /\ mishaps' \subseteq mishaps \cup {"cut"}
    BY DEF WriteOffset, Fault
  <2>2. faults \in Nat /\ mishaps \subseteq Mishap
    BY DEF IInv, TypeOK, PollTyped
  <2> QED BY <2>1, <2>2 DEF Mishap
<1>5. pc = "offset" /\ pc' = "send" /\ UNCHANGED <<index, from, chunk, transfer>>
  BY DEF WriteOffset
<1>6. PollTyped' /\ ChunkFits'
  BY <1>4, <1>5 DEF IInv, TypeOK, PollTyped, ChunkFits, Deciding
<1> QED BY <1>2, <1>3, <1>6 DEF IInv, TypeOK

LEMMA SendStep ==
  ASSUME Constants, IInv, TransferFits, Send PROVE IInv'
<1> DEFINE n == Least({chunk, PortSize - queued})
           sent == [i \in 1..n |-> transfer[extra + i - 1]]
<1>1. chunk \in Nat /\ PortSize - queued \in Nat /\ queued \in Nat
  BY DEF IInv, TypeOK, PollTyped, PortTyped, Constants
<1>2. n \in Nat /\ n <= chunk /\ n <= PortSize - queued
  <2> DEFINE S == {chunk, PortSize - queued}
  <2>1. S = {chunk, PortSize - queued, PortSize - queued}
    OBVIOUS
  <2>2. Least(S) \in S /\ \A x \in S : Least(S) <= x
    <3> HIDE DEF S
    <3> QED BY <1>1, <2>1, LeastIsLeast
  <2> QED BY <1>1, <2>2
<1>3. sent \in Seq(Nat)
  <2>1. extra \in Nat /\ extra_chunk <= TRANSFER_BUFFER_SIZE + WORD
        /\ extra + chunk <= extra_chunk /\ extra_chunk \in Nat
    BY ExtraTyped DEF Send, TransferFits, Deciding, Constants, IInv
  <2> HIDE DEF n
  <2>2. \A i \in 1..n : extra + i - 1 \in Slot
    BY <1>1, <1>2, <2>1 DEF Slot, Constants
  <2>3. \A i \in 1..n : transfer[extra + i - 1] \in Nat
    BY <2>2 DEF IInv, TypeOK, PollTyped
  <2> QED BY <1>2, <2>3
<1>4. delivered' \in [Channel -> Seq(Nat)]
  <2>1. delivered' = [delivered EXCEPT ![index] = @ \o sent]
    BY DEF Send, sent
  <2> HIDE DEF sent
  <2>2. \A d \in Seq(Nat) : d \o sent \in Seq(Nat)
    BY <1>3
  <2> QED BY <2>1, <2>2 DEF IInv, TypeOK, PortTyped
<1>5. queued' \in 0..PortSize /\ mishaps' \subseteq Mishap
  <2>1. queued' = queued + n /\ mishaps' = mishaps \cup (IF n < chunk THEN {"full"} ELSE {})
    BY DEF Send
  <2> HIDE DEF n
  <2> QED BY <1>1, <1>2, <2>1 DEF IInv, TypeOK, PollTyped, Mishap, Constants
<1>6. pc' \in {"descriptor", "idle"} /\ index' \in Channel
  BY NextChannelTyped DEF Send, Constants, IInv, TypeOK, PollTyped
<1>7. TargetTyped' /\ ClockTyped'
  BY DEF Send, IInv, TypeOK, TargetTyped, ClockTyped, target, rtt
<1>8. PortTyped'
  BY <1>4, <1>5 DEF Send, IInv, TypeOK, PortTyped
<1>9. PollTyped' /\ ChunkFits'
  BY <1>5, <1>6 DEF Send, IInv, TypeOK, PollTyped, ChunkFits, Deciding
<1> QED BY <1>7, <1>8, <1>9 DEF IInv, TypeOK

LEMMA PollStep ==
  ASSUME Constants, IInv, TransferFits, Poll PROVE IInv'
<1>1. ASSUME Hang \/ ReadHeader PROVE IInv'
  <2>1. TargetTyped' /\ PortTyped' /\ ClockTyped'
    BY <1>1 DEF Hang, ReadHeader, IInv, TypeOK, TargetTyped, PortTyped, ClockTyped,
                target, port, rtt
  <2>2. 0 \in Channel
    BY DEF Channel, Constants
  <2>3. faults' \in Nat /\ mishaps' \subseteq Mishap
    <3>1. faults' \in {faults, faults + 1} /\ mishaps' \subseteq mishaps \cup {"uptime"}
      BY <1>1 DEF Hang, ReadHeader, Fault
    <3>2. faults \in Nat /\ mishaps \subseteq Mishap
      BY DEF IInv, TypeOK, PollTyped
    <3> QED BY <3>1, <3>2 DEF Mishap
  <2>4. pc' \in {"descriptor", "idle", "hung"} /\ index' \in Channel
    BY <1>1, <2>2 DEF Hang, ReadHeader, IInv, TypeOK, PollTyped
  <2>5. PollTyped' /\ ChunkFits'
    <3>1. UNCHANGED <<from, chunk, transfer>>
      BY <1>1 DEF Hang, ReadHeader
    <3> QED BY <2>3, <2>4, <3>1 DEF IInv, TypeOK, PollTyped, ChunkFits, Deciding
  <2> QED BY <2>1, <2>5 DEF IInv, TypeOK
<1> QED BY <1>1, DueStep, ReadDescriptorStep, ReadDataStep, WriteOffsetStep, SendStep
        DEF Poll

LEMMA StepIInv ==
  ASSUME Constants, IInv, TransferFits, [Next]_vars PROVE IInv'
<1>1. CASE UNCHANGED vars
  BY <1>1 DEF vars, target, port, rtt, poll, IInv, TypeOK, TargetTyped, PortTyped, ClockTyped,
              PollTyped, ChunkFits
<1>2. CASE Next
  BY <1>2, TargetStep, PortStep, PollStep DEF Next
<1> QED BY <1>1, <1>2
-----------------------------------------------------------------------------
(* The variables keep their types; in particular the read offset the probe *)
(* writes back into the target is always one of the ring (rtt.rs:497).     *)
THEOREM Typed ==
  ASSUME RttAssumption PROVE Spec => []TypeOK
<1>1. Init => IInv
  BY ConstantsTyped, InitIInv
<1>2. IInv /\ [Next]_vars => IInv'
  BY ConstantsTyped, Aligned, ChunkFitsBuffer, StepIInv
<1>3. IInv => TypeOK
  BY DEF IInv
<1> QED BY <1>1, <1>2, <1>3, PTL DEF Spec

(* rtt.rs:243: the aligned read of a chunk never runs past RTT_BUFFER, and *)
(* what is sent was read.                                                  *)
THEOREM ReadsFitTheBuffer ==
  ASSUME RttAssumption PROVE Spec => []TransferFits
<1>1. Init => IInv
  BY ConstantsTyped, InitIInv
<1>2. IInv /\ [Next]_vars => IInv'
  BY ConstantsTyped, Aligned, ChunkFitsBuffer, StepIInv
<1>3. IInv => TransferFits
  BY ConstantsTyped, Aligned, ChunkFitsBuffer
<1> QED BY <1>1, <1>2, <1>3, PTL DEF Spec
-----------------------------------------------------------------------------
(* The order of the bytes.                                                 *)

(* How far the cell i lies behind the cell r, around the ring.             *)
Dist(i, r) == (i - r) % SIZE

(* What is unread in the ring of c, and the last byte that is not.         *)
Level(c) == Dist(wr[c], rd[c])
Read(c)  == made[c] - Level(c)

(* The cells to read hold the bytes that follow.                           *)
RingInv(c) ==
  /\ Level(c) <= made[c]
  /\ \A i \in Cell : Dist(i, rd[c]) < Level(c) => ring[c][i] = Read(c) + Dist(i, rd[c]) + 1

Increasing(s) == \A i, j \in DOMAIN s : i < j => s[i] < s[j]

(* All that was read and not lost is sent, unless it waits to be.          *)
SentInv(c) ==
  /\ lost[c] \subseteq 1..Read(c)
  /\ Increasing(delivered[c])
  /\ ~(pc = "send" /\ index = c) => SentBytes(c) = (1..Read(c)) \ lost[c]

(* The transfer holds the bytes that follow t.                             *)
Holds(t) == \A i \in 1..chunk : transfer[extra + i - 1] = t + i

(* What the poll decided stays true until it acts on it.                   *)
DataInv ==
  pc \in {"data", "offset"} => ready /\ from = rd[index] /\ chunk <= Level(index)
OffsetInv ==
  pc = "offset" => Holds(Read(index))
SendInv ==
  pc = "send" =>
    \E t \in Nat :
      /\ Holds(t)
      /\ SentBytes(index) \subseteq 1..t
      /\ SentBytes(index) \cup (t + 1..t + chunk) = (1..Read(index)) \ lost[index]

OrderInv ==
  mishaps = {} =>
    /\ \A c \in Channel : RingInv(c) /\ SentInv(c)
    /\ DataInv /\ OffsetInv /\ SendInv
    /\ ~ready => \A c \in Channel : wr[c] = rd[c]

-----------------------------------------------------------------------------
(* Distances around a ring.                                                *)
LEMMA RemainderOnce ==
  ASSUME NEW n \in Nat \ {0}, NEW a \in Int, -n <= a, a <= n
  PROVE  a % n = IF a = n THEN 0 ELSE IF a >= 0 THEN a ELSE a + n
<1>1. ASSUME NEW q \in Int, NEW x \in Int, a = n * q + x, x \in 0..n - 1
      PROVE  x = IF a = n THEN 0 ELSE IF a >= 0 THEN a ELSE a + n
  <2>1. CASE q = 0
    BY <1>1, <2>1
  <2>2. CASE q = -1
    BY <1>1, <2>2
  <2>3. CASE q = 1
    BY <1>1, <2>3
  <2>4. CASE q >= 2
    <3>1. n * q >= n * 2
      BY <2>4
    <3> QED BY <1>1, <3>1
  <2>5. CASE q <= -2
    <3>1. n * q <= n * (-2)
      BY <2>5
    <3> QED BY <1>1, <3>1
  <2> QED BY <1>1, <2>1, <2>2, <2>3, <2>4, <2>5
<1>2. a = n * (a \div n) + (a % n) /\ a % n \in 0..n - 1 /\ a \div n \in Int
  OBVIOUS
<1> QED BY <1>1, <1>2

LEMMA DistIs ==
  ASSUME Constants, NEW i \in Cell, NEW r \in Cell
  PROVE  /\ Dist(i, r) = IF r <= i THEN i - r ELSE i - r + SIZE
         /\ Dist(i, r) \in Cell
<1>1. i \in 0..SIZE - 1 /\ r \in 0..SIZE - 1 /\ SIZE \in Nat \ {0}
  BY DEF Cell, Constants
<1>2. i - r \in Int /\ -SIZE <= i - r /\ i - r < SIZE
  BY <1>1
<1>3. i - r <= SIZE /\ SIZE \in Nat \ {0}
  BY <1>1, <1>2
<1>4. Dist(i, r) = IF i - r = SIZE THEN 0 ELSE IF i - r >= 0 THEN i - r ELSE i - r + SIZE
  BY <1>2, <1>3, RemainderOnce, Zenon DEF Dist
<1> QED BY <1>1, <1>4 DEF Cell

LEMMA DistTyped ==
  ASSUME Constants
  PROVE  \A i, r \in Cell : Dist(i, r) \in Nat
<1> SUFFICES ASSUME NEW i \in Cell, NEW r \in Cell PROVE Dist(i, r) \in Nat
  OBVIOUS
<1>1. Dist(i, r) \in Cell
  BY DistIs, Zenon
<1> QED BY <1>1 DEF Cell

LEMMA DistAhead ==
  ASSUME Constants, NEW r \in Cell, NEW k \in Nat, r + k \in Cell
  PROVE  Dist(r + k, r) = k
<1> DEFINE i == r + k
<1>1. r \in Nat /\ SIZE \in Nat /\ i \in Cell /\ r <= i
  BY DEF Cell, Constants
<1>2. i - r = k
  BY <1>1
<1> HIDE DEF i
<1>3. Dist(i, r) = i - r
  BY <1>1, DistIs
<1> QED BY <1>2, <1>3 DEF i

(* The cell behind w, unless it is the one to read, is one further.        *)
LEMMA DistOfNext ==
  ASSUME Constants, NEW w \in Cell, NEW r \in Cell, (w + 1) % SIZE # r
  PROVE  (w + 1) % SIZE \in Cell /\ Dist((w + 1) % SIZE, r) = Dist(w, r) + 1
<1>1. w \in 0..SIZE - 1 /\ r \in 0..SIZE - 1 /\ SIZE \in Nat \ {0, 1}
  BY DEF Cell, Constants
<1>2. (w + 1) % SIZE = IF w + 1 = SIZE THEN 0 ELSE w + 1
  <2>1. w + 1 \in Int /\ -SIZE <= w + 1 /\ w + 1 <= SIZE /\ SIZE \in Nat \ {0}
    BY <1>1
  <2>2. (w + 1) % SIZE = IF w + 1 = SIZE THEN 0 ELSE IF w + 1 >= 0 THEN w + 1 ELSE w + 1 + SIZE
    BY <2>1, RemainderOnce, Zenon
  <2> QED BY <1>1, <2>2
<1>3. (w + 1) % SIZE \in Cell
  BY <1>1, <1>2 DEF Cell
<1> DEFINE v == (w + 1) % SIZE
<1>4. Dist(v, r) = IF r <= v THEN v - r ELSE v - r + SIZE
  BY <1>3, DistIs
<1>5. Dist(w, r) = IF r <= w THEN w - r ELSE w - r + SIZE
  BY DistIs
<1> QED BY <1>1, <1>2, <1>3, <1>4, <1>5

(* No two cells are at the same distance, and there is one at each.        *)
LEMMA DistInjective ==
  ASSUME Constants, NEW i \in Cell, NEW j \in Cell, NEW r \in Cell, Dist(i, r) = Dist(j, r)
  PROVE  i = j
<1>1. i \in 0..SIZE - 1 /\ j \in 0..SIZE - 1 /\ r \in 0..SIZE - 1 /\ SIZE \in Nat \ {0}
  BY DEF Cell, Constants
<1> QED BY <1>1, DistIs

LEMMA DistSurjective ==
  ASSUME Constants, NEW k \in Cell, NEW r \in Cell
  PROVE  \E i \in Cell : Dist(i, r) = k
<1>1. k \in 0..SIZE - 1 /\ r \in 0..SIZE - 1 /\ SIZE \in Nat \ {0}
  BY DEF Cell, Constants
<1> DEFINE i == IF r + k < SIZE THEN r + k ELSE r + k - SIZE
<1>2. i \in Cell
  BY <1>1 DEF Cell
<1>3. Dist(i, r) = IF r <= i THEN i - r ELSE i - r + SIZE
  BY <1>2, DistIs
<1>4. Dist(i, r) = k
  BY <1>1, <1>3
<1> QED BY <1>2, <1>4

(* Reading n cells from r on brings what lies behind them n nearer.        *)
LEMMA DistOfRead ==
  ASSUME Constants, NEW w \in Cell, NEW r \in Cell, NEW n \in Nat,
         r + n <= SIZE, n <= Dist(w, r)
  PROVE  LET q == IF r + n = SIZE THEN 0 ELSE r + n
         IN  /\ q \in Cell
             /\ Dist(w, q) = Dist(w, r) - n
             /\ \A i \in Cell : Dist(i, q) < Dist(w, q) => Dist(i, r) = Dist(i, q) + n
<1> DEFINE q == IF r + n = SIZE THEN 0 ELSE r + n
<1>1. w \in 0..SIZE - 1 /\ r \in 0..SIZE - 1 /\ SIZE \in Nat \ {0}
  BY DEF Cell, Constants
<1>2. q \in Cell
  BY <1>1 DEF Cell
<1> HIDE DEF q
<1>3. \A i \in Cell : Dist(i, q) = IF q <= i THEN i - q ELSE i - q + SIZE
  BY <1>2, DistIs
<1>4. \A i \in Cell : Dist(i, r) = IF r <= i THEN i - r ELSE i - r + SIZE
  BY DistIs
<1>5. Dist(w, q) = Dist(w, r) - n
  BY <1>1, <1>3, <1>4 DEF q
<1>6. ASSUME NEW i \in Cell, Dist(i, q) < Dist(w, q)
      PROVE  Dist(i, r) = Dist(i, q) + n
  <2>1. i \in 0..SIZE - 1
    BY DEF Cell
  <2>2. Dist(i, q) = IF q <= i THEN i - q ELSE i - q + SIZE
    BY <1>3
  <2>3. Dist(i, r) = IF r <= i THEN i - r ELSE i - r + SIZE
    BY <1>4
  <2>4. Dist(w, r) = IF r <= w THEN w - r ELSE w - r + SIZE
    BY <1>4
  <2> HIDE DEF Dist
  <2> QED BY <1>1, <1>5, <1>6, <2>1, <2>2, <2>3, <2>4 DEF q
<1> QED BY <1>2, <1>5, <1>6 DEF q

-----------------------------------------------------------------------------
(* The levels are numbers.                                                 *)
LEMMA LevelTyped ==
  ASSUME Constants, IInv, NEW c \in Channel
  PROVE  /\ Level(c) \in Cell /\ made[c] \in Nat /\ Read(c) \in Int
         /\ wr[c] \in Cell /\ rd[c] \in Cell /\ SIZE \in Nat
<1>1. wr[c] \in Cell /\ rd[c] \in Cell /\ made[c] \in Nat /\ SIZE \in Nat
  BY DEF IInv, TypeOK, TargetTyped, Constants
<1>2. Level(c) \in Cell
  BY <1>1, DistIs DEF Level
<1> QED BY <1>1, <1>2 DEF Read, Cell

(* A channel nobody touches.                                               *)
LEMMA ChannelKept ==
  ASSUME NEW c \in Channel, wr'[c] = wr[c], rd'[c] = rd[c], made'[c] = made[c]
  PROVE  /\ Level(c)' = Level(c) /\ Read(c)' = Read(c)
         /\ RingInv(c) /\ ring'[c] = ring[c] => RingInv(c)'
BY DEF Level, Read, RingInv, Dist

LEMMA SentKept ==
  ASSUME NEW c \in Channel, delivered'[c] = delivered[c]
  PROVE  SentBytes(c)' = SentBytes(c)
BY DEF SentBytes

(* A step outside the poll's decisions that leaves target and host alone.  *)
LEMMA NothingDecided ==
  ASSUME OrderInv, mishaps = {}, UNCHANGED <<target, delivered>>, pc # "send", pc' \notin Deciding
  PROVE  OrderInv'
<1>1. ASSUME NEW c \in Channel PROVE RingInv(c)' /\ SentInv(c)'
  <2>1. /\ wr'[c] = wr[c] /\ rd'[c] = rd[c] /\ made'[c] = made[c] /\ ring'[c] = ring[c]
        /\ lost'[c] = lost[c] /\ delivered'[c] = delivered[c]
    BY DEF target
  <2>2. RingInv(c) /\ SentInv(c)
    BY DEF OrderInv
  <2>3. SentBytes(c) = (1..Read(c)) \ lost[c]
    BY <2>2 DEF SentInv
  <2> QED BY <2>1, <2>2, <2>3, ChannelKept, SentKept DEF SentInv, Increasing
<1>2. DataInv' /\ OffsetInv' /\ SendInv'
  BY DEF DataInv, OffsetInv, SendInv, Deciding
<1>3. ~ready' => \A c \in Channel : wr'[c] = rd'[c]
  BY DEF OrderInv, target
<1> QED BY <1>1, <1>2, <1>3 DEF OrderInv

(* A step that leaves target, host and poll alone.                         *)
LEMMA OrderKept ==
  ASSUME OrderInv, UNCHANGED <<target, delivered, poll, transfer, mishaps>>
  PROVE  OrderInv'
BY DEF OrderInv, target, poll, RingInv, SentInv, SentBytes, Increasing, DataInv, OffsetInv,
       SendInv, Holds, Level, Read, Dist, extra
-----------------------------------------------------------------------------
(* The target writes behind what is unread.                                *)
LEMMA PutRing ==
  ASSUME Constants, IInv, OrderInv, NEW c \in Channel, Put(c)
  PROVE  /\ RingInv(c)' /\ Read(c)' = Read(c) /\ Level(c) <= Level(c)'
         /\ \A d \in Channel : d # c =>
              /\ wr'[d] = wr[d] /\ made'[d] = made[d] /\ ring'[d] = ring[d]
<1>1. /\ Level(c) \in Cell /\ made[c] \in Nat /\ Read(c) \in Int
      /\ wr[c] \in Cell /\ rd[c] \in Cell /\ SIZE \in Nat
  BY LevelTyped
<1>2. /\ (wr[c] + 1) % SIZE # rd[c]
      /\ made' = [made EXCEPT ![c] = @ + 1]
      /\ ring' = [ring EXCEPT ![c][wr[c]] = made[c] + 1]
      /\ wr' = [wr EXCEPT ![c] = (@ + 1) % SIZE]
      /\ rd' = rd
  BY DEF Put
<1>3. /\ ring \in [Channel -> [Cell -> Nat]] /\ made \in [Channel -> Nat]
      /\ wr \in [Channel -> Cell]
  BY DEF IInv, TypeOK, TargetTyped
<1>4. /\ made'[c] = made[c] + 1 /\ wr'[c] = (wr[c] + 1) % SIZE
      /\ ring'[c][wr[c]] = made[c] + 1
      /\ \A i \in Cell : i # wr[c] => ring'[c][i] = ring[c][i]
      /\ \A d \in Channel : d # c =>
           wr'[d] = wr[d] /\ made'[d] = made[d] /\ ring'[d] = ring[d]
  BY <1>1, <1>2, <1>3
<1>5. Level(c)' = Level(c) + 1
  BY <1>1, <1>2, <1>4, DistOfNext DEF Level
<1>6. Read(c)' = Read(c)
  <2>1. Level(c) \in Nat
    BY <1>1 DEF Cell
  <2> QED BY <1>1, <1>4, <1>5, <2>1 DEF Read
<1>7. RingInv(c)'
  <2>1. RingInv(c) /\ Level(c) \in Nat
    BY <1>1 DEF OrderInv, Put, Calm, Cell
  <2>2. Level(c)' <= made'[c]
    BY <1>1, <1>4, <1>5, <2>1 DEF RingInv
  <2>3. ASSUME NEW i \in Cell, Dist(i, rd[c]) < Level(c) + 1
        PROVE  ring'[c][i] = Read(c) + Dist(i, rd[c]) + 1
    <3>1. Dist(i, rd[c]) \in Nat
      BY <1>1, DistTyped
    <3>2. CASE i = wr[c]
      <4>1. Dist(i, rd[c]) = Level(c)
        BY <3>2 DEF Level
      <4> QED BY <1>1, <1>4, <2>1, <3>2, <4>1 DEF Read
    <3>3. CASE i # wr[c]
      <4>1. Dist(i, rd[c]) # Level(c)
        BY <1>1, <3>3, DistInjective DEF Level
      <4>2. Dist(i, rd[c]) < Level(c)
        BY <2>1, <2>3, <3>1, <4>1
      <4> QED BY <1>4, <2>1, <3>3, <4>2 DEF RingInv
    <3> QED BY <3>2, <3>3
  <2>4. \A i \in Cell : Dist(i, rd'[c]) < Level(c)' =>
                          ring'[c][i] = Read(c)' + Dist(i, rd'[c]) + 1
    BY <1>2, <1>5, <1>6, <2>3
  <2> QED BY <2>2, <2>4 DEF RingInv, Dist
<1> QED BY <1>1, <1>4, <1>5, <1>6, <1>7 DEF Cell

LEMMA PutOrder ==
  ASSUME Constants, IInv, OrderInv, NEW c \in Channel, Put(c)
  PROVE  OrderInv'
<1>1. /\ mishaps = {} /\ ready
      /\ UNCHANGED <<ready, rd, lost, delivered, pc, index, from, chunk, transfer, mishaps>>
  BY DEF Put, Calm, port, poll
<1>2. ASSUME NEW d \in Channel
      PROVE  /\ RingInv(d)' /\ Read(d)' = Read(d)
             /\ Level(d) <= Level(d)' /\ Level(d)' \in Int /\ Level(d) \in Int
  <2>1. CASE d = c
    <3>1. Level(c)' \in Int
      <4>1. IInv'
        BY TargetStep
      <4>2. wr'[c] \in Cell /\ rd'[c] \in Cell
        BY <4>1 DEF IInv, TypeOK, TargetTyped
      <4> QED BY <4>2, DistIs DEF Level, Cell
    <3> QED BY <2>1, <3>1, PutRing, LevelTyped DEF Cell
  <2>2. CASE d # c
    <3>1. wr'[d] = wr[d] /\ rd'[d] = rd[d] /\ made'[d] = made[d] /\ ring'[d] = ring[d]
      BY <1>1, <2>2, PutRing
    <3>2. RingInv(d)
      BY <1>1 DEF OrderInv
    <3>3. Level(d) \in Int
      BY LevelTyped DEF Cell
    <3> QED BY <3>1, <3>2, <3>3, ChannelKept
  <2> QED BY <2>1, <2>2
<1>3. ASSUME NEW d \in Channel PROVE SentInv(d)'
  BY <1>1, <1>2, SentKept DEF OrderInv, SentInv, Increasing
<1>4. index \in Channel /\ chunk \in Nat
  BY DEF IInv, TypeOK, PollTyped
<1>5. DataInv'
  BY <1>1, <1>2, <1>4 DEF OrderInv, DataInv
<1>6. OffsetInv'
  BY <1>1, <1>2, <1>4 DEF OrderInv, OffsetInv, Holds, extra
<1>7. SendInv'
  BY <1>1, <1>2, <1>4, SentKept DEF OrderInv, SendInv, Holds, extra
<1> QED BY <1>1, <1>2, <1>3, <1>5, <1>6, <1>7 DEF OrderInv

-----------------------------------------------------------------------------
(* The bytes of the unread cells are those behind the last one read.       *)
LEMMA UnreadBytes ==
  ASSUME Constants, IInv, NEW c \in Channel, RingInv(c)
  PROVE  {ring[c][i] : i \in Unread(c)} = (Read(c) + 1)..made[c]
<1>1. /\ Level(c) \in Cell /\ made[c] \in Nat /\ Read(c) \in Int
      /\ wr[c] \in Cell /\ rd[c] \in Cell /\ SIZE \in Nat
  BY LevelTyped
<1>2. Unread(c) = {i \in Cell : Dist(i, rd[c]) < Level(c)}
  BY DEF Unread, Dist, Level
<1>3. Read(c) + Level(c) = made[c]
  BY <1>1 DEF Read, Cell
<1>4. ASSUME NEW i \in Unread(c) PROVE ring[c][i] \in (Read(c) + 1)..made[c]
  <2>1. i \in Cell /\ Dist(i, rd[c]) < Level(c) /\ Dist(i, rd[c]) \in Cell
    BY <1>1, <1>2, DistIs
  <2>2. ring[c][i] = Read(c) + Dist(i, rd[c]) + 1
    BY <2>1 DEF RingInv
  <2> QED BY <1>1, <1>3, <2>1, <2>2 DEF Cell
<1>5. ASSUME NEW n \in (Read(c) + 1)..made[c] PROVE \E i \in Unread(c) : ring[c][i] = n
  <2> DEFINE k == n - Read(c) - 1
  <2>1. k \in Cell /\ k < Level(c) /\ n = Read(c) + k + 1
    BY <1>1, <1>3 DEF Cell
  <2> HIDE DEF k
  <2>2. PICK i \in Cell : Dist(i, rd[c]) = k
    BY <1>1, <2>1, DistSurjective
  <2>3. i \in Unread(c)
    BY <1>2, <2>1, <2>2
  <2>4. ring[c][i] = n
    BY <2>1, <2>2 DEF RingInv
  <2> QED BY <2>3, <2>4
<1> QED BY <1>4, <1>5

(* What is sent, the sets: sending or losing what follows.                 *)
LEMMA SentSets ==
  ASSUME NEW a \in Int, NEW b \in Int, a <= b, 0 <= a, NEW L, L \subseteq 1..a
  PROVE  /\ (1..b) \ (L \cup (a + 1..b)) = (1..a) \ L
         /\ ((1..a) \ L) \cup (a + 1..b) = (1..b) \ L
         /\ L \subseteq 1..b /\ L \cup (a + 1..b) \subseteq 1..b
OBVIOUS

(* A restart wipes out what is unread, and the reader skips it.            *)
LEMMA RestartOrder ==
  ASSUME Constants, IInv, OrderInv, Restart
  PROVE  OrderInv'
<1> SUFFICES ASSUME mishaps' = {} PROVE OrderInv'
  BY DEF OrderInv
<1>1. /\ mishaps = {} /\ pc \notin {"data", "offset"}
      /\ wr' = [c \in Channel |-> 0] /\ rd' = [c \in Channel |-> 0]
      /\ lost' = [c \in Channel |-> lost[c] \cup {ring[c][i] : i \in Unread(c)}]
      /\ UNCHANGED <<ring, made, delivered, pc, index, from, chunk, transfer>>
  BY DEF Restart, Calm, port, poll
<1>2. ASSUME NEW c \in Channel
      PROVE  /\ RingInv(c) /\ SentInv(c)
             /\ made[c] \in Nat /\ Read(c) \in Int /\ 0 <= Read(c) /\ Read(c) <= made[c]
             /\ lost[c] \subseteq 1..Read(c)
             /\ lost'[c] = lost[c] \cup ((Read(c) + 1)..made[c])
             /\ Level(c)' = 0 /\ Read(c)' = made[c]
             /\ RingInv(c)'
  <2>1. RingInv(c) /\ SentInv(c)
    BY <1>1 DEF OrderInv
  <2>2. Level(c) \in Cell /\ made[c] \in Nat /\ Read(c) \in Int
    BY LevelTyped
  <2>3. 0 <= Read(c) /\ Read(c) <= made[c]
    BY <2>1, <2>2 DEF RingInv, Read, Cell
  <2>4. lost'[c] = lost[c] \cup ((Read(c) + 1)..made[c])
    BY <1>1, <2>1, UnreadBytes
  <2>5. 0 \in Cell
    BY DEF Cell, Constants
  <2>6. Level(c)' = 0
    BY <1>1, <2>5, DistIs DEF Level
  <2>7. Read(c)' = made[c]
    BY <1>1, <2>2, <2>6 DEF Read
  <2>8. \A i \in Cell : Dist(i, rd'[c]) \in Nat
    BY <1>1, <2>5, DistTyped
  <2>9. RingInv(c)'
    BY <1>1, <2>2, <2>6, <2>7, <2>8 DEF RingInv, Dist
  <2> QED BY <2>1, <2>2, <2>3, <2>4, <2>6, <2>7, <2>9 DEF SentInv
<1>3. ASSUME NEW c \in Channel
      PROVE  /\ (1..Read(c)') \ lost'[c] = (1..Read(c)) \ lost[c]
             /\ lost'[c] \subseteq 1..Read(c)'
  <2>1. /\ Read(c) \in Int /\ made[c] \in Int /\ Read(c) <= made[c] /\ 0 <= Read(c)
        /\ lost[c] \subseteq 1..Read(c)
    BY <1>2
  <2>2. /\ (1..made[c]) \ (lost[c] \cup (Read(c) + 1..made[c])) = (1..Read(c)) \ lost[c]
        /\ lost[c] \cup (Read(c) + 1..made[c]) \subseteq 1..made[c]
    <3> DEFINE a == Read(c)
               b == made[c]
               L == lost[c]
    <3>1. a \in Int /\ b \in Int /\ a <= b /\ 0 <= a /\ L \subseteq 1..a
      BY <2>1
    <3> HIDE DEF a, b, L
    <3>2. (1..b) \ (L \cup (a + 1..b)) = (1..a) \ L /\ L \cup (a + 1..b) \subseteq 1..b
      BY <3>1, SentSets
    <3> QED BY <3>2 DEF a, b, L
  <2> QED BY <1>2, <2>2
<1>4. ASSUME NEW c \in Channel PROVE SentInv(c)'
  BY <1>1, <1>2, <1>3, SentKept DEF SentInv, Increasing
<1>5. DataInv' /\ OffsetInv'
  BY <1>1 DEF DataInv, OffsetInv
<1>6. SendInv'
  <2>1. index \in Channel
    BY DEF IInv, TypeOK, PollTyped
  <2> QED BY <1>1, <1>3, <2>1, SentKept DEF OrderInv, SendInv, Holds, extra
<1>7. \A c \in Channel : wr'[c] = rd'[c]
  BY <1>1
<1> QED BY <1>2, <1>4, <1>5, <1>6, <1>7 DEF OrderInv

(* The new run finds the rings as the restart left them: empty.            *)
LEMMA RttInitOrder ==
  ASSUME Constants, IInv, OrderInv, SEGGER_RTT_Init
  PROVE  OrderInv'
<1>1. /\ mishaps = {} /\ ~ready
      /\ wr' = [c \in Channel |-> 0] /\ rd' = [c \in Channel |-> 0]
      /\ UNCHANGED <<ring, made, lost, delivered, pc, index, from, chunk, transfer>>
  BY DEF SEGGER_RTT_Init, Calm, port, poll
<1>2. ASSUME NEW c \in Channel
      PROVE  Level(c)' = Level(c) /\ Read(c)' = Read(c) /\ RingInv(c)'
  <2>1. wr[c] = rd[c] /\ RingInv(c)
    BY <1>1 DEF OrderInv
  <2>2. 0 \in Cell
    BY DEF Cell, Constants
  <2>3. rd[c] \in Cell /\ made[c] \in Nat
    BY LevelTyped
  <2>4. Level(c) = 0
    BY <2>1, <2>3, DistIs DEF Level, Cell
  <2>5. Level(c)' = 0
    BY <1>1, <2>2, DistIs DEF Level
  <2>6. Read(c)' = Read(c)
    BY <1>1, <2>4, <2>5 DEF Read
  <2>7. \A i \in Cell : Dist(i, rd'[c]) \in Nat
    BY <1>1, <2>2, DistTyped
  <2>8. RingInv(c)'
    BY <1>1, <2>3, <2>5, <2>7 DEF RingInv, Dist
  <2> QED BY <2>4, <2>5, <2>6, <2>8
<1>3. ASSUME NEW c \in Channel PROVE SentInv(c)'
  BY <1>1, <1>2, SentKept DEF OrderInv, SentInv, Increasing
<1>4. index \in Channel
  BY DEF IInv, TypeOK, PollTyped
<1>5. DataInv' /\ OffsetInv'
  BY <1>1 DEF OrderInv, DataInv, OffsetInv
<1>6. SendInv'
  BY <1>1, <1>2, <1>4, SentKept DEF OrderInv, SendInv, Holds, extra
<1> QED BY <1>1, <1>2, <1>3, <1>5, <1>6 DEF OrderInv

-----------------------------------------------------------------------------
(* The target, the port, the clock and GDB.                                *)
LEMMA OutsideOrder ==
  ASSUME OrderInv, HostReads \/ OtherOutput \/ Tick
                     \/ \E on \in BOOLEAN : Enable(on) \/ Symbol(on)
  PROVE  OrderInv'
<1>1. UNCHANGED <<target, delivered, poll, transfer, mishaps>>
  BY DEF HostReads, OtherOutput, Tick, Enable, Symbol, port
<1> QED BY <1>1, OrderKept

(* A step of the poll that goes on to another access or to the next poll.  *)
LEMMA NextChannelDecides ==
  ASSUME NextChannel PROVE pc' \notin Deciding
BY DEF NextChannel, Deciding

LEMMA DueOrder ==
  ASSUME OrderInv, Due \/ Hang \/ ReadHeader
  PROVE  OrderInv'
<1>1. /\ mishaps = {} /\ UNCHANGED <<target, delivered>>
      /\ pc # "send" /\ pc' \notin Deciding
  BY DEF Due, Hang, ReadHeader, Calm, port, Deciding
<1> QED BY <1>1, NothingDecided

(* The chunk decided on is unread.                                         *)
LEMMA ChunkUnread ==
  ASSUME Constants, IInv, Room > ScantRoom, wr[index] # rd[index]
  PROVE  Chunk <= Level(index)
<1> DEFINE ahead == (IF rd[index] < wr[index] THEN wr[index] ELSE SIZE) - rd[index]
           S == {ahead, TRANSFER_BUFFER_SIZE, Room}
<1>1. wr[index] \in 0..SIZE - 1 /\ rd[index] \in 0..SIZE - 1 /\ SIZE \in Nat
  BY DEF IInv, TypeOK, TargetTyped, PollTyped, Cell, Constants
<1>2. Level(index) = IF rd[index] <= wr[index] THEN wr[index] - rd[index]
                                               ELSE wr[index] - rd[index] + SIZE
  BY <1>1, DistIs DEF Level, Cell
<1>3. ahead \in Nat /\ ahead <= Level(index) /\ Level(index) \in Nat
  BY <1>1, <1>2
<1>4. Room \in Nat /\ TRANSFER_BUFFER_SIZE \in Nat
  BY DEF Room, IInv, TypeOK, PortTyped, Constants
<1>5. Chunk = Least(S) /\ S = {ahead, TRANSFER_BUFFER_SIZE, Room} /\ ahead \in S
  BY DEF Chunk
<1> HIDE DEF ahead, S
<1>6. Chunk \in S /\ Chunk <= ahead
  <2>1. Least(S) \in S /\ \A x \in S : Least(S) <= x
    BY <1>3, <1>4, <1>5, LeastIsLeast
  <2> QED BY <1>5, <2>1
<1>7. Chunk \in Nat
  BY <1>3, <1>4, <1>5, <1>6
<1> QED BY <1>3, <1>6, <1>7

LEMMA ReadDescriptorOrder ==
  ASSUME Constants, IInv, OrderInv, ReadDescriptor
  PROVE  OrderInv'
<1>1. /\ mishaps = {} /\ pc = "descriptor"
      /\ UNCHANGED <<target, delivered, transfer, mishaps>>
  BY DEF ReadDescriptor, Calm, port
<1>2. CASE /\ Room > ScantRoom /\ ready /\ wr[index] # rd[index]
           /\ from' = rd[index] /\ chunk' = Chunk
           /\ pc' = "data" /\ UNCHANGED <<index, faults>>
  <2>1. Chunk <= Level(index)
    BY <1>2, ChunkUnread
  <2>2. Level(index)' = Level(index)
    BY <1>1, <1>2 DEF Level, Dist, target
  <2>3. DataInv' /\ OffsetInv' /\ SendInv'
    BY <1>1, <1>2, <2>1, <2>2 DEF DataInv, OffsetInv, SendInv, target
  <2>4. ASSUME NEW c \in Channel PROVE RingInv(c)' /\ SentInv(c)'
    <3>1. RingInv(c) /\ SentInv(c)
      BY <1>1 DEF OrderInv
    <3>2. /\ wr'[c] = wr[c] /\ rd'[c] = rd[c] /\ made'[c] = made[c] /\ ring'[c] = ring[c]
          /\ lost'[c] = lost[c] /\ delivered'[c] = delivered[c]
      BY <1>1 DEF target
    <3> QED BY <1>1, <3>1, <3>2, ChannelKept, SentKept DEF SentInv, Increasing
  <2> QED BY <1>1, <1>2, <2>3, <2>4 DEF OrderInv, target
<1>3. CASE NextChannel
  BY <1>1, <1>3, NextChannelDecides, NothingDecided
<1> QED BY <1>2, <1>3 DEF ReadDescriptor

(* The transfer holds the chunk as the ring held it.                       *)
LEMMA ReadDataOrder ==
  ASSUME Constants, IInv, TransferFits, OrderInv, ReadData
  PROVE  OrderInv'
<1> SUFFICES ASSUME mishaps' = {} PROVE OrderInv'
  BY DEF OrderInv
<1>1. /\ mishaps = {} /\ pc = "data"
      /\ UNCHANGED <<target, delivered, from, chunk>>
  BY DEF ReadData, Calm, port
<1>2. CASE /\ transfer' = [i \in Slot |-> IF i < extra_chunk THEN At(from - extra + i)
                                                            ELSE transfer[i]]
           /\ pc' = "offset" /\ UNCHANGED index
  <2>1. /\ extra \in Nat /\ chunk \in Nat /\ from \in Cell /\ index \in Channel
        /\ extra_chunk \in 0..TRANSFER_BUFFER_SIZE + WORD /\ extra + chunk <= extra_chunk
        /\ TRANSFER_BUFFER_SIZE \in Nat /\ WORD \in Nat /\ from + chunk <= SIZE /\ SIZE \in Nat
    BY <1>1, ExtraTyped DEF TransferFits, Deciding, IInv, ChunkFits, TypeOK, PollTyped, Constants
  <2>2. /\ from = rd[index] /\ chunk <= Level(index) /\ ready /\ RingInv(index)
    BY <1>1, <2>1 DEF OrderInv, DataInv
  <2>3. ASSUME NEW i \in 1..chunk
        PROVE  transfer'[extra + i - 1] = Read(index) + i
    <3>1. extra + i - 1 \in Slot /\ extra + i - 1 < extra_chunk
      BY <2>1 DEF Slot
    <3>2. from + i - 1 \in Cell /\ from <= from + i - 1
      BY <2>1 DEF Cell
    <3>3. from - extra + (extra + i - 1) = from + i - 1
      BY <2>1 DEF Cell
    <3>4. transfer'[extra + i - 1] = ring[index][from + i - 1]
      <4>1. \A j \in Slot : j < extra_chunk => transfer'[j] = At(from - extra + j)
        BY <1>2
      <4>2. transfer'[extra + i - 1] = At(from + i - 1)
        BY <3>1, <3>3, <4>1
      <4> QED BY <3>2, <4>2 DEF At
    <3>5. Dist(from + i - 1, rd[index]) = i - 1
      <4>1. from \in Nat /\ i - 1 \in Nat /\ from + i - 1 = from + (i - 1)
        BY <2>1 DEF Cell
      <4>2. Dist(from + (i - 1), from) = i - 1
        BY <2>1, <3>2, <4>1, DistAhead
      <4> QED BY <2>2, <4>1, <4>2
    <3>6. Level(index) \in Nat /\ Read(index) \in Int
      BY <2>1, LevelTyped DEF Cell
    <3>7. i - 1 < Level(index)
      BY <2>1, <2>2, <3>6
    <3>8. ring[index][from + i - 1] = Read(index) + (i - 1) + 1
      BY <2>2, <3>2, <3>5, <3>7 DEF RingInv
    <3> QED BY <3>4, <3>6, <3>8
  <2>4. /\ Level(index)' = Level(index) /\ Read(index)' = Read(index) /\ extra' = extra
    BY <1>1, <1>2 DEF Level, Read, Dist, target, extra
  <2>5. DataInv' /\ OffsetInv' /\ SendInv'
    BY <1>1, <1>2, <2>2, <2>3, <2>4 DEF DataInv, OffsetInv, SendInv, Holds, target
  <2>6. ASSUME NEW c \in Channel PROVE RingInv(c)' /\ SentInv(c)'
    <3>1. RingInv(c) /\ SentInv(c)
      BY <1>1 DEF OrderInv
    <3>2. /\ wr'[c] = wr[c] /\ rd'[c] = rd[c] /\ made'[c] = made[c] /\ ring'[c] = ring[c]
          /\ lost'[c] = lost[c] /\ delivered'[c] = delivered[c]
      BY <1>1 DEF target
    <3> QED BY <1>1, <3>1, <3>2, ChannelKept, SentKept DEF SentInv, Increasing
  <2> QED BY <1>1, <2>2, <2>5, <2>6 DEF OrderInv, target
<1>3. CASE NextChannel
  BY <1>1, <1>3, NextChannelDecides, NothingDecided
<1> QED BY <1>2, <1>3 DEF ReadData

(* The chunk is read from the ring, and waits to be sent.                  *)
LEMMA WriteOffsetOrder ==
  ASSUME Constants, IInv, OrderInv, WriteOffset
  PROVE  OrderInv'
<1> SUFFICES ASSUME mishaps' = {} PROVE OrderInv'
  BY DEF OrderInv
<1>1. /\ mishaps = {} /\ pc = "offset" /\ pc' = "send"
      /\ rd' = [rd EXCEPT ![index] = new_read]
      /\ UNCHANGED <<ready, ring, wr, made, lost, delivered, index, from, chunk, transfer>>
  BY DEF WriteOffset, Calm, port
<1>2. /\ index \in Channel /\ chunk \in 1..TRANSFER_BUFFER_SIZE /\ from + chunk <= SIZE
      /\ rd \in [Channel -> Cell] /\ TRANSFER_BUFFER_SIZE \in Nat
  BY <1>1 DEF IInv, ChunkFits, Deciding, TypeOK, TargetTyped, PollTyped, Constants
<1>3. /\ from = rd[index] /\ chunk <= Level(index) /\ ready
      /\ Holds(Read(index)) /\ RingInv(index) /\ SentInv(index)
  BY <1>1, <1>2 DEF OrderInv, DataInv, OffsetInv
<1>4. /\ Level(index) \in Cell /\ made[index] \in Nat /\ Read(index) \in Int
      /\ wr[index] \in Cell /\ rd[index] \in Cell /\ SIZE \in Nat
  BY <1>2, LevelTyped
<1>5. rd'[index] = new_read /\ \A c \in Channel : c # index => rd'[c] = rd[c]
  BY <1>1, <1>2
<1>6. /\ Dist(wr[index], new_read) = Level(index) - chunk
      /\ \A i \in Cell : Dist(i, new_read) < Level(index) - chunk =>
                           Dist(i, rd[index]) = Dist(i, new_read) + chunk
      /\ new_read \in Cell
  BY <1>2, <1>3, <1>4, DistOfRead DEF new_read, Level
<1>7. Level(index)' = Level(index) - chunk
  BY <1>1, <1>5, <1>6 DEF Level
<1>8. Read(index)' = Read(index) + chunk
  BY <1>1, <1>2, <1>4, <1>7 DEF Read, Cell
<1>9. RingInv(index)'
  <2>1. Level(index)' <= made'[index]
    BY <1>1, <1>2, <1>3, <1>4, <1>7 DEF RingInv, Cell
  <2>2. ASSUME NEW i \in Cell, Dist(i, new_read) < Level(index) - chunk
        PROVE  ring[index][i] = Read(index) + chunk + Dist(i, new_read) + 1
    <3>1. Dist(i, new_read) \in Nat
      BY <1>6, DistTyped
    <3>2. Dist(i, rd[index]) = Dist(i, new_read) + chunk
      BY <1>6, <2>2
    <3>3. Dist(i, rd[index]) < Level(index)
      BY <1>2, <1>4, <2>2, <3>1, <3>2 DEF Cell
    <3>4. ring[index][i] = Read(index) + Dist(i, rd[index]) + 1
      BY <1>3, <3>3 DEF RingInv
    <3> QED BY <1>2, <1>4, <3>1, <3>2, <3>4
  <2>3. \A i \in Cell : Dist(i, rd'[index]) < Level(index)' =>
                          ring'[index][i] = Read(index)' + Dist(i, rd'[index]) + 1
    BY <1>1, <1>5, <1>7, <1>8, <2>2
  <2> QED BY <1>1, <2>1, <2>3 DEF RingInv, Dist
<1>10. /\ 0 <= Read(index) /\ lost[index] \subseteq 1..Read(index)
       /\ SentBytes(index) = (1..Read(index)) \ lost[index]
  BY <1>1, <1>3, <1>4 DEF SentInv, RingInv, Read, Cell
<1>11. ((1..Read(index)) \ lost[index]) \cup (Read(index) + 1..Read(index) + chunk)
          = (1..Read(index) + chunk) \ lost[index]
  <2> DEFINE a == Read(index)
             b == Read(index) + chunk
             L == lost[index]
  <2>1. a \in Int /\ b \in Int /\ a <= b /\ 0 <= a /\ L \subseteq 1..a
    BY <1>2, <1>4, <1>10
  <2> HIDE DEF a, b, L
  <2>2. ((1..a) \ L) \cup (a + 1..b) = (1..b) \ L
    BY <2>1, SentSets
  <2> QED BY <2>2 DEF a, b, L
<1>12. SendInv'
  <2>1. Read(index) \in Nat
    BY <1>4, <1>10
  <2>2. SentBytes(index)' = SentBytes(index) /\ extra' = extra
    BY <1>1, <1>2, SentKept DEF extra
  <2>4. \A i \in 1..chunk' : transfer'[extra' + i - 1] = Read(index) + i
    BY <1>1, <1>3, <2>2 DEF Holds
  <2> DEFINE t == Read(index)
  <2>5. /\ \A i \in 1..chunk' : transfer'[extra' + i - 1] = t + i
        /\ SentBytes(index)' \subseteq 1..t
        /\ SentBytes(index)' \cup (t + 1..t + chunk') = (1..Read(index)') \ lost'[index]
    BY <1>1, <1>8, <1>10, <1>11, <2>2, <2>4
  <2> HIDE DEF t
  <2>6. t \in Nat
    BY <2>1 DEF t
  <2> QED BY <1>1, <2>5, <2>6 DEF SendInv, Holds
<1>13. ASSUME NEW c \in Channel PROVE RingInv(c)' /\ SentInv(c)'
  <2>1. CASE c = index
    <3>1. lost'[index] \subseteq 1..Read(index)'
      BY <1>1, <1>2, <1>4, <1>8, <1>10
    <3> QED BY <1>1, <1>3, <1>9, <2>1, <3>1 DEF SentInv, Increasing
  <2>2. CASE c # index
    <3>1. RingInv(c) /\ SentInv(c)
      BY <1>1 DEF OrderInv
    <3>2. wr'[c] = wr[c] /\ rd'[c] = rd[c] /\ made'[c] = made[c] /\ ring'[c] = ring[c]
      BY <1>1, <1>5, <2>2
    <3> QED BY <1>1, <2>2, <3>1, <3>2, ChannelKept, SentKept DEF SentInv, Increasing
  <2> QED BY <2>1, <2>2
<1> QED BY <1>1, <1>3, <1>12, <1>13 DEF OrderInv, DataInv, OffsetInv

-----------------------------------------------------------------------------
Values(s) == {s[i] : i \in DOMAIN s}
Run(t, n) == [i \in 1..n |-> t + i]

(* Sending the bytes that follow keeps the order and adds exactly them.    *)
LEMMA SendFollowing ==
  ASSUME NEW d \in Seq(Nat), NEW t \in Nat, NEW n \in Nat, Increasing(d),
         Values(d) \subseteq 1..t
  PROVE  /\ Increasing(d \o Run(t, n))
         /\ Values(d \o Run(t, n)) = Values(d) \cup (t + 1..t + n)
<1> DEFINE s == Run(t, n)
           e == d \o s
<1>1. /\ s \in Seq(Nat) /\ Len(s) = n /\ Len(d) \in Nat /\ DOMAIN d = 1..Len(d)
      /\ \A i \in 1..n : s[i] = t + i
      /\ s = [i \in 1..n |-> t + i]
  BY DEF s, Run
<1> HIDE DEF s
<1>2. /\ DOMAIN e = 1..Len(d) + n
      /\ \A i \in 1..Len(d) : e[i] = d[i]
      /\ \A i \in 1..n : e[Len(d) + i] = t + i
  BY <1>1
<1>3. \A i \in 1..Len(d) + n : i \in 1..Len(d) \/ \E j \in 1..n : i = Len(d) + j
  <2> SUFFICES ASSUME NEW i \in 1..Len(d) + n, i \notin 1..Len(d)
               PROVE  \E j \in 1..n : i = Len(d) + j
    OBVIOUS
  <2>1. i - Len(d) \in 1..n /\ i = Len(d) + (i - Len(d))
    BY <1>1
  <2> QED BY <2>1
<1>4. \A i \in 1..Len(d) : d[i] \in 1..t
  BY <1>1 DEF Values
<1> HIDE DEF e
<1>5. Increasing(e)
  <2> SUFFICES ASSUME NEW i \in 1..Len(d) + n, NEW j \in 1..Len(d) + n, i < j
               PROVE  e[i] < e[j]
    BY <1>2 DEF Increasing
  <2>1. CASE j \in 1..Len(d)
    <3>1. i \in 1..Len(d)
      BY <1>1, <2>1
    <3> QED BY <1>1, <1>2, <2>1, <3>1 DEF Increasing
  <2>2. ASSUME NEW l \in 1..n, j = Len(d) + l PROVE e[i] < e[j]
    <3>1. e[j] = t + l
      BY <1>2, <2>2
    <3>2. CASE i \in 1..Len(d)
      <4>1. e[i] \in 1..t
        BY <1>2, <1>4, <3>2
      <4> QED BY <3>1, <4>1
    <3>3. ASSUME NEW k \in 1..n, i = Len(d) + k PROVE e[i] < e[j]
      <4>1. e[i] = t + k
        BY <1>2, <3>3
      <4>2. k < l
        BY <1>1, <2>2, <3>3
      <4> QED BY <3>1, <4>1, <4>2
    <3> QED BY <1>3, <3>2, <3>3
  <2> QED BY <1>3, <2>1, <2>2
<1>6. ASSUME NEW i \in DOMAIN e
      PROVE  e[i] \in {d[j] : j \in DOMAIN d} \cup (t + 1..t + n)
  <2>1. CASE i \in 1..Len(d)
    BY <1>1, <1>2, <2>1
  <2>2. ASSUME NEW j \in 1..n, i = Len(d) + j PROVE e[i] \in t + 1..t + n
    <3>1. e[i] = t + j
      BY <1>2, <2>2
    <3> QED BY <3>1
  <2> QED BY <1>2, <1>3, <2>1, <2>2
<1>7. ASSUME NEW v \in t + 1..t + n PROVE \E i \in DOMAIN e : e[i] = v
  <2>1. v - t \in 1..n /\ v = t + (v - t)
    OBVIOUS
  <2>2. Len(d) + (v - t) \in DOMAIN e
    BY <1>1, <1>2, <2>1
  <2>3. e[Len(d) + (v - t)] = v
    BY <1>2, <2>1
  <2> QED BY <2>2, <2>3
<1>8. \A i \in DOMAIN d : i \in DOMAIN e /\ e[i] = d[i]
  BY <1>1, <1>2
<1>9. {e[i] : i \in DOMAIN e} = {d[i] : i \in DOMAIN d} \cup (t + 1..t + n)
  <2>1. \A v \in {e[i] : i \in DOMAIN e} : v \in {d[i] : i \in DOMAIN d} \cup (t + 1..t + n)
    BY <1>6
  <2>2. \A v \in {d[i] : i \in DOMAIN d} : v \in {e[i] : i \in DOMAIN e}
    BY <1>8
  <2>3. \A v \in t + 1..t + n : v \in {e[i] : i \in DOMAIN e}
    BY <1>7
  <2> QED BY <2>1, <2>2, <2>3, Zenon
<1> QED BY <1>5, <1>9 DEF s, e, Values

(* A chunk that the port takes whole leaves nothing read unsent.           *)
LEMMA SendOrder ==
  ASSUME Constants, IInv, OrderInv, Send
  PROVE  OrderInv'
<1> SUFFICES ASSUME mishaps' = {} PROVE OrderInv'
  BY DEF OrderInv
<1> DEFINE n == Least({chunk, PortSize - queued})
           sent == [i \in 1..n |-> transfer[extra + i - 1]]
<1>1. /\ mishaps = {} /\ pc = "send" /\ pc' \notin Deciding
      /\ delivered' = [delivered EXCEPT ![index] = @ \o sent]
      /\ UNCHANGED <<target, from, chunk, transfer>>
      /\ ~(n < chunk)
  BY NextChannelDecides DEF Send, Calm
<1>2. /\ index \in Channel /\ chunk \in Nat /\ delivered \in [Channel -> Seq(Nat)]
  BY DEF IInv, TypeOK, PollTyped, PortTyped
<1>3. n = chunk
  <2>1. PortSize - queued \in Nat
    BY DEF IInv, TypeOK, PortTyped, Constants
  <2> DEFINE S == {chunk, PortSize - queued}
  <2>2. S = {chunk, PortSize - queued, PortSize - queued} /\ chunk \in S
    OBVIOUS
  <2>3. Least(S) \in S /\ Least(S) <= chunk
    <3> HIDE DEF S
    <3> QED BY <1>2, <2>1, <2>2, LeastIsLeast
  <2> QED BY <1>1, <1>2, <2>1, <2>3
<1> HIDE DEF n
<1>4. SentInv(index) /\ RingInv(index)
  BY <1>1, <1>2 DEF OrderInv
<1>5. PICK t \in Nat :
        /\ Holds(t)
        /\ SentBytes(index) \subseteq 1..t
        /\ SentBytes(index) \cup (t + 1..t + chunk) = (1..Read(index)) \ lost[index]
  BY <1>1 DEF OrderInv, SendInv
<1>6. sent = Run(t, chunk)
  BY <1>3, <1>5 DEF Holds, Run
<1> HIDE DEF sent
<1>7. PICK x \in Channel : x = index
  BY <1>2
<1>8. delivered'[x] = delivered[x] \o sent
  BY <1>1, <1>2, <1>7
<1>9. /\ Increasing(delivered'[x])
      /\ SentBytes(x)' = SentBytes(x) \cup (t + 1..t + chunk)
  <2> DEFINE d == delivered[x]
             e == delivered'[x]
  <2>1. SentBytes(x) = Values(d) /\ SentBytes(x)' = Values(e)
    BY DEF SentBytes, Values
  <2>2. d \in Seq(Nat) /\ Increasing(d) /\ SentBytes(x) \subseteq 1..t /\ e = d \o sent
    BY <1>2, <1>4, <1>5, <1>7, <1>8 DEF SentInv
  <2> HIDE DEF d, e
  <2>3. chunk \in Nat /\ t \in Nat /\ Values(d) \subseteq 1..t
    BY <1>2, <2>1, <2>2
  <2>4. Increasing(d \o sent) /\ Values(d \o sent) = Values(d) \cup (t + 1..t + chunk)
    BY <1>6, <2>2, <2>3, SendFollowing
  <2>5. Increasing(e) /\ SentBytes(x)' = SentBytes(x) \cup (t + 1..t + chunk)
    BY <2>1, <2>2, <2>4
  <2> QED BY <2>5 DEF e
<1>10. ASSUME NEW c \in Channel PROVE RingInv(c)' /\ SentInv(c)'
  <2>1. /\ wr'[c] = wr[c] /\ rd'[c] = rd[c] /\ made'[c] = made[c] /\ ring'[c] = ring[c]
        /\ lost'[c] = lost[c]
    BY <1>1 DEF target
  <2>2. RingInv(c) /\ SentInv(c)
    BY <1>1 DEF OrderInv
  <2>3. RingInv(c)' /\ Read(c)' = Read(c)
    BY <2>1, <2>2, ChannelKept
  <2>4. /\ Increasing(delivered'[c])
        /\ SentBytes(c)' = (1..Read(c)) \ lost[c]
    <3>1. CASE c = x
      BY <1>5, <1>7, <1>9, <3>1
    <3>2. CASE c # x
      <4>1. delivered'[c] = delivered[c]
        BY <1>1, <1>2, <1>7, <3>2
      <4> QED BY <1>7, <2>2, <3>2, <4>1, SentKept DEF SentInv
    <3> QED BY <3>1, <3>2
  <2>5. lost'[c] \subseteq 1..Read(c)'
    BY <2>1, <2>2, <2>3 DEF SentInv
  <2> HIDE DEF Increasing
  <2> QED BY <2>1, <2>3, <2>4, <2>5 DEF SentInv
<1>11. DataInv' /\ OffsetInv' /\ SendInv'
  BY <1>1 DEF DataInv, OffsetInv, SendInv, Deciding
<1> QED BY <1>1, <1>10, <1>11 DEF OrderInv, target

LEMMA InitOrder ==
  ASSUME Constants, Init
  PROVE  OrderInv
<1>1. ASSUME NEW c \in Channel PROVE RingInv(c) /\ SentInv(c)
  <2>1. 0 \in Cell
    BY DEF Cell, Constants
  <2>2. /\ wr[c] = 0 /\ rd[c] = 0 /\ made[c] = 0 /\ lost[c] = {} /\ delivered[c] = <<>>
    BY DEF Init
  <2>3. Level(c) = 0 /\ Read(c) = 0
    BY <2>1, <2>2, DistIs DEF Level, Read
  <2>4. RingInv(c)
    BY <2>1, <2>2, <2>3, DistTyped DEF RingInv
  <2>5. SentBytes(c) = {} /\ Increasing(delivered[c])
    BY <2>2 DEF SentBytes, Increasing
  <2>6. (1..0) \ {} = {}
    OBVIOUS
  <2> QED BY <2>2, <2>3, <2>4, <2>5, <2>6 DEF SentInv
<1> QED BY <1>1 DEF Init, OrderInv, DataInv, OffsetInv, SendInv

LEMMA NextOrder ==
  ASSUME Constants, IInv, TransferFits, OrderInv, [Next]_vars
  PROVE  OrderInv'
<1>1. ASSUME NEW c \in Channel, Put(c) PROVE OrderInv'
  BY <1>1, PutOrder
<1>2. CASE Restart
  BY <1>2, RestartOrder
<1>3. CASE SEGGER_RTT_Init
  BY <1>3, RttInitOrder
<1>4. CASE HostReads \/ OtherOutput \/ Tick \/ \E on \in BOOLEAN : Enable(on) \/ Symbol(on)
  BY <1>4, OutsideOrder
<1>5. CASE Poll
  BY <1>5, DueOrder, ReadDescriptorOrder, ReadDataOrder, WriteOffsetOrder, SendOrder DEF Poll
<1>6. CASE UNCHANGED vars
  BY <1>6, OrderKept DEF vars, port
<1> QED BY <1>1, <1>2, <1>3, <1>4, <1>5, <1>6 DEF Next

(* When no chunk waits, what is sent is all that was written, but for what *)
(* is unread or lost.                                                      *)
LEMMA OrderIsInOrder ==
  ASSUME Constants, IInv, OrderInv
  PROVE  RttInOrder
<1> SUFFICES ASSUME mishaps = {}, NEW c \in Channel
             PROVE  /\ Increasing(delivered[c])
                    /\ pc = "idle" =>
                         SentBytes(c) = (1..made[c]) \ (lost[c] \cup {ring[c][i] : i \in Unread(c)})
  BY DEF RttInOrder, Increasing
<1>1. RingInv(c) /\ SentInv(c)
  BY DEF OrderInv
<1>2. Level(c) \in Cell /\ made[c] \in Nat /\ Read(c) \in Int
  BY LevelTyped
<1>3. 0 <= Read(c) /\ Read(c) <= made[c] /\ lost[c] \subseteq 1..Read(c)
  BY <1>1, <1>2 DEF RingInv, SentInv, Read, Cell
<1>4. {ring[c][i] : i \in Unread(c)} = (Read(c) + 1)..made[c]
  BY <1>1, UnreadBytes
<1>5. (1..made[c]) \ (lost[c] \cup (Read(c) + 1..made[c])) = (1..Read(c)) \ lost[c]
  <2> DEFINE a == Read(c)
             b == made[c]
             L == lost[c]
  <2>1. a \in Int /\ b \in Int /\ a <= b /\ 0 <= a /\ L \subseteq 1..a
    BY <1>2, <1>3
  <2> HIDE DEF a, b, L
  <2>2. (1..b) \ (L \cup (a + 1..b)) = (1..a) \ L
    BY <2>1, SentSets
  <2> QED BY <2>2 DEF a, b, L
<1> QED BY <1>1, <1>4, <1>5 DEF SentInv

(* rtt.rs:454 "Reads available data from the target's RTT buffer and sends *)
(* it to the host": for any number of channels, ring, alignment, transfer  *)
(* buffer and port, the host gets what the target wrote in order and once. *)
THEOREM BytesInOrder ==
  ASSUME RttAssumption PROVE Spec => []RttInOrder
<1>1. Init => IInv /\ OrderInv
  BY ConstantsTyped, InitIInv, InitOrder
<1>2. IInv /\ OrderInv /\ [Next]_vars => (IInv /\ OrderInv)'
  BY ConstantsTyped, Aligned, ChunkFitsBuffer, StepIInv, NextOrder
<1>3. IInv /\ OrderInv => RttInOrder
  BY ConstantsTyped, OrderIsInOrder
<1> QED BY <1>1, <1>2, <1>3, PTL DEF Spec
=============================================================================
