------------------------------ MODULE MemCache ------------------------------
(***************************************************************************)
(* The read-ahead line cache of the GDB stub (mem_cache.rs), the requests  *)
(* that use it (commands/memory.rs) and every path by which the memory of  *)
(* the attached target changes: GDB writes, flash programming, flash       *)
(* breakpoints, RTT, execution, reset and a change of target.  A byte is   *)
(* one of a few values, a line is LINE_SIZE of them.                       *)
(***************************************************************************)
EXTENDS Integers, FiniteSetsExt

CONSTANTS
  LINE_SIZE,    \* bytes of a cache line (16 in the code)
  Addr,         \* the addresses of the target
  Byte,         \* the values of a byte: 0 in the stub's fresh buffers, 1 in erased flash
  Hot,          \* the addresses whose contents ever change
  Maps,         \* the memory maps of the targets: sets of regions
  Lengths,      \* the lengths of "m" requests
  ReadMayFail   \* may a read of target memory fail?

ASSUME MemCacheAssumption ==
  /\ LINE_SIZE \in Nat \ {0}
  /\ Addr \subseteq Nat /\ Hot \subseteq Addr
  /\ {0, 1} \subseteq Byte
  /\ Maps \subseteq SUBSET (SUBSET Addr)
  /\ Lengths \subseteq Nat \ {0}
  /\ ReadMayFail \in BOOLEAN

READ_CHUNK_SIZE == 4 * LINE_SIZE

VARIABLES
  mem,       \* the memory of the attached target
  map,       \* its RAM and flash regions
  attached,
  running,   \* the flag of commands/run.rs: no request is served while it is up
  valid,     \* CACHE.valid
  base,      \* CACHE.base
  data,      \* CACHE.data
  pending,   \* flash bytes the sector buffer holds back, <<address, byte>>
  reply,     \* the bytes of the last "m" reply, or NoReply
  bypassed   \* a writer that does not invalidate has written since the last
             \* invalidation (a history variable)

cacheVars == <<mem, map, attached, running, valid, base, data, pending, reply, bypassed>>

Line    == [0..(LINE_SIZE - 1) -> Byte]
NoReply == [addr |-> 0, bytes |-> [i \in {} |-> 0], whole |-> TRUE]

CacheTypeOK ==
  /\ mem \in [Addr -> Byte] /\ map \in Maps
  /\ attached \in BOOLEAN /\ running \in BOOLEAN /\ valid \in BOOLEAN
  /\ base \in Nat /\ data \in Line
  /\ pending \subseteq Addr \X Byte
  /\ bypassed \in BOOLEAN /\ reply.whole \in BOOLEAN
  /\ reply.addr \in Nat /\ \A i \in DOMAIN reply.bytes : reply.bytes[i] \in Byte

CacheInit ==
  /\ mem = [a \in Addr |-> 0] /\ map \in Maps
  /\ attached = FALSE /\ running = FALSE
  /\ valid = FALSE /\ base = 0 /\ data = [i \in 0..(LINE_SIZE - 1) |-> 0]
  /\ pending = {} /\ reply = NoReply /\ bypassed = FALSE

-----------------------------------------------------------------------------
invalidate == valid' = FALSE /\ bypassed' = FALSE /\ UNCHANGED <<base, data>>
keepCache  == UNCHANGED <<valid, base, data, bypassed>>
bypass     == bypassed' = TRUE /\ UNCHANGED <<valid, base, data>>

LineBase(a)  == a - (a % LINE_SIZE)
Bytes(a, n)  == a..(a + n - 1)

\* [addr, addr + len) lies within one RAM or flash region
cacheable(a, n) == \E region \in map : Bytes(a, n) \subseteq region

\* try_read() finds the n bytes at a in the line
Hit(a, n) == valid /\ base = LineBase(a) /\ (a - base) + n <= LINE_SIZE

\* The request for a small chunk prefetches its whole line
Prefetches(a, n) ==
  /\ n <= LINE_SIZE
  /\ ~Hit(a, n)
  /\ (a - LineBase(a)) + n <= LINE_SIZE
  /\ cacheable(LineBase(a), LINE_SIZE)

MemLine(b) == [i \in 0..(LINE_SIZE - 1) |-> mem[b + i]]

\* The byte at a, in a chunk of n starting at c
Fetched(c, n, a) == IF n <= LINE_SIZE /\ Hit(c, n) THEN data[a - base] ELSE mem[a]

\* The chunks of a request of n bytes
Chunks(n)       == (n + READ_CHUNK_SIZE - 1) \div READ_CHUNK_SIZE
ChunkAt(a, k)   == a + (k - 1) * READ_CHUNK_SIZE
ChunkSize(n, k) == IF k < Chunks(n) THEN READ_CHUNK_SIZE ELSE n - (k - 1) * READ_CHUNK_SIZE

\* fill() of the line a chunk of n bytes at c wants, unless its read fails
Fill(c, n, lineFails) ==
  IF Prefetches(c, n) /\ ~lineFails
  THEN /\ valid' = TRUE
       /\ base' = LineBase(c)
       /\ data' = MemLine(LineBase(c))
       /\ UNCHANGED bypassed
  ELSE keepCache

\* The buffer every chunk of a request is read into, once chunk k is done: a
\* chunk that cannot be read leaves what the one before it left, zeros at first
Buffer(a, n, failed, k) ==
  LET served == (1..k) \ failed
      c      == Max(served)
  IN  [i \in 0..(ChunkSize(n, k) - 1) |->
         IF served = {} THEN 0 ELSE Fetched(ChunkAt(a, c), ChunkSize(n, c), ChunkAt(a, c) + i)]

(* _m: a request is served in chunks of READ_CHUNK_SIZE, only the last one *)
(* of which can be small enough for the cache.                             *)
(* failed: the chunks whose read fails; lineFails: the prefetch fails, and *)
(* the chunk is then read by itself.                                       *)
m(addr, n) ==
  LET final    == Chunks(n)
      last     == ChunkAt(addr, final)
      rest     == ChunkSize(n, final)
      hit      == rest <= LINE_SIZE /\ Hit(last, rest)
  IN
  /\ attached /\ ~running
  /\ Bytes(addr, n) \subseteq Addr
  /\ \E failed \in SUBSET (1..final), lineFails \in BOOLEAN :
       /\ (failed # {} \/ lineFails) => ReadMayFail
       /\ lineFails => Prefetches(last, rest)
       /\ hit \/ (Prefetches(last, rest) /\ ~lineFails) => final \notin failed
       /\ reply' = [addr |-> addr,
                    bytes |-> [i \in 0..(n - 1) |->
                                 Buffer(addr, n, failed, i \div READ_CHUNK_SIZE + 1)
                                       [i % READ_CHUNK_SIZE]],
                    whole |-> failed = {}]
       /\ Fill(last, rest, lineFails)
  /\ UNCHANGED <<mem, map, attached, running, pending>>

-----------------------------------------------------------------------------
(* The writers.                                                            *)

\* memory, once the bytes are programmed over it
Written(memory, bytes) ==
  [a \in Addr |-> IF \E v \in Byte : <<a, v>> \in bytes
                  THEN CHOOSE v \in Byte : <<a, v>> \in bytes
                  ELSE memory[a]]

\* What is held back reaches the flash, or is lost in a write that fails.
Flushed(memory) == {Written(memory, pending), memory}

\* bmp_mem_write(): X packets, RAM breakpoints, FreeRTOS, RTT with the core
\* halted.  A failed write may have written.
bmp_mem_write_keeps(a, v) ==                                   \* a mutation
  /\ keepCache
  /\ mem' \in {[mem EXCEPT ![a] = v], mem}
bmp_mem_write(a, v) ==
  /\ invalidate
  /\ mem' \in {[mem EXCEPT ![a] = v], mem}

Write(a, v) ==
  /\ attached /\ ~running
  /\ bmp_mem_write(a, v)
  /\ reply' = NoReply
  /\ UNCHANGED <<map, attached, running, pending>>

\* bmp_mem_write_nostop(): RTT moves a read pointer, at any time
RttWrite(a, v) ==
  /\ attached
  /\ mem' = [mem EXCEPT ![a] = v]
  /\ reply' = NoReply
  /\ bypass
  /\ UNCHANGED <<map, attached, running, pending>>

\* _vFlashErase: erased bytes read as 1; what the sector buffer held back is
\* programmed afterwards
FlashErase(a) ==
  /\ attached /\ ~running
  /\ invalidate
  /\ mem' \in Flushed([mem EXCEPT ![a] = 1])
  /\ pending' = {}
  /\ reply' = NoReply
  /\ UNCHANGED <<map, attached, running>>

\* _vFlashWrite: the byte is held back; what was held before may be flushed,
\* and if that fails the byte is lost too
FlashWrite(a, v) ==
  /\ attached /\ ~running
  /\ invalidate
  /\ \/ mem' = Written(mem, pending) /\ pending' = {<<a, v>>}
     \/ mem' = mem /\ pending' = {p \in pending : p[1] # a} \cup {<<a, v>>}
  /\ reply' = NoReply
  /\ UNCHANGED <<map, attached, running>>

\* _vFlashDone: what is held back, if anything, is flushed
FlashDone ==
  /\ attached /\ ~running
  /\ IF pending = {} THEN UNCHANGED mem /\ keepCache
                     ELSE mem' \in Flushed(mem) /\ bypass
  /\ pending' = {}
  /\ reply' = NoReply
  /\ UNCHANGED <<map, attached, running>>

\* bmp_overwrite_flash() of add_mw_breakpoint and remove_mw_breakpoint
FlashBreakpoint(a, v) ==
  /\ attached /\ ~running
  /\ mem' = [mem EXCEPT ![a] = v]
  /\ reply' = NoReply
  /\ bypass
  /\ UNCHANGED <<map, attached, running, pending>>

-----------------------------------------------------------------------------
(* Execution, reset and the target.                                        *)

\* set_running(true) of vCont, c and s
set_running_keeps == keepCache                                 \* a mutation
set_running_true  == invalidate

Resume ==
  /\ attached /\ ~running
  /\ set_running_true
  /\ running' = TRUE
  /\ reply' = NoReply
  /\ UNCHANGED <<mem, map, attached, pending>>

\* The target's program writes its memory
Execute(a, v) ==
  /\ attached /\ running
  /\ mem' = [mem EXCEPT ![a] = v]
  /\ keepCache
  /\ UNCHANGED <<map, attached, running, pending, reply>>

\* rngdbstub_poll() or target_halt()
Stop ==
  /\ running
  /\ running' = FALSE
  /\ keepCache
  /\ UNCHANGED <<mem, map, attached, pending, reply>>

\* R, k, vRun, mon reset, mon set_reset_pin: memory may come back different
Reset(a, v) ==
  /\ ~running
  /\ invalidate
  /\ mem' = [mem EXCEPT ![a] = v]
  /\ reply' = NoReply
  /\ UNCHANGED <<map, attached, running, pending>>

\* bmp_attach(), possibly to another target: another memory, another map
bmp_attach_keeps(target) == keepCache /\ map' = target         \* a mutation
bmp_attach(target) == invalidate /\ map' = target

Attach(target, a, v) ==
  /\ ~running
  /\ bmp_attach(target)
  /\ attached' \in BOOLEAN
  /\ mem' = [mem EXCEPT ![a] = v]
  /\ pending' = IF attached' THEN pending ELSE {}
  /\ reply' = NoReply
  /\ UNCHANGED running

\* disconnect_cleanup(): D, the end of the session, a scan.  The sector
\* buffer is dropped with the flash session.
Detach ==
  /\ invalidate
  /\ attached' = FALSE
  /\ pending' = {}
  /\ reply' = NoReply
  /\ UNCHANGED <<mem, map, running>>

CacheNext ==
  \/ \E a \in Addr, n \in Lengths : m(a, n)
  \/ \E a \in Hot, v \in Byte :
       \/ Write(a, v) \/ RttWrite(a, v) \/ FlashWrite(a, v)
       \/ FlashBreakpoint(a, v) \/ Execute(a, v) \/ Reset(a, v)
       \/ \E target \in Maps : Attach(target, a, v)
  \/ \E a \in Hot : FlashErase(a)
  \/ FlashDone \/ Resume \/ Stop \/ Detach

CacheSpec == CacheInit /\ [][CacheNext]_cacheVars

-----------------------------------------------------------------------------
(* mem_cache.rs:21 "It can therefore never serve stale data across         *)
(* execution, modification, or target switches": a valid line is the       *)
(* target's memory.                                                        *)
NeverStale == valid => data = MemLine(base)

(* What the code does keep: only RTT's writes that need no halt, flash     *)
(* breakpoints and the last flush of a load, which bypass the cache, can   *)
(* make a line stale, and only until the next invalidation.                *)
CacheCoherent == ~bypassed => NeverStale

(* mem_cache.rs:14 "Only addresses inside RAM/flash map regions are ever   *)
(* cached", whole aligned lines of them: the map of the target attached    *)
(* now, not that of the target the line was read from.                     *)
OnlyMappedLinesCached ==
  valid => /\ base % LINE_SIZE = 0
           /\ \E region \in map : Bytes(base, LINE_SIZE) \subseteq region

(* While the target runs no line is kept, so nothing it writes can be      *)
(* served stale after the stop.                                            *)
NothingCachedWhileRunning == running => ~valid

(* commands/memory.rs:18 "read memory and return hex-encoded bytes": the   *)
(* reply to m is what the memory holds, whatever mix of chunks and lines   *)
(* served it, if every chunk could be read and no line was bypassed.       *)
ReplyIsMemory ==
  reply.whole /\ ~bypassed =>
    \A i \in DOMAIN reply.bytes : reply.bytes[i] = mem[reply.addr + i]

=============================================================================
