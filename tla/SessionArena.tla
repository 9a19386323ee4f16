---------------------------- MODULE SessionArena ----------------------------
(***************************************************************************)
(* The session arena of swindle (rs_swindle/src/session_arena.rs): two     *)
(* static regions, the target POOL and the TRANSPORT, each served by a     *)
(* bump allocator.  Memory comes back as a whole, when a scan wipes both   *)
(* regions, or one block at a time when the block freed is the one handed  *)
(* out last.                                                               *)
(*                                                                         *)
(* The variable blocks is not a variable of the code: it records what the  *)
(* clients were given, so that the properties can speak of it.  A freed    *)
(* block the allocator could not take back stays in blocks with            *)
(* live = FALSE: the dead nodes of the module's documentation.             *)
(***************************************************************************)
EXTENDS Integers, FiniteSets

CONSTANTS
  POOL_SIZE,        \* bytes of the target pool
  TRANSPORT_SIZE,   \* bytes of the transport region
  Sizes,            \* the request sizes clients use
  StaleFree,        \* may a double free name memory handed out again since?
  MaxFrees,         \* bound on the u32 counter of free() calls
  MaxHeap           \* bound on the blocks alive on the heap before arming

ASSUME ArenaAssumption ==
  /\ POOL_SIZE \in Nat \ {0}
  /\ TRANSPORT_SIZE \in Nat \ {0}
  /\ Sizes \subseteq Nat \ {0}
  /\ StaleFree \in BOOLEAN
  /\ MaxFrees \in Nat
  /\ MaxHeap \in Nat

ALIGN    == 8
NO_BLOCK == -1       \* usize::MAX in the code: never the offset of a block

Region == {"pool", "transport"}
Capacity(r) == IF r = "pool" THEN POOL_SIZE ELSE TRANSPORT_SIZE

Block == [region : Region, start : Nat, size : Nat \ {0}, live : BOOLEAN]
End(b) == b.start + b.size

VARIABLES
  armed,     \* does the arena serve allocations?
  used,      \* used[r]: bytes of region r handed out
  peak,      \* peak[r]: highest used[r] since the last wipe
  last,      \* last[r]: offset of the block handed out last, or NO_BLOCK
  frees,     \* free() calls that landed on arena memory
  rewinds,   \* those of them that gave the memory back
  heap,      \* blocks alive on the probe heap (allocated while unarmed)
  panicked,  \* a region was exhausted: the firmware is in deadEnd(55)
  blocks,    \* the blocks handed out since the last wipe and not rewound
  freed      \* the <<region, offset>> pointers clients have freed

bump == <<used, peak, last>>
arena == <<armed, used, peak, last, frees, rewinds, heap, panicked, blocks, freed>>

ArenaTypeOK ==
  /\ armed \in BOOLEAN
  /\ used \in [Region -> Nat]
  /\ peak \in [Region -> Nat]
  /\ last \in [Region -> Nat \cup {NO_BLOCK}]
  /\ frees \in Nat
  /\ rewinds \in Nat
  /\ heap \in Nat
  /\ panicked \in BOOLEAN
  /\ blocks \subseteq Block
  /\ freed \subseteq Region \X Nat

ArenaInit ==
  /\ armed = FALSE
  /\ used = [r \in Region |-> 0]
  /\ peak = [r \in Region |-> 0]
  /\ last = [r \in Region |-> NO_BLOCK]
  /\ frees = 0
  /\ rewinds = 0
  /\ heap = 0
  /\ panicked = FALSE
  /\ blocks = {}
  /\ freed = {}

-----------------------------------------------------------------------------
(* (value + align - 1) & !(align - 1), for align = ALIGN. *)
align_up(value) == ((value + ALIGN - 1) \div ALIGN) * ALIGN

(* The end of the request, once aligned, is within the region. *)
Fits(r, size) == align_up(used[r]) + size <= Capacity(r)

(* A request that does not fit is fatal: it is logged, then panics. *)
OutOfArena(r, size) ==
  /\ ~Fits(r, size)
  /\ panicked' = TRUE
  /\ UNCHANGED <<armed, bump, frees, rewinds, heap, blocks, freed>>

(* Bump size zeroed bytes out of the region. *)
Bump(r, size) ==
  LET start == align_up(used[r])
      end   == start + size
  IN  /\ Fits(r, size)
      /\ used' = [used EXCEPT ![r] = end]
      /\ last' = [last EXCEPT ![r] = start]
      /\ peak' = [peak EXCEPT ![r] = IF end > @ THEN end ELSE @]
      /\ blocks' = blocks \cup
                     {[region |-> r, start |-> start, size |-> size, live |-> TRUE]}
      /\ UNCHANGED <<armed, frees, rewinds, heap, panicked, freed>>

(* swindle_session_malloc, _calloc and _transport_alloc of a non-zero size: *)
(* (size 0 and a calloc that overflows return null and change nothing).     *)
Alloc(r, size) ==
  /\ ~panicked
  /\ armed
  /\ Bump(r, size) \/ OutOfArena(r, size)

(* The same calls before the first scan: the block comes from the heap. *)
HeapAlloc ==
  /\ ~panicked
  /\ ~armed
  /\ heap < MaxHeap
  /\ heap' = heap + 1
  /\ UNCHANGED <<armed, bump, frees, rewinds, panicked, blocks, freed>>

(* A mutation: free() rewinds to whatever block it is given. *)
FreeFromAnyOrder(r, offset) ==
  /\ frees < MaxFrees
  /\ frees' = frees + 1
  /\ used' = [used EXCEPT ![r] = offset]
  /\ last' = [last EXCEPT ![r] = NO_BLOCK]
  /\ rewinds' = rewinds + 1
  /\ UNCHANGED <<armed, peak, heap, panicked>>

(* The bump state after free() of the pointer at this offset of region r:   *)
(* the top block is rewound, any other only counted.                        *)
FreeFrom(r, offset) ==
  /\ frees < MaxFrees
  /\ frees' = frees + 1
  /\ IF last[r] = offset
     THEN /\ used' = [used EXCEPT ![r] = offset]
          /\ last' = [last EXCEPT ![r] = NO_BLOCK]
          /\ rewinds' = rewinds + 1
     ELSE UNCHANGED <<used, last, rewinds>>
  /\ UNCHANGED <<armed, peak, heap, panicked>>

(* swindle_session_free of a block its client still owns. *)
Free(b) ==
  /\ ~panicked
  /\ b \in blocks
  /\ b.live
  /\ FreeFrom(b.region, b.start)
  /\ blocks' = (blocks \ {b}) \cup
                 (IF last[b.region] = b.start THEN {} ELSE {[b EXCEPT !.live = FALSE]})
  /\ freed' = freed \cup {<<b.region, b.start>>}

(* swindle_session_free of a pointer its client has freed before. *)
DoubleFree(p) ==
  /\ ~panicked
  /\ p \in freed
  /\ StaleFree \/ \A b \in blocks : b.live => p # <<b.region, b.start>>
  /\ FreeFrom(p[1], p[2])
  /\ UNCHANGED <<blocks, freed>>

(* swindle_session_free of a pointer in neither region. *)
HeapFree ==
  /\ ~panicked
  /\ heap > 0
  /\ heap' = heap - 1
  /\ UNCHANGED <<armed, bump, frees, rewinds, panicked, blocks, freed>>

(* swindle_session_open, at the end of target_list_free(): every object of  *)
(* the previous session has been released, both regions are wiped.  That    *)
(* nothing is live there is the caller's obligation; module TargetList      *)
(* shows that target_list_free() meets it.                                  *)
Open ==
  /\ ~panicked
  /\ \A b \in blocks : ~b.live
  /\ armed' = TRUE
  /\ used' = [r \in Region |-> 0]
  /\ peak' = [r \in Region |-> 0]
  /\ last' = [r \in Region |-> NO_BLOCK]
  /\ frees' = 0
  /\ rewinds' = 0
  /\ blocks' = {}
  /\ freed' = {}
  /\ UNCHANGED <<heap, panicked>>

ArenaNext ==
  \/ \E r \in Region, size \in Sizes : Alloc(r, size)
  \/ HeapAlloc
  \/ \E b \in blocks : Free(b)
  \/ \E p \in freed : DoubleFree(p)
  \/ HeapFree
  \/ Open

ArenaSpec == ArenaInit /\ [][ArenaNext]_arena

-----------------------------------------------------------------------------
(* Two blocks of one region, freed or not, share no byte. *)
BlocksApart(b, c) == End(b) <= c.start \/ End(c) <= b.start

(* No two clients are ever given overlapping memory, in any order of       *)
(* allocations, releases and rewinds, until the next wipe.                 *)
BlocksDisjoint ==
  \A b, c \in blocks : b.region = c.region /\ b # c => BlocksApart(b, c)

(* A block a client holds lies below the bump pointer and inside its       *)
(* region, aligned for the LDRD/STRD the session objects need: the next    *)
(* allocation can neither reuse nor misplace it.                           *)
BlocksInside ==
  \A b \in blocks :
    /\ End(b) <= used[b.region]
    /\ End(b) <= Capacity(b.region)
    /\ b.start % ALIGN = 0

(* The offset a free() may rewind to is that of a block nobody has freed   *)
(* and that ends at the bump pointer: a rewind never takes back bytes of   *)
(* another block.                                                          *)
TopBlock ==
  \A r \in Region :
    last[r] # NO_BLOCK =>
      \E b \in blocks : /\ b.region = r
                        /\ b.live
                        /\ b.start = last[r]
                        /\ End(b) = used[r]

(* The figures `mon arena` prints never hide a loss: the free() calls that *)
(* reclaimed nothing are at least as many as the dead blocks still         *)
(* occupying the regions, and no use ever exceeds the peak reported.       *)
DeadBlocksAccounted ==
  /\ Cardinality({b \in blocks : ~b.live}) <= frees - rewinds
  /\ \A r \in Region : used[r] <= peak[r] /\ peak[r] <= Capacity(r)

(* session_arena.rs:73 "Any other order, and a double free(), only count": *)
(* freeing a pointer a second time leaves the bump pointer alone.          *)
DoubleFreeOnlyCounts ==
  [][ \A p \in freed : DoubleFree(p) => UNCHANGED <<used, last>> ]_arena

=============================================================================
