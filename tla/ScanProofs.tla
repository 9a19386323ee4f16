----------------------------- MODULE ScanProofs ------------------------------
(***************************************************************************)
(* What a scan begins anew: the session arena, which it wipes, and the     *)
(* list of the targets, which live in it.                                  *)
(*                                                                         *)
(* The arena.  The bump allocator gives disjoint, aligned, in-region       *)
(* blocks for every region size, every set of request sizes and every      *)
(* order of calls, as long as no client frees a pointer whose memory has   *)
(* been handed out again (StaleFree = FALSE).  BlocksDisjoint is not       *)
(* inductive by itself: a rewind is harmless only because last names a     *)
(* block that is still owned and ends at the bump pointer (TopBlock), and  *)
(* an allocation only because every block ends at or below it              *)
(* (BlocksInside).  The figures of `mon arena` need no such client:        *)
(* DeadBlocksAccounted is proved for every order of free() calls, stale    *)
(* double frees included.                                                  *)
(*                                                                         *)
(* The targets.  For every arena, however many targets a scan finds: the   *)
(* pointer to the current target never dangles, a target that is not       *)
(* attached is clean and, until a mishap, what the probe remembers is      *)
(* about the current target.  None of the four is inductive alone: a       *)
(* request sets up state for the targets at the current address, so these  *)
(* must be one target (Apart) and attached (CurNeverDangles); an attach    *)
(* moves the pointer away from what is remembered, so nothing must be      *)
(* remembered then (StaticsAreCurrent with OnlyCurAttached).               *)
(***************************************************************************)
EXTENDS SessionArena, TargetList, FiniteSetTheorems, TLAPS

-----------------------------------------------------------------------------
(* The session arena.                                                      *)

(* The bump pointer never passes its own peak, nor the peak the region. *)
WithinCapacity ==
  \A r \in Region : used[r] <= peak[r] /\ peak[r] <= Capacity(r)

ArenaInv == ArenaTypeOK /\ WithinCapacity /\ BlocksInside /\ BlocksDisjoint /\ TopBlock

-----------------------------------------------------------------------------
(* align_up returns the least multiple of ALIGN at or above its argument. *)
LEMMA AlignUpAligned ==
  ASSUME NEW n \in Nat
  PROVE  /\ align_up(n) \in Nat
         /\ n <= align_up(n)
         /\ align_up(n) < n + ALIGN
         /\ align_up(n) % ALIGN = 0
BY DEF align_up, ALIGN

(* Both regions have a size. *)
LEMMA CapacityNat == \A r \in Region : Capacity(r) \in Nat
BY ArenaAssumption DEF ArenaAssumption, Capacity, Region

LEMMA InitArena == ArenaInit => ArenaInv
<1> SUFFICES ASSUME ArenaInit PROVE ArenaInv
  OBVIOUS
<1>1. ArenaTypeOK
  BY DEF ArenaInit, ArenaTypeOK, Region, NO_BLOCK
<1>2. WithinCapacity
  BY CapacityNat DEF ArenaInit, WithinCapacity
<1>3. BlocksInside /\ BlocksDisjoint /\ TopBlock
  BY DEF ArenaInit, BlocksInside, BlocksDisjoint, TopBlock
<1> QED BY <1>1, <1>2, <1>3 DEF ArenaInv

(* An allocation places the new block above every block of its region. *)
LEMMA BumpIInv ==
  ASSUME ArenaInv, NEW r \in Region, NEW size \in Sizes, Bump(r, size)
  PROVE  ArenaInv'
<1> DEFINE start == align_up(used[r])
           new == [region |-> r, start |-> start, size |-> size, live |-> TRUE]
<1> USE DEF ArenaInv
<1>1. /\ size \in Nat \ {0}
      /\ used[r] \in Nat
      /\ Capacity(r) \in Nat
  BY ArenaAssumption, CapacityNat DEF ArenaAssumption, ArenaTypeOK
<1>2. /\ start \in Nat
      /\ used[r] <= start
      /\ start % ALIGN = 0
  BY <1>1, AlignUpAligned
<1>3. /\ new \in Block
      /\ End(new) = start + size
  BY <1>1, <1>2 DEF Block, End
<1>4. /\ start + size <= Capacity(r)
      /\ used' = [used EXCEPT ![r] = start + size]
      /\ last' = [last EXCEPT ![r] = start]
      /\ peak' = [peak EXCEPT ![r] = IF start + size > @ THEN start + size ELSE @]
      /\ blocks' = blocks \cup {new}
      /\ UNCHANGED <<armed, frees, rewinds, heap, panicked, freed>>
  BY DEF Bump, Fits
<1> HIDE DEF start, new
<1>5. ArenaTypeOK'
  <2>1. /\ used' \in [Region -> Nat]
        /\ last' \in [Region -> Nat \cup {NO_BLOCK}]
    BY <1>1, <1>2, <1>4 DEF ArenaTypeOK
  <2>2. peak' \in [Region -> Nat]
    BY <1>1, <1>2, <1>4 DEF ArenaTypeOK
  <2>3. blocks' \subseteq Block
    BY <1>3, <1>4 DEF ArenaTypeOK
  <2> QED BY <1>4, <2>1, <2>2, <2>3 DEF ArenaTypeOK
<1>6. WithinCapacity'
  BY <1>1, <1>2, <1>4 DEF WithinCapacity, ArenaTypeOK, Capacity
<1>7. \A b \in blocks : b.region = r => End(b) <= start
  BY <1>1, <1>2 DEF BlocksInside, ArenaTypeOK, Block, End
<1>8. BlocksInside'
  <2> SUFFICES ASSUME NEW b \in blocks'
               PROVE  /\ End(b) <= used'[b.region]
                      /\ End(b) <= Capacity(b.region)
                      /\ b.start % ALIGN = 0
    BY DEF BlocksInside, Capacity, End
  <2>1. CASE b = new
    <3>1. b.region = r /\ b.start = start /\ End(b) = start + size
      BY <2>1, <1>3 DEF new
    <3>2. used'[r] = start + size
      BY <1>4 DEF ArenaTypeOK
    <3> QED BY <3>1, <3>2, <1>1, <1>2, <1>4
  <2>2. CASE b \in blocks
    <3>1. /\ b.region \in Region /\ End(b) \in Nat
          /\ End(b) <= used[b.region]
          /\ End(b) <= Capacity(b.region)
          /\ b.start % ALIGN = 0
      BY <2>2 DEF BlocksInside, ArenaTypeOK, Block, End
    <3>2. End(b) <= used'[b.region]
      BY <3>1, <2>2, <1>1, <1>2, <1>4, <1>7 DEF ArenaTypeOK
    <3> QED BY <3>1, <3>2
  <2> QED BY <2>1, <2>2, <1>4
<1>9. BlocksDisjoint'
  <2> SUFFICES ASSUME NEW b \in blocks', NEW c \in blocks',
                      b.region = c.region, b # c
               PROVE  BlocksApart(b, c)
    BY DEF BlocksDisjoint, BlocksApart, End
  <2>1. CASE b \in blocks /\ c \in blocks
    BY <2>1 DEF BlocksDisjoint
  <2>2. CASE b = new
    BY <2>2, <1>4, <1>7, <1>3 DEF BlocksApart, new
  <2>3. CASE c = new
    BY <2>3, <1>4, <1>7, <1>3 DEF BlocksApart, new
  <2> QED BY <2>1, <2>2, <2>3, <1>4
<1>10. TopBlock'
  <2> SUFFICES ASSUME NEW q \in Region, last'[q] # NO_BLOCK
               PROVE  \E b \in blocks' : /\ b.region = q
                                         /\ b.live
                                         /\ b.start = last'[q]
                                         /\ End(b) = used'[q]
    BY DEF TopBlock, End
  <2>1. CASE q = r
    <3>1. last'[q] = start /\ used'[q] = start + size
      BY <2>1, <1>4 DEF ArenaTypeOK
    <3>2. new.region = q /\ new.live /\ new.start = start
      BY <2>1 DEF new
    <3> QED BY <3>1, <3>2, <1>3, <1>4
  <2>2. CASE q # r
    <3>1. last'[q] = last[q] /\ used'[q] = used[q]
      BY <2>2, <1>4 DEF ArenaTypeOK
    <3> QED BY <3>1, <1>4 DEF TopBlock
  <2> QED BY <2>1, <2>2
<1> QED BY <1>5, <1>6, <1>8, <1>9, <1>10

(* A release either rewinds to the top block or only marks the block dead. *)
LEMMA FreeIInv ==
  ASSUME ArenaInv, NEW b \in blocks, Free(b)
  PROVE  ArenaInv'
<1> USE DEF ArenaInv
<1> DEFINE dead == [b EXCEPT !.live = FALSE]
           r == b.region
<1>1. /\ b \in Block /\ r \in Region /\ b.start \in Nat
      /\ b.size \in Nat \ {0} /\ End(b) \in Nat
      /\ b.live
      /\ freed' = freed \cup {<<r, b.start>>}
      /\ b.start # NO_BLOCK
  BY DEF ArenaTypeOK, Block, End, Free, NO_BLOCK
<1>2. /\ frees' = frees + 1
      /\ UNCHANGED <<armed, peak, heap, panicked>>
  BY DEF Free, FreeFrom
<1>3. /\ frees' \in Nat /\ freed' \subseteq Region \X Nat
      /\ armed' \in BOOLEAN /\ peak' \in [Region -> Nat]
      /\ heap' \in Nat /\ panicked' \in BOOLEAN
  BY <1>1, <1>2 DEF ArenaTypeOK
<1>4. CASE last[r] = b.start
  <2>1. /\ used' = [used EXCEPT ![r] = b.start]
        /\ last' = [last EXCEPT ![r] = NO_BLOCK]
        /\ rewinds' = rewinds + 1
        /\ blocks' = blocks \ {b}
    BY <1>4 DEF Free, FreeFrom
  <2>2. ArenaTypeOK'
    <3>1. used' \in [Region -> Nat] /\ last' \in [Region -> Nat \cup {NO_BLOCK}]
      BY <2>1, <1>1 DEF ArenaTypeOK
    <3>2. blocks' \subseteq Block /\ rewinds' \in Nat
      BY <2>1 DEF ArenaTypeOK
    <3>3. frees' \in Nat
      BY <1>3
    <3> QED BY <3>1, <3>2, <3>3, <1>3 DEF ArenaTypeOK
  <2>3. b.start <= used[r]
    BY <1>1 DEF BlocksInside, ArenaTypeOK, End, Block
  <2>4. WithinCapacity'
    BY <2>1, <2>3, <1>1, <1>2, CapacityNat DEF WithinCapacity, ArenaTypeOK, Capacity
  <2>5. End(b) = used[r]
    <3>1. PICK c \in blocks : /\ c.region = r
                              /\ c.start = b.start
                              /\ End(c) = used[r]
      BY <1>1, <1>4 DEF TopBlock
    <3>2. c.size \in Nat \ {0} /\ c.start \in Nat
      BY DEF ArenaTypeOK, Block
    <3>3. c = b
      BY <3>1, <3>2, <1>1 DEF BlocksDisjoint, BlocksApart, End
    <3> QED BY <3>1, <3>3
  <2>6. \A c \in blocks' : c.region = r => End(c) <= b.start
    <3> SUFFICES ASSUME NEW c \in blocks', c.region = r
                 PROVE  End(c) <= b.start
      OBVIOUS
    <3>1. c \in blocks /\ c # b
      BY <2>1
    <3>2. c.size \in Nat \ {0} /\ c.start \in Nat
      BY <3>1 DEF ArenaTypeOK, Block
    <3>3. End(c) <= End(b)
      BY <3>1, <2>5 DEF BlocksInside
    <3>4. BlocksApart(c, b)
      BY <3>1 DEF BlocksDisjoint
    <3> QED BY <3>2, <3>3, <3>4, <1>1 DEF BlocksApart, End
  <2>7. BlocksInside'
    <3> SUFFICES ASSUME NEW c \in blocks'
                 PROVE  /\ End(c) <= used'[c.region]
                        /\ End(c) <= Capacity(c.region)
                        /\ c.start % ALIGN = 0
      BY DEF BlocksInside, Capacity, End
    <3>1. c \in blocks /\ c.region \in Region
      BY <2>1 DEF ArenaTypeOK, Block
    <3>2. used'[c.region] = IF c.region = r THEN b.start ELSE used[c.region]
      BY <3>1, <2>1 DEF ArenaTypeOK
    <3> QED BY <3>1, <3>2, <2>6 DEF BlocksInside
  <2>8. BlocksDisjoint'
    BY <2>1 DEF BlocksDisjoint, BlocksApart, End
  <2>9. TopBlock'
    <3> SUFFICES ASSUME NEW q \in Region, last'[q] # NO_BLOCK
                 PROVE  \E c \in blocks' : /\ c.region = q
                                           /\ c.live
                                           /\ c.start = last'[q]
                                           /\ End(c) = used'[q]
      BY DEF TopBlock, End
    <3>1. q # r
      BY <2>1 DEF ArenaTypeOK
    <3>2. last'[q] = last[q] /\ used'[q] = used[q]
      BY <3>1, <2>1 DEF ArenaTypeOK
    <3>3. PICK c \in blocks : /\ c.region = q
                              /\ c.live
                              /\ c.start = last[q]
                              /\ End(c) = used[q]
      BY <3>2 DEF TopBlock
    <3> QED BY <3>1, <3>2, <3>3, <2>1
  <2> QED BY <2>2, <2>4, <2>7, <2>8, <2>9
<1>5. CASE last[r] # b.start
  <2>1. /\ UNCHANGED <<used, last, rewinds>>
        /\ blocks' = (blocks \ {b}) \cup {dead}
    BY <1>5 DEF Free, FreeFrom
  <2>2. /\ dead \in Block /\ dead.region = r /\ dead.start = b.start
        /\ End(dead) = End(b) /\ ~dead.live
    BY <1>1 DEF Block, End
  <2>3. ArenaTypeOK'
    BY <2>1, <2>2, <1>3 DEF ArenaTypeOK
  <2>4. WithinCapacity'
    BY <2>1, <1>2 DEF WithinCapacity
  <2> HIDE DEF dead
  <2>5. BlocksInside'
    BY <2>1, <2>2 DEF BlocksInside
  <2>6. BlocksDisjoint'
    <3> SUFFICES ASSUME NEW c \in blocks', NEW d \in blocks',
                        c.region = d.region, c # d
                 PROVE  BlocksApart(c, d)
      BY DEF BlocksDisjoint, BlocksApart, End
    <3> QED BY <2>1, <2>2 DEF BlocksDisjoint, BlocksApart
  <2>7. TopBlock'
    <3> SUFFICES ASSUME NEW q \in Region, last'[q] # NO_BLOCK
                 PROVE  \E c \in blocks' : /\ c.region = q
                                           /\ c.live
                                           /\ c.start = last'[q]
                                           /\ End(c) = used'[q]
      BY DEF TopBlock, End
    <3>1. PICK c \in blocks : /\ c.region = q
                              /\ c.live
                              /\ c.start = last[q]
                              /\ End(c) = used[q]
      BY <2>1 DEF TopBlock
    <3>2. c # b
      BY <3>1, <1>5
    <3> QED BY <3>1, <3>2, <2>1
  <2> QED BY <2>3, <2>4, <2>5, <2>6, <2>7
<1> QED BY <1>4, <1>5

(* A double free of memory nobody holds finds last elsewhere: only counts. *)
LEMMA DoubleFreeUnchanged ==
  ASSUME ArenaInv, ~StaleFree, NEW p \in freed, DoubleFree(p)
  PROVE  /\ UNCHANGED <<used, last, rewinds, blocks, freed, armed, peak, heap, panicked>>
         /\ frees' = frees + 1
<1>1. p[1] \in Region /\ p[2] \in Nat /\ p = <<p[1], p[2]>>
  BY DEF ArenaInv, ArenaTypeOK
<1>2. last[p[1]] # p[2]
  <2> SUFFICES ASSUME last[p[1]] = p[2] PROVE FALSE
    OBVIOUS
  <2>1. PICK b \in blocks : b.region = p[1] /\ b.live /\ b.start = p[2]
    BY <1>1 DEF ArenaInv, TopBlock, NO_BLOCK
  <2> QED BY <2>1, <1>1 DEF DoubleFree
<1> QED BY <1>2 DEF DoubleFree, FreeFrom

(* Every step preserves the inductive invariant. *)
LEMMA NextArena ==
  ASSUME ~StaleFree, ArenaInv, [ArenaNext]_arena
  PROVE  ArenaInv'
<1>1. ASSUME NEW r \in Region, NEW size \in Sizes, Alloc(r, size)
      PROVE  ArenaInv'
  <2>1. CASE Bump(r, size)
    BY <2>1, BumpIInv
  <2>2. CASE OutOfArena(r, size)
    BY <2>2 DEF OutOfArena, bump, ArenaInv, ArenaTypeOK, WithinCapacity, BlocksInside,
                BlocksDisjoint, TopBlock, BlocksApart
  <2> QED BY <1>1, <2>1, <2>2 DEF Alloc
<1>2. CASE HeapAlloc
  BY <1>2 DEF HeapAlloc, bump, ArenaInv, ArenaTypeOK, WithinCapacity, BlocksInside,
              BlocksDisjoint, TopBlock
<1>3. ASSUME NEW b \in blocks, Free(b) PROVE ArenaInv'
  BY <1>3, FreeIInv
<1>4. ASSUME NEW p \in freed, DoubleFree(p) PROVE ArenaInv'
  BY <1>4, DoubleFreeUnchanged DEF ArenaInv, ArenaTypeOK, WithinCapacity, BlocksInside,
              BlocksDisjoint, TopBlock
<1>5. CASE HeapFree
  BY <1>5 DEF HeapFree, bump, ArenaInv, ArenaTypeOK, WithinCapacity, BlocksInside,
              BlocksDisjoint, TopBlock
<1>6. CASE Open
  <2>1. ArenaTypeOK'
    BY <1>6 DEF Open, ArenaInv, ArenaTypeOK, NO_BLOCK
  <2>2. WithinCapacity'
    BY <1>6, CapacityNat DEF Open, WithinCapacity
  <2>3. BlocksInside' /\ BlocksDisjoint' /\ TopBlock'
    BY <1>6 DEF Open, BlocksInside, BlocksDisjoint, TopBlock
  <2> QED BY <2>1, <2>2, <2>3 DEF ArenaInv
<1>7. CASE UNCHANGED arena
  BY <1>7 DEF arena, bump, ArenaInv, ArenaTypeOK, WithinCapacity, BlocksInside,
              BlocksDisjoint, TopBlock
<1> QED BY <1>1, <1>2, <1>3, <1>4, <1>5, <1>6, <1>7 DEF ArenaNext

(* The inductive invariant holds in every reachable state. *)
THEOREM ArenaInvariant ==
  ASSUME ~StaleFree
  PROVE  ArenaSpec => []ArenaInv
<1>1. ArenaInit => ArenaInv
  BY InitArena
<1>2. ArenaInv /\ [ArenaNext]_arena => ArenaInv'
  BY NextArena
<1> QED BY <1>1, <1>2, PTL DEF ArenaSpec

(* session_arena.rs: the blocks handed out and not rewound never overlap. *)
THEOREM BlocksNeverOverlap ==
  ASSUME ~StaleFree
  PROVE  ArenaSpec => []BlocksDisjoint
<1>1. ArenaInv => BlocksDisjoint
  BY DEF ArenaInv
<1> QED BY <1>1, ArenaInvariant, PTL

(* What a free() rewinds to is a block its client still owns, at the top.  *)
THEOREM RewindsOnlyOwnedBlocks ==
  ASSUME ~StaleFree
  PROVE  ArenaSpec => []TopBlock
<1>1. ArenaInv => TopBlock
  BY DEF ArenaInv
<1> QED BY <1>1, ArenaInvariant, PTL

(* Every block stays below the bump pointer, inside its region, aligned. *)
THEOREM BlocksStayInside ==
  ASSUME ~StaleFree
  PROVE  ArenaSpec => []BlocksInside
<1>1. ArenaInv => BlocksInside
  BY DEF ArenaInv
<1> QED BY <1>1, ArenaInvariant, PTL

(* session_arena.rs:73, for a pointer whose memory nobody holds: a double  *)
(* free() changes the counters only.                                       *)
THEOREM DoubleFreeOnlyCountsTheorem ==
  ASSUME ~StaleFree
  PROVE  ArenaSpec => DoubleFreeOnlyCounts
<1>1. ArenaInv /\ [ArenaNext]_arena =>
        [\A p \in freed : DoubleFree(p) => UNCHANGED <<used, last>>]_arena
  BY DoubleFreeUnchanged
<1> QED BY <1>1, ArenaInvariant, PTL DEF ArenaSpec, DoubleFreeOnlyCounts

-----------------------------------------------------------------------------
(* The accounting of the dead blocks, whatever the clients free and however *)
(* often: a rewind lowers the bump pointer, never raises it.                *)
Dead == {b \in blocks : ~b.live}

LastBelowUsed == \A r \in Region : last[r] # NO_BLOCK => last[r] <= used[r]

AccountInv ==
  /\ ArenaTypeOK
  /\ WithinCapacity
  /\ LastBelowUsed
  /\ IsFiniteSet(blocks)
  /\ Cardinality(Dead) <= frees - rewinds

(* The dead blocks are finitely many. *)
LEMMA DeadFinite ==
  ASSUME IsFiniteSet(blocks)
  PROVE  IsFiniteSet(Dead) /\ Cardinality(Dead) \in Nat
BY FS_Subset, FS_CardinalityType DEF Dead

LEMMA InitAccount == ArenaInit => AccountInv
<1> SUFFICES ASSUME ArenaInit PROVE AccountInv
  OBVIOUS
<1>1. ArenaTypeOK /\ WithinCapacity
  BY InitArena DEF ArenaInv
<1>2. LastBelowUsed
  BY DEF ArenaInit, LastBelowUsed
<1>3. IsFiniteSet(blocks)
  BY FS_EmptySet DEF ArenaInit
<1>4. Dead = {}
  BY DEF ArenaInit, Dead
<1>5. Cardinality(Dead) = 0
  BY <1>4, FS_EmptySet
<1> QED BY <1>1, <1>2, <1>3, <1>5 DEF AccountInv, ArenaInit

(* What free() does to the bump state of a region, top block or not. *)
LEMMA FreeFromAccount ==
  ASSUME AccountInv, NEW r \in Region, NEW offset \in Nat, FreeFrom(r, offset)
  PROVE  /\ used' \in [Region -> Nat] /\ peak' \in [Region -> Nat]
         /\ last' \in [Region -> Nat \cup {NO_BLOCK}]
         /\ frees' = frees + 1 /\ rewinds' \in {rewinds, rewinds + 1}
         /\ last[r] # offset => rewinds' = rewinds
         /\ WithinCapacity' /\ LastBelowUsed'
         /\ UNCHANGED <<armed, heap, panicked>>
<1>1. /\ frees' = frees + 1
      /\ UNCHANGED <<armed, peak, heap, panicked>>
  BY DEF FreeFrom
<1>2. CASE last[r] = offset
  <2>1. /\ used' = [used EXCEPT ![r] = offset]
        /\ last' = [last EXCEPT ![r] = NO_BLOCK]
        /\ rewinds' = rewinds + 1
    BY <1>2 DEF FreeFrom
  <2>2. used' \in [Region -> Nat] /\ last' \in [Region -> Nat \cup {NO_BLOCK}]
    BY <2>1 DEF AccountInv, ArenaTypeOK
  <2>3. offset <= used[r]
    BY <1>2 DEF AccountInv, LastBelowUsed, NO_BLOCK
  <2>4. WithinCapacity'
    BY <1>1, <2>1, <2>3, CapacityNat DEF AccountInv, ArenaTypeOK, WithinCapacity, Capacity
  <2>5. LastBelowUsed'
    BY <2>1 DEF AccountInv, ArenaTypeOK, LastBelowUsed
  <2> QED BY <1>1, <1>2, <2>1, <2>2, <2>4, <2>5 DEF AccountInv, ArenaTypeOK
<1>3. CASE last[r] # offset
  <2>1. UNCHANGED <<used, last, rewinds>>
    BY <1>3 DEF FreeFrom
  <2> QED BY <1>1, <2>1 DEF AccountInv, ArenaTypeOK, WithinCapacity, Capacity, LastBelowUsed
<1> QED BY <1>2, <1>3

(* A new block is live, and ends where the bump pointer stands. *)
LEMMA BumpAccount ==
  ASSUME AccountInv, NEW r \in Region, NEW size \in Sizes, Bump(r, size)
  PROVE  AccountInv'
<1> DEFINE start == align_up(used[r])
           new == [region |-> r, start |-> start, size |-> size, live |-> TRUE]
<1>1. /\ size \in Nat \ {0} /\ used[r] \in Nat /\ Capacity(r) \in Nat
      /\ start \in Nat /\ used[r] <= start
  BY ArenaAssumption, CapacityNat, AlignUpAligned DEF ArenaAssumption, AccountInv, ArenaTypeOK
<1>2. /\ start + size <= Capacity(r)
      /\ used' = [used EXCEPT ![r] = start + size]
      /\ last' = [last EXCEPT ![r] = start]
      /\ peak' = [peak EXCEPT ![r] = IF start + size > @ THEN start + size ELSE @]
      /\ blocks' = blocks \cup {new}
      /\ UNCHANGED <<armed, frees, rewinds, heap, panicked, freed>>
  BY DEF Bump, Fits
<1>3. new \in Block /\ new.live
  BY <1>1 DEF Block
<1> HIDE DEF start, new
<1>4. ArenaTypeOK'
  <2>1. /\ used' \in [Region -> Nat] /\ peak' \in [Region -> Nat]
        /\ last' \in [Region -> Nat \cup {NO_BLOCK}]
    BY <1>1, <1>2 DEF AccountInv, ArenaTypeOK
  <2> QED BY <1>2, <1>3, <2>1 DEF AccountInv, ArenaTypeOK
<1>5. WithinCapacity'
  BY <1>1, <1>2 DEF AccountInv, WithinCapacity, ArenaTypeOK, Capacity
<1>6. LastBelowUsed'
  BY <1>1, <1>2 DEF AccountInv, LastBelowUsed, ArenaTypeOK
<1>7. IsFiniteSet(blocks')
  BY <1>2, FS_AddElement DEF AccountInv
<1>8. Dead' = Dead
  BY <1>2, <1>3 DEF Dead
<1> QED BY <1>2, <1>4, <1>5, <1>6, <1>7, <1>8 DEF AccountInv

(* Only a free() that reclaims nothing leaves a dead block behind. *)
LEMMA FreeAccount ==
  ASSUME AccountInv, NEW b \in blocks, Free(b)
  PROVE  AccountInv'
<1> DEFINE dead == [b EXCEPT !.live = FALSE]
<1>1. /\ b \in Block /\ b.region \in Region /\ b.start \in Nat /\ b.live
      /\ dead \in Block /\ ~dead.live
  BY DEF AccountInv, ArenaTypeOK, Block, Free
<1>2. FreeFrom(b.region, b.start)
  BY DEF Free
<1>3. freed' \subseteq Region \X Nat
  BY <1>1 DEF Free, AccountInv, ArenaTypeOK
<1>4. /\ IsFiniteSet(Dead) /\ Cardinality(Dead) \in Nat
      /\ frees \in Nat /\ rewinds \in Nat /\ Cardinality(Dead) <= frees - rewinds
  BY DeadFinite DEF AccountInv, ArenaTypeOK
<1> HIDE DEF dead
<1>5. CASE last[b.region] = b.start
  <2>1. blocks' = blocks \ {b} /\ rewinds' = rewinds + 1 /\ frees' = frees + 1
    BY <1>5 DEF Free, FreeFrom
  <2>2. Dead' = Dead
    BY <2>1, <1>1 DEF Dead
  <2>3. blocks' \subseteq Block /\ IsFiniteSet(blocks')
    BY <2>1, FS_RemoveElement DEF AccountInv, ArenaTypeOK
  <2> QED BY <1>1, <1>2, <1>3, <1>4, <2>1, <2>2, <2>3, FreeFromAccount
          DEF AccountInv, ArenaTypeOK
<1>6. CASE last[b.region] # b.start
  <2>1. blocks' = (blocks \ {b}) \cup {dead} /\ rewinds' = rewinds /\ frees' = frees + 1
    BY <1>6 DEF Free, FreeFrom, dead
  <2>2. Dead' = Dead \cup {dead}
    BY <2>1, <1>1 DEF Dead
  <2>3. Cardinality(Dead') \in Nat /\ Cardinality(Dead') <= Cardinality(Dead) + 1
    BY <2>2, <1>4, FS_AddElement
  <2>4. blocks' \subseteq Block /\ IsFiniteSet(blocks')
    BY <2>1, <1>1, FS_RemoveElement, FS_AddElement DEF AccountInv, ArenaTypeOK
  <2> QED BY <1>1, <1>2, <1>3, <1>4, <2>1, <2>3, <2>4, FreeFromAccount
          DEF AccountInv, ArenaTypeOK
<1> QED BY <1>5, <1>6

LEMMA NextAccount == AccountInv /\ [ArenaNext]_arena => AccountInv'
<1> SUFFICES ASSUME AccountInv, [ArenaNext]_arena PROVE AccountInv'
  OBVIOUS
<1>1. ASSUME NEW r \in Region, NEW size \in Sizes, Alloc(r, size)
      PROVE  AccountInv'
  <2>1. CASE Bump(r, size)
    BY <2>1, BumpAccount
  <2>2. CASE OutOfArena(r, size)
    BY <2>2 DEF OutOfArena, bump, AccountInv, ArenaTypeOK, WithinCapacity, LastBelowUsed, Dead
  <2> QED BY <1>1, <2>1, <2>2 DEF Alloc
<1>2. CASE HeapAlloc
  BY <1>2 DEF HeapAlloc, bump, AccountInv, ArenaTypeOK, WithinCapacity, LastBelowUsed, Dead
<1>3. ASSUME NEW b \in blocks, Free(b) PROVE AccountInv'
  BY <1>3, FreeAccount
<1>4. ASSUME NEW p \in freed, DoubleFree(p) PROVE AccountInv'
  <2>1. p[1] \in Region /\ p[2] \in Nat /\ FreeFrom(p[1], p[2])
    BY <1>4 DEF AccountInv, ArenaTypeOK, DoubleFree
  <2>2. UNCHANGED <<blocks, freed>> /\ Dead' = Dead
    BY <1>4 DEF DoubleFree, Dead
  <2>3. Cardinality(Dead) \in Nat /\ frees \in Nat /\ rewinds \in Nat
    BY DeadFinite DEF AccountInv, ArenaTypeOK
  <2> QED BY <2>1, <2>2, <2>3, FreeFromAccount DEF AccountInv, ArenaTypeOK
<1>5. CASE HeapFree
  BY <1>5 DEF HeapFree, bump, AccountInv, ArenaTypeOK, WithinCapacity, LastBelowUsed, Dead
<1>6. CASE Open
  <2>1. ArenaTypeOK' /\ LastBelowUsed'
    BY <1>6 DEF Open, AccountInv, ArenaTypeOK, LastBelowUsed, NO_BLOCK
  <2>2. WithinCapacity'
    BY <1>6, CapacityNat DEF Open, WithinCapacity
  <2>3. blocks' = {} /\ Dead' = {}
    BY <1>6 DEF Open, Dead
  <2> QED BY <1>6, <2>1, <2>2, <2>3, FS_EmptySet DEF AccountInv, Open
<1>7. CASE UNCHANGED arena
  BY <1>7 DEF arena, bump, AccountInv, ArenaTypeOK, WithinCapacity, LastBelowUsed, Dead
<1> QED BY <1>1, <1>2, <1>3, <1>4, <1>5, <1>6, <1>7 DEF ArenaNext

(* session_arena.rs: the figures `mon arena` prints never hide a loss, not  *)
(* even when clients free stale pointers.                                   *)
THEOREM DeadBlocksAreAccounted == ArenaSpec => []DeadBlocksAccounted
<1>1. ArenaInit => AccountInv
  BY InitAccount
<1>2. AccountInv /\ [ArenaNext]_arena => AccountInv'
  BY NextAccount
<1>3. AccountInv => DeadBlocksAccounted
  BY DEF AccountInv, DeadBlocksAccounted, WithinCapacity, Dead
<1> QED BY <1>1, <1>2, <1>3, PTL DEF ArenaSpec

-----------------------------------------------------------------------------
(* The list of targets.                                                    *)

(* No two targets share an address of the arena. *)
Apart == \A i, j \in DOMAIN list : list[i].at = list[j].at => i = j

IInv == TypeOK /\ Apart /\ CurNeverDangles /\ OnlyCurAttached /\ DetachedIsClean /\ StaticsAreCurrent

-----------------------------------------------------------------------------
(* There is no current target without a pointer, and it is attached. *)
LEMMA CurrentFacts ==
  ASSUME IInv
  PROVE  /\ cur = NULL => Current = {}
         /\ \A i \in Current : i \in DOMAIN list /\ list[i].attached
         /\ CurrentIds \subseteq Id
         /\ \A i, j \in Current : i = j
<1>1. \A i \in DOMAIN list : list[i] \in Target
  BY DEF IInv, TypeOK
<1>2. \A i \in DOMAIN list : list[i].at # NULL /\ list[i].id \in Id
  BY <1>1, TargetAssumption DEF Target, TargetAssumption
<1>3. \A i \in Current : list[i].attached
  BY <1>2 DEF IInv, Apart, CurNeverDangles, Current
<1> QED BY <1>2, <1>3 DEF Current, CurrentIds, IInv, Apart

(* Until a mishap, with nothing attached, nothing is remembered. *)
LEMMA NothingRemembered ==
  ASSUME IInv, mishaps = {}, \A i \in DOMAIN list : ~list[i].attached
  PROVE  cur = NULL /\ \A k \in Static : about[k] = {}
<1>1. cur = NULL
  BY DEF IInv, CurNeverDangles
<1>2. CurrentIds = {}
  BY <1>1, CurrentFacts DEF CurrentIds
<1> QED BY <1>1, <1>2 DEF IInv, StaticsAreCurrent

-----------------------------------------------------------------------------
LEMMA InitIInv == Init => IInv
<1> SUFFICES ASSUME Init PROVE IInv
  OBVIOUS
<1>1. 0 \in 0..MaxId
  BY TargetAssumption DEF TargetAssumption
<1>2. DOMAIN list = {}
  BY DEF Init
<1> QED BY <1>1, <1>2 DEF Init, IInv, TypeOK, Apart, CurNeverDangles, OnlyCurAttached,
                          DetachedIsClean, StaticsAreCurrent, Nothing

-----------------------------------------------------------------------------
(* The targets of a scan are new, apart and untouched. *)
LEMMA NewFacts ==
  ASSUME IInv, NEW n \in Nat, NEW at \in [1..n -> Address], NEW cleans \in [1..n -> BOOLEAN],
         found + n <= MaxId
  PROVE  /\ New(n, at, cleans) \in Seq(Target)
         /\ DOMAIN New(n, at, cleans) = 1..n
         /\ \A i \in 1..n : /\ New(n, at, cleans)[i].at = at[i]
                            /\ ~New(n, at, cleans)[i].attached
                            /\ ~New(n, at, cleans)[i].flash_mode
                            /\ New(n, at, cleans)[i].watch = 0
<1>1. found \in Nat /\ MaxId \in Nat /\ MaxWatch \in Nat
  BY TargetAssumption DEF IInv, TypeOK, TargetAssumption
<1>2. \A i \in 1..n : found + i \in Id
  BY <1>1 DEF Id
<1>3. 0 \in 0..MaxWatch
  BY <1>1
<1>4. \A i \in 1..n : New(n, at, cleans)[i] \in Target
  BY <1>2, <1>3 DEF New, Target
<1> QED BY <1>4 DEF New

LEMMA ScanStep ==
  ASSUME IInv, NEW n \in 0..MaxFound, Scan(n)
  PROVE  IInv'
<1> DEFINE old     == {list[i] : i \in DOMAIN list}
           cleaned == \E t \in old : t.attached /\ t.cleans
<1>n. n \in Nat
  BY TargetAssumption DEF TargetAssumption
<1>1. PICK at \in [1..n -> Address], cleans \in [1..n -> BOOLEAN] :
        /\ \A i, j \in 1..n : i # j => at[i] # at[j]
        /\ list' = New(n, at, cleans)
  BY DEF Scan
<1>2. found + n <= MaxId /\ found' = found + n
  BY DEF Scan
<1>3. /\ list' \in Seq(Target)
      /\ DOMAIN list' = 1..n
      /\ \A i \in 1..n : /\ list'[i].at = at[i]
                         /\ ~list'[i].attached
                         /\ ~list'[i].flash_mode
                         /\ list'[i].watch = 0
  BY <1>n, <1>1, <1>2, NewFacts
<1>4. cur' = NULL
  <2>1. cur' = IF \E t \in old : t.tc /\ t.at = cur THEN NULL ELSE cur
    BY DEF Scan, Destroy
  <2> QED BY <2>1 DEF IInv, CurNeverDangles
<1>5. about' \in [Static -> SUBSET Id]
  <2>1. about \in [Static -> SUBSET Id] /\ Nothing \in [Static -> SUBSET Id]
    BY DEF IInv, TypeOK, Nothing
  <2> QED BY <2>1 DEF Scan
<1>6. TypeOK'
  <2>1. found' \in 0..MaxId
    BY <1>n, <1>2, TargetAssumption DEF IInv, TypeOK, TargetAssumption
  <2>2. mishaps' \subseteq Mishaps
    BY DEF Scan, Seen, IInv, TypeOK
  <2>3. active' \in Address \cup {NULL}
    BY DEF Scan, IInv, TypeOK
  <2> QED BY <1>3, <1>4, <1>5, <2>1, <2>2, <2>3 DEF TypeOK
<1>7. Apart'
  BY <1>1, <1>3 DEF Apart
<1>8. StaticsAreCurrent'
  <2> SUFFICES ASSUME mishaps' = {} PROVE \A k \in Static : about'[k] = {}
    BY DEF StaticsAreCurrent
  <2>1. mishaps = {} /\ ((\E t \in old : t.attached) => cleaned)
    BY DEF Scan, Seen
  <2>2. CASE cleaned
    <3>1. \A k \in Static : Nothing[k] = {}
      BY DEF Nothing
    <3>2. about' = IF n > 0 THEN [Nothing EXCEPT !["os"] = {}] ELSE Nothing
      BY <2>2 DEF Scan
    <3> QED BY <3>1, <3>2 DEF Nothing
  <2>3. CASE ~cleaned
    <3>1. \A i \in DOMAIN list : ~list[i].attached
      BY <2>1, <2>3
    <3>2. \A k \in Static : about[k] = {}
      BY <2>1, <3>1, NothingRemembered
    <3>3. about' = IF n > 0 THEN [about EXCEPT !["os"] = {}] ELSE about
      BY <2>3 DEF Scan
    <3> QED BY <3>2, <3>3 DEF IInv, TypeOK
  <2> QED BY <2>2, <2>3
<1> QED BY <1>3, <1>4, <1>6, <1>7, <1>8
        DEF IInv, CurNeverDangles, OnlyCurAttached, DetachedIsClean

LEMMA AttachSucceedsStep ==
  ASSUME IInv, NEW n \in Nat, AttachSucceeds(n)
  PROVE  IInv'
<1>1. /\ n \in DOMAIN list /\ list \in Seq(Target) /\ list[n] \in Target
      /\ about \in [Static -> SUBSET Id]
  BY DEF AttachSucceeds, IInv, TypeOK
<1>2. /\ list' = [list EXCEPT ![n].tc = TRUE, ![n].attached = TRUE]
      /\ cur' = list[n].at
      /\ UNCHANGED <<active, found>>
  BY DEF AttachSucceeds
<1>3. PICK custom \in {{}, {list[n].id}} : about' = [about EXCEPT !["commands"] = custom]
  BY DEF AttachSucceeds
<1>4. /\ list' \in Seq(Target) /\ DOMAIN list' = DOMAIN list
      /\ list'[n] = [list[n] EXCEPT !.tc = TRUE, !.attached = TRUE]
      /\ \A i \in DOMAIN list : i # n => list'[i] = list[i]
      /\ \A i \in DOMAIN list : /\ list'[i].at = list[i].at /\ list'[i].id = list[i].id
                                /\ list'[i].flash_mode = list[i].flash_mode
                                /\ list'[i].watch = list[i].watch
  <2>1. [list[n] EXCEPT !.tc = TRUE, !.attached = TRUE] \in Target
    BY <1>1 DEF Target
  <2>2. /\ list'[n] = [list[n] EXCEPT !.tc = TRUE, !.attached = TRUE]
        /\ DOMAIN list' = DOMAIN list
        /\ \A i \in DOMAIN list : i # n => list'[i] = list[i]
    BY <1>1, <1>2
  <2>3. list' = [list EXCEPT ![n] = [list[n] EXCEPT !.tc = TRUE, !.attached = TRUE]]
    BY <1>1, <1>2
  <2>4. list' \in Seq(Target)
    BY <1>1, <2>1, <2>3
  <2> QED BY <1>1, <2>2, <2>4 DEF Target
<1>5. TypeOK'
  <2>1. custom \subseteq Id
    BY <1>1, <1>3 DEF Target
  <2>2. about' \in [Static -> SUBSET Id]
    BY <1>1, <1>3, <2>1
  <2>3. mishaps' \subseteq Mishaps
    BY DEF AttachSucceeds, Seen, IInv, TypeOK
  <2>4. cur' \in Address \cup {NULL}
    BY <1>1, <1>2 DEF Target
  <2> QED BY <1>2, <1>4, <2>2, <2>3, <2>4 DEF IInv, TypeOK
<1>6. Apart' /\ CurNeverDangles'
  BY <1>1, <1>2, <1>4 DEF IInv, Apart, CurNeverDangles, Target
<1>7. DetachedIsClean'
  BY <1>1, <1>4 DEF IInv, DetachedIsClean, Target
<1>8. ASSUME mishaps' = {}
      PROVE  mishaps = {} /\ \A i \in DOMAIN list : ~list[i].attached
  BY <1>8 DEF AttachSucceeds, Seen, Switching
<1>9. OnlyCurAttached'
  BY <1>1, <1>2, <1>4, <1>8 DEF OnlyCurAttached
<1>10. StaticsAreCurrent'
  <2> SUFFICES ASSUME mishaps' = {} PROVE \A k \in Static : about'[k] \subseteq CurrentIds'
    BY DEF StaticsAreCurrent
  <2>1. \A k \in Static : about[k] = {}
    BY <1>8, NothingRemembered
  <2>2. list[n].id \in CurrentIds'
    BY <1>1, <1>2, <1>4 DEF CurrentIds, Current
  <2> QED BY <1>1, <1>3, <2>1, <2>2
<1> QED BY <1>5, <1>6, <1>7, <1>9, <1>10 DEF IInv

LEMMA AttachRefusedStep ==
  ASSUME IInv, NEW n \in Nat, AttachRefused(n)
  PROVE  IInv'
<1>1. /\ list \in Seq(Target) /\ about \in [Static -> SUBSET Id]
      /\ cur' = NULL /\ UNCHANGED <<active, found>>
      /\ about' = [about EXCEPT !["os"] = {}, !["sw"] = {}, !["commands"] = {}]
  BY DEF AttachRefused, AttachFails, IInv, TypeOK
<1>2. /\ list' \in Seq(Target) /\ DOMAIN list' = DOMAIN list
      /\ \A i \in DOMAIN list : /\ list'[i].at = list[i].at
                                /\ list'[i].attached = list[i].attached
                                /\ list'[i].flash_mode = list[i].flash_mode
                                /\ list'[i].watch = list[i].watch
  <2>1. CASE n \in DOMAIN list
    <3>0. list[n] \in Target
      BY <1>1, <2>1
    <3>1. [list[n] EXCEPT !.tc = TRUE] \in Target
      BY <3>0 DEF Target
    <3>2. list' = [list EXCEPT ![n] = [list[n] EXCEPT !.tc = TRUE]]
      BY <2>1 DEF AttachRefused
    <3>3. \A i \in DOMAIN list : list[i] \in Target
      BY <1>1
    <3> QED BY <1>1, <2>1, <3>1, <3>2, <3>3 DEF Target
  <2>2. CASE n \notin DOMAIN list
    BY <1>1, <2>2 DEF AttachRefused
  <2> QED BY <2>1, <2>2
<1>3. TypeOK'
  <2>1. about' \in [Static -> SUBSET Id]
    BY <1>1
  <2>2. mishaps' \subseteq Mishaps
    BY DEF AttachRefused, Seen, IInv, TypeOK
  <2> QED BY <1>1, <1>2, <2>1, <2>2 DEF IInv, TypeOK
<1>4. Apart' /\ DetachedIsClean' /\ CurNeverDangles'
  BY <1>1, <1>2 DEF IInv, Apart, DetachedIsClean, CurNeverDangles
<1>5. ASSUME mishaps' = {}
      PROVE  mishaps = {} /\ \A i \in DOMAIN list : ~list[i].attached
  BY <1>5 DEF AttachRefused, Seen, Switching
<1>6. OnlyCurAttached'
  BY <1>2, <1>5 DEF OnlyCurAttached
<1>7. StaticsAreCurrent'
  <2> SUFFICES ASSUME mishaps' = {} PROVE \A k \in Static : about'[k] = {}
    BY DEF StaticsAreCurrent
  <2>1. \A k \in Static : about[k] = {}
    BY <1>5, NothingRemembered
  <2> QED BY <1>1, <2>1
<1> QED BY <1>3, <1>4, <1>6, <1>7 DEF IInv

LEMMA DetachStep ==
  ASSUME IInv, bmp_detach
  PROVE  IInv'
<1>1. PICK ok \in BOOLEAN :
        /\ Seen(IF ok THEN {} ELSE {"detach"})
        /\ list' = [i \in DOMAIN list |->
                      IF i \in Current THEN [Cleaned(list[i]) EXCEPT !.attached = ~ok] ELSE list[i]]
  BY DEF bmp_detach
<1>2. about' = Nothing /\ active' = NULL /\ cur' = NULL /\ UNCHANGED found
  BY DEF bmp_detach, CleanStatics
<1>3. /\ list \in Seq(Target) /\ \A i \in DOMAIN list : list[i] \in Target
      /\ 0 \in 0..MaxWatch
  BY TargetAssumption DEF IInv, TypeOK, TargetAssumption
<1>4. /\ list' \in Seq(Target) /\ DOMAIN list' = DOMAIN list
      /\ \A i \in DOMAIN list : list'[i].at = list[i].at
      /\ \A i \in DOMAIN list : i \notin Current => list'[i] = list[i]
      /\ \A i \in Current : /\ list'[i].attached = ~ok /\ ~list'[i].flash_mode
                            /\ list'[i].watch = 0
  <2> DEFINE t(i) == [Cleaned(list[i]) EXCEPT !.attached = ~ok]
  <2>1. ASSUME NEW i \in DOMAIN list
        PROVE  t(i) \in Target /\ t(i).at = list[i].at /\ t(i).attached = ~ok
               /\ ~t(i).flash_mode /\ t(i).watch = 0
    <3>1. list[i] \in Target
      BY <1>3
    <3> QED BY <1>3, <3>1 DEF Target, Cleaned
  <2>2. list' = [i \in DOMAIN list |-> IF i \in Current THEN t(i) ELSE list[i]]
    BY <1>1
  <2> HIDE DEF t
  <2>3. list' \in Seq(Target) /\ DOMAIN list' = DOMAIN list
    BY <1>3, <2>1, <2>2
  <2>4. \A i \in DOMAIN list : list'[i] = IF i \in Current THEN t(i) ELSE list[i]
    BY <2>2
  <2>5. Current \subseteq DOMAIN list
    BY DEF Current
  <2> QED BY <2>1, <2>3, <2>4, <2>5
<1>5. TypeOK'
  <2>1. mishaps' \subseteq Mishaps
    BY <1>1 DEF Seen, IInv, TypeOK
  <2>2. Nothing \in [Static -> SUBSET Id]
    BY DEF Nothing
  <2> QED BY <1>2, <1>4, <2>1, <2>2 DEF IInv, TypeOK
<1>6. Apart' /\ CurNeverDangles' /\ DetachedIsClean'
  <2>1. Current \subseteq DOMAIN list
    BY DEF Current
  <2> QED BY <1>2, <1>4, <2>1 DEF IInv, Apart, CurNeverDangles, DetachedIsClean
<1>7. OnlyCurAttached'
  <2> SUFFICES ASSUME mishaps' = {}, NEW i \in DOMAIN list PROVE ~list'[i].attached
    BY <1>4 DEF OnlyCurAttached
  <2>1. ok /\ mishaps = {}
    BY <1>1 DEF Seen
  <2>2. list[i].attached => i \in Current
    BY <2>1 DEF IInv, OnlyCurAttached, Current
  <2> QED BY <1>4, <2>1, <2>2
<1>8. StaticsAreCurrent'
  BY <1>2 DEF StaticsAreCurrent, Nothing
<1> QED BY <1>5, <1>6, <1>7, <1>8 DEF IInv

LEMMA DetachNothingStep ==
  ASSUME IInv, DetachNothing
  PROVE  IInv'
<1>1. Nothing \in [Static -> SUBSET Id] /\ \A k \in Static : Nothing[k] = {}
  BY DEF Nothing
<1> QED BY <1>1 DEF DetachNothing, CleanStatics, IInv, TypeOK, Apart, CurNeverDangles,
              OnlyCurAttached, DetachedIsClean, StaticsAreCurrent

-----------------------------------------------------------------------------
(* What a request does: to the list it keeps addresses, ids and what is    *)
(* attached, and soils no target but the current one; what it remembers it *)
(* remembered before or is about the current target.                       *)
TargetsKept ==
  /\ list' \in Seq(Target) /\ DOMAIN list' = DOMAIN list
  /\ \A i \in DOMAIN list :
       /\ list'[i].at = list[i].at /\ list'[i].id = list[i].id
       /\ list'[i].attached = list[i].attached /\ list'[i].tc = list[i].tc
       /\ i \notin Current => /\ list'[i].flash_mode => list[i].flash_mode
                              /\ list'[i].watch = list[i].watch

StaticsKept ==
  /\ UNCHANGED <<cur, found, mishaps>>
  /\ active' \in Address \cup {NULL}
  /\ about' \in [Static -> SUBSET Id]
  /\ \A k \in Static : about'[k] \subseteq about[k] \cup CurrentIds

LEMMA RequestStep ==
  ASSUME IInv, TargetsKept, StaticsKept
  PROVE  IInv'
<1> USE DEF TargetsKept, StaticsKept
<1>1. TypeOK'
  BY DEF IInv, TypeOK
<1>2. CurrentIds' = CurrentIds
  <2>1. Current' = Current
    BY DEF Current
  <2> QED BY <2>1 DEF CurrentIds, Current
<1>3. Apart' /\ CurNeverDangles' /\ OnlyCurAttached'
  BY DEF IInv, Apart, CurNeverDangles, OnlyCurAttached
<1>4. DetachedIsClean'
  BY CurrentFacts DEF IInv, DetachedIsClean
<1>5. StaticsAreCurrent'
  BY <1>2 DEF IInv, StaticsAreCurrent
<1> QED BY <1>1, <1>3, <1>4, <1>5 DEF IInv

LEMMA FlashRequestStep ==
  ASSUME IInv, FlashRequest
  PROVE  IInv'
<1>1. /\ list \in Seq(Target) /\ \A i \in DOMAIN list : list[i] \in Target
      /\ about \in [Static -> SUBSET Id] /\ cur \in Address \cup {NULL}
  BY DEF IInv, TypeOK
<1> DEFINE t(i) == [list[i] EXCEPT !.flash_mode = @ \/ i \in Current]
<1>2. list' = [i \in DOMAIN list |-> t(i)]
  BY DEF FlashRequest
<1>3. ASSUME NEW i \in DOMAIN list
      PROVE  /\ t(i) \in Target
             /\ t(i).at = list[i].at /\ t(i).id = list[i].id
             /\ t(i).attached = list[i].attached
             /\ t(i).tc = list[i].tc /\ t(i).watch = list[i].watch
             /\ i \notin Current => (t(i).flash_mode => list[i].flash_mode)
  <2>1. (list[i].flash_mode \/ i \in Current) \in BOOLEAN
    BY <1>1 DEF Target
  <2>2. list[i] \in Target
    BY <1>1
  <2> QED BY <2>1, <2>2 DEF Target
<1> HIDE DEF t
<1>4. list' \in Seq(Target) /\ DOMAIN list' = DOMAIN list /\ \A i \in DOMAIN list : list'[i] = t(i)
  BY <1>1, <1>2, <1>3
<1>5. /\ about' \in [Static -> SUBSET Id]
      /\ \A k \in Static : about'[k] \subseteq about[k] \cup CurrentIds
  BY <1>1, CurrentFacts DEF FlashRequest
<1>6. TargetsKept
  BY <1>3, <1>4 DEF TargetsKept
<1>7. StaticsKept
  BY <1>1, <1>5 DEF StaticsKept, FlashRequest
<1> QED BY <1>6, <1>7, RequestStep

LEMMA FlashCompleteStep ==
  ASSUME IInv, target_flash_complete
  PROVE  IInv'
<1>1. /\ list \in Seq(Target) /\ \A i \in DOMAIN list : list[i] \in Target
      /\ about \in [Static -> SUBSET Id]
  BY DEF IInv, TypeOK
<1> DEFINE t(i) == [list[i] EXCEPT !.flash_mode = @ /\ i \notin Current]
<1>2. list' = [i \in DOMAIN list |-> t(i)]
  BY DEF target_flash_complete
<1>3. ASSUME NEW i \in DOMAIN list
      PROVE  /\ t(i) \in Target
             /\ t(i).at = list[i].at /\ t(i).id = list[i].id
             /\ t(i).attached = list[i].attached
             /\ t(i).tc = list[i].tc /\ t(i).watch = list[i].watch
             /\ i \notin Current => (t(i).flash_mode => list[i].flash_mode)
  <2>1. (list[i].flash_mode /\ i \notin Current) \in BOOLEAN
    BY <1>1 DEF Target
  <2>2. list[i] \in Target
    BY <1>1
  <2> QED BY <2>1, <2>2 DEF Target
<1> HIDE DEF t
<1>4. list' \in Seq(Target) /\ DOMAIN list' = DOMAIN list /\ \A i \in DOMAIN list : list'[i] = t(i)
  BY <1>1, <1>2, <1>3
<1>5. /\ about' \in [Static -> SUBSET Id]
      /\ \A k \in Static : about'[k] \subseteq about[k] \cup CurrentIds
  BY <1>1 DEF target_flash_complete
<1>6. TargetsKept
  BY <1>3, <1>4 DEF TargetsKept
<1>7. StaticsKept
  BY <1>1, <1>5 DEF StaticsKept, target_flash_complete
<1> QED BY <1>6, <1>7, RequestStep

LEMMA StaticStep ==
  ASSUME IInv, NEW k \in Requested, SetUp(k) \/ TakeDown(k)
  PROVE  IInv'
<1>1. /\ list \in Seq(Target) /\ active \in Address \cup {NULL}
      /\ about \in [Static -> SUBSET Id]
  BY DEF IInv, TypeOK
<1>2. /\ about' \in [Static -> SUBSET Id]
      /\ \A j \in Static : about'[j] \subseteq about[j] \cup CurrentIds
  <2>1. k \in Static
    BY TargetAssumption DEF TargetAssumption, Static
  <2>2. CASE SetUp(k)
    BY <1>1, <2>1, <2>2, CurrentFacts DEF SetUp
  <2>3. CASE TakeDown(k)
    BY <1>1, <2>1, <2>3 DEF TakeDown
  <2> QED BY <2>2, <2>3
<1>3. UNCHANGED <<list, cur, active, found, mishaps>>
  BY DEF SetUp, TakeDown
<1> QED BY <1>1, <1>2, <1>3, RequestStep DEF TargetsKept, StaticsKept

LEMMA WatchStep ==
  ASSUME IInv, NEW more \in BOOLEAN, Watch(more)
  PROVE  IInv'
<1>1. /\ list \in Seq(Target) /\ \A i \in DOMAIN list : list[i] \in Target
      /\ active \in Address \cup {NULL} /\ about \in [Static -> SUBSET Id]
      /\ MaxWatch \in Nat
  BY TargetAssumption DEF IInv, TypeOK, TargetAssumption
<1>2. PICK i \in Current :
        /\ IF more THEN list[i].watch < MaxWatch ELSE list[i].watch > 0
        /\ list' = [list EXCEPT ![i].watch = IF more THEN @ + 1 ELSE @ - 1]
  BY DEF Watch
<1> DEFINE w == IF more THEN list[i].watch + 1 ELSE list[i].watch - 1
<1>3. i \in DOMAIN list
  BY DEF Current
<1>4. w \in 0..MaxWatch
  <2>0. list[i] \in Target
    BY <1>1, <1>3
  <2>1. list[i].watch \in 0..MaxWatch
    BY <2>0 DEF Target
  <2>2. CASE more
    <3>1. list[i].watch < MaxWatch
      BY <1>2, <2>2
    <3> QED BY <1>1, <2>1, <2>2, <3>1
  <2>3. CASE ~more
    <3>1. list[i].watch > 0
      BY <1>2, <2>3
    <3> QED BY <1>1, <2>1, <2>3, <3>1
  <2> QED BY <2>2, <2>3
<1>5. list' = [list EXCEPT ![i] = [list[i] EXCEPT !.watch = w]]
  BY <1>2, <1>3
<1>6. [list[i] EXCEPT !.watch = w] \in Target
  <2> HIDE DEF w
  <2> QED BY <1>1, <1>3, <1>4 DEF Target
<1> HIDE DEF w
<1>7. list' \in Seq(Target) /\ DOMAIN list' = DOMAIN list
  BY <1>1, <1>3, <1>5, <1>6
<1>8. \A j \in DOMAIN list : /\ list'[j].at = list[j].at /\ list'[j].id = list[j].id
                             /\ list'[j].attached = list[j].attached
                             /\ list'[j].tc = list[j].tc
                             /\ list'[j].flash_mode = list[j].flash_mode
                             /\ j \notin Current => list'[j].watch = list[j].watch
  BY <1>1, <1>3, <1>5 DEF Target
<1>9. UNCHANGED <<cur, active, about, found, mishaps>>
  BY DEF Watch
<1>10. TargetsKept
  BY <1>7, <1>8 DEF TargetsKept
<1>11. StaticsKept
  BY <1>1, <1>9 DEF StaticsKept
<1> QED BY <1>10, <1>11, RequestStep

-----------------------------------------------------------------------------
LEMMA NextIInv == IInv /\ [Next]_vars => IInv'
<1> SUFFICES ASSUME IInv, [Next]_vars PROVE IInv'
  OBVIOUS
<1>1. CASE \E n \in 0..MaxFound : Scan(n)
  BY <1>1, ScanStep
<1>2. CASE \E n \in 1..(MaxFound + 1) : vAttach(n)
  <2>1. PICK n \in 1..(MaxFound + 1) : vAttach(n)
    BY <1>2
  <2>2. n \in Nat
    BY TargetAssumption DEF TargetAssumption
  <2> QED BY <2>1, <2>2, AttachSucceedsStep, AttachRefusedStep DEF vAttach
<1>3. CASE bmp_detach
  BY <1>3, DetachStep
<1>4. CASE DetachNothing
  BY <1>4, DetachNothingStep
<1>5. CASE FlashRequest
  BY <1>5, FlashRequestStep
<1>6. CASE target_flash_complete
  BY <1>6, FlashCompleteStep
<1>7. CASE \E k \in Requested : SetUp(k) \/ TakeDown(k)
  BY <1>7, StaticStep
<1>8. CASE \E more \in BOOLEAN : Watch(more)
  BY <1>8, WatchStep
<1>9. CASE UNCHANGED vars
  BY <1>9 DEF vars, IInv, TypeOK, Apart, CurNeverDangles, OnlyCurAttached, DetachedIsClean,
              StaticsAreCurrent, CurrentIds, Current
<1> QED BY <1>1, <1>2, <1>3, <1>4, <1>5, <1>6, <1>7, <1>8, <1>9 DEF Next

(* The inductive invariant holds of every behaviour. *)
THEOREM TargetInvariant == Spec => []IInv
BY InitIInv, NextIInv, PTL DEF Spec

(* The types, which bound the watch nodes of a target. *)
THEOREM TypeCorrect == Spec => []TypeOK
<1>1. IInv => TypeOK
  BY DEF IInv
<1> QED BY <1>1, TargetInvariant, PTL

(* cur_target names a target of the list that is attached and will tell    *)
(* when it is freed, whatever target_list_free(), target_attach_n() and    *)
(* bmp_detach_c() meet or fail at.                                         *)
THEOREM CurrentTargetNeverDangles == Spec => []CurNeverDangles
<1>1. IInv => CurNeverDangles
  BY DEF IInv
<1> QED BY <1>1, TargetInvariant, PTL

(* Until a scan, an attach or a failing detach leaves one behind, no target *)
(* but the one of cur_target is attached.                                   *)
THEOREM NoTargetLeftAttached == Spec => []OnlyCurAttached
<1>1. IInv => OnlyCurAttached
  BY DEF IInv
<1> QED BY <1>1, TargetInvariant, PTL

(* disconnect_cleanup() leaves no watch nodes and no flash mode behind.    *)
THEOREM DetachedTargetsAreClean == Spec => []DetachedIsClean
<1>1. IInv => DetachedIsClean
  BY DEF IInv
<1> QED BY <1>1, TargetInvariant, PTL

(* Until such a mishap the flash manager, the breakpoint tables, RTT, the  *)
(* FreeRTOS tables and the monitor commands are the current target's.      *)
THEOREM StaticsFollowTheTarget == Spec => []StaticsAreCurrent
<1>1. IInv => StaticsAreCurrent
  BY DEF IInv
<1> QED BY <1>1, TargetInvariant, PTL
=============================================================================
