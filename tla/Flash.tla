------------------------------- MODULE Flash --------------------------------
(***************************************************************************)
(* Flash programming: the C interface with its static manager              *)
(* (flash/c_adapter.rs), the manager of a target's flash regions           *)
(* (flash/manager.rs) and the sector buffer that batches writes            *)
(* (flash/buffer.rs).  The callbacks of the target's driver are external:  *)
(* erase_block and write_block act on NOR cells, and any one callback of a *)
(* request may fail.  A handler is a function from state to state: s.ok is *)
(* the Result of the call made last, and s.fault numbers the callback of   *)
(* the request that fails, if any.                                         *)
(***************************************************************************)
EXTENDS Integers, Sequences, FiniteSetsExt

CONSTANTS
  Regions,           \* the regions of the target in order: records with start and length
  BLOCK,             \* their erase block, in cells
  EXTRA_ERASE_SIZES, \* the larger blocks they can erase
  WRITE,             \* their write size
  BUF,               \* the size of the sector buffer
  Byte, Erased, Corrupt,
  EraseSizes,        \* the lengths of erase requests
  WriteSizes,        \* the lengths of write requests
  MaxCalls,          \* bound on the callbacks of a request that may fail
  MayDetach          \* may the target be detached in the middle of a load?

Region    == {Regions[i] : i \in DOMAIN Regions}
End(r)    == r.start + r.length
NoRegion  == [start |-> 0, length |-> 0]
NoAddr    == -1
Cells(r)  == r.start..(End(r) - 1)
Addr      == UNION {Cells(r) : r \in Region}
Cell      == Byte \cup {Erased, Corrupt}
Operation == {"None", "Erase", "Write"}

\* Sizes are powers of two in the code, which masks addresses with them: the
\* smaller one divides the larger one
ASSUME FlashAssumption ==
  /\ Regions \in Seq([start : Nat, length : Nat \ {0}])
  /\ \A r1, r2 \in Region : r1 # r2 => Cells(r1) \cap Cells(r2) = {}
  /\ \A n \in {BLOCK, BUF, WRITE} : n \in Nat \ {0}
  /\ BUF % WRITE = 0
  /\ \A r \in Region : \A n \in {BLOCK, BUF} : r.start % n = 0 /\ r.length % n = 0
  /\ \A n \in EXTRA_ERASE_SIZES : n > BLOCK => n % BLOCK = 0
  /\ EXTRA_ERASE_SIZES \cup EraseSizes \cup WriteSizes \subseteq Nat \ {0}
  /\ Erased \notin Byte /\ Corrupt \notin Byte \cup {Erased}
  /\ MaxCalls \in Nat /\ MayDetach \in BOOLEAN

VARIABLES
  dev,      \* the device: flash, and per region the operation the driver
            \* records, the one the controller is prepared for, and whether a
            \* callback ever found it prepared for something else
  mgr,      \* ACTIVE_MANAGER: current_operation of its regions, active_idx
            \* and the sector buffer
  mode,     \* target->flash_mode
  reply,    \* whether the last request was answered OK
  touched,  \* the cells the load since the last vFlashDone reaches (a history
            \* variable)
  calm      \* no callback has failed, no detach cut a load short (a history
            \* variable)

vars == <<dev, mgr, mode, reply, touched, calm>>

EmptyBuffer == [base |-> NoAddr, low |-> NoAddr, high |-> NoAddr,
                data |-> [i \in 0..(BUF - 1) |-> Erased]]
NewManager  == [current |-> [r \in Region |-> "None"], active |-> NoRegion,
                buffer |-> EmptyBuffer]

Buffer == [base : Addr \cup {NoAddr}, low : Addr \cup {NoAddr},
           high : {a + 1 : a \in Addr} \cup {NoAddr}, data : [0..(BUF - 1) -> Byte \cup {Erased}]]

TypeOK ==
  /\ dev \in [flash : [Addr -> Cell], operation : [Region -> Operation],
              prepared : [Region -> Operation], unprepared : BOOLEAN]
  /\ mgr \in [current : [Region -> Operation], active : Region \cup {NoRegion},
              buffer : Buffer]
  /\ mode \in BOOLEAN
  /\ reply \in BOOLEAN
  /\ touched \subseteq Addr
  /\ calm \in BOOLEAN

Init ==
  /\ dev = [flash |-> [a \in Addr |-> Erased],
            operation |-> [r \in Region |-> "None"],
            prepared |-> [r \in Region |-> "None"],
            unprepared |-> FALSE]
  /\ mgr = NewManager
  /\ mode = FALSE
  /\ reply = TRUE
  /\ touched = {}
  /\ calm = TRUE

-----------------------------------------------------------------------------
(* CTargetFlashDriver: the callbacks of the target's driver.               *)

Ok(s)   == [s EXCEPT !.ok = TRUE]
Fail(s) == [s EXCEPT !.ok = FALSE]
Call(s) == [s EXCEPT !.calls = @ + 1, !.ok = (s.calls + 1 # s.fault)]

Program(old, new) == IF new \in {Erased, old} THEN old
                     ELSE IF old = Erased THEN new ELSE Corrupt

\* The ? operator of the code: go on if all went well so far
Then(s, F(_)) == IF s.ok THEN F(s) ELSE s

\* Go on in any case; all went well if both did
Both(s, F(_)) == LET t == F(s) IN [t EXCEPT !.ok = @ /\ s.ok]

done_keeps(s, r) ==                                             \* a mutation
  IF s.dev.operation[r] = "None" THEN Ok(s)
  ELSE [Call(s) EXCEPT !.dev.prepared[r] = "None"]
done(s, r) ==
  IF s.dev.operation[r] = "None" THEN Ok(s)
  ELSE [Call(s) EXCEPT !.dev.operation[r] = "None", !.dev.prepared[r] = "None"]

prepare(s, r, op) ==
  LET asked(t) == IF t.ok THEN [t EXCEPT !.dev.operation[r] = op, !.dev.prepared[r] = op]
                  ELSE [t EXCEPT !.dev.operation[r] = "None"]
  IN  IF s.dev.operation[r] = op THEN Ok(s)
      ELSE Then(done(s, r), LAMBDA idle : asked(Call(idle)))

erase_block(s, r, cells) ==
  LET c == Call(s)
  IN  [c EXCEPT !.dev.unprepared = @ \/ s.dev.prepared[r] # "Erase",
                !.dev.flash = [a \in Addr |-> IF a \notin cells THEN @[a]
                                             ELSE IF c.ok THEN Erased ELSE Corrupt]]

write_block(s, r, addr, data) ==
  LET c == Call(s)
  IN  [c EXCEPT !.dev.unprepared = @ \/ s.dev.prepared[r] # "Write",
                !.dev.flash = [a \in Addr |->
                                 IF a \notin addr..(addr + WRITE - 1) THEN @[a]
                                 ELSE IF c.ok THEN Program(@[a], data[a - addr])
                                 ELSE Corrupt]]

-----------------------------------------------------------------------------
(* FlashSectorBuffer                                                       *)

is_dirty(buffer) == buffer.base # NoAddr /\ buffer.low < buffer.high
clear(s) == [s EXCEPT !.mgr.buffer = EmptyBuffer]

\* flush(): whole write units, from the one that holds the first dirty byte.
\* When prepare fails the bytes stay in the buffer; when a write fails the
\* rest is dropped.
flush(s, r) ==
  LET b     == s.mgr.buffer
      low   == b.low - (b.low % WRITE)
      units == (b.high - low + WRITE - 1) \div WRITE
      unit(k) == [i \in 0..(WRITE - 1) |-> b.data[low - b.base + (k - 1) * WRITE + i]]
      written(t) ==
        LET step[k \in 0..units] ==
              IF k = 0 THEN t
              ELSE Then(step[k - 1],
                        LAMBDA u : write_block(u, r, low + (k - 1) * WRITE, unit(k)))
        IN  step[units]
  IN  IF ~is_dirty(b) THEN Ok(s)
      ELSE Then(prepare(s, r, "Write"), LAMBDA t : clear(written(t)))

\* The chunk of a write that lies within one buffer
put(s, r, dest, n, v) ==
  LET base == dest - (dest % BUF)
      filled(t) ==
        LET b == t.mgr.buffer
        IN  [t EXCEPT !.mgr.buffer =
               [base |-> base,
                data |-> [i \in 0..(BUF - 1) |->
                            IF base + i \in dest..(dest + n - 1) THEN v ELSE b.data[i]],
                low  |-> IF b.low = NoAddr THEN dest ELSE Min({b.low, dest}),
                high |-> Max({b.high, dest + n})]]
      moved(t) == [t EXCEPT !.mgr.buffer = [EmptyBuffer EXCEPT !.base = base]]
  IN  IF s.mgr.buffer.base = base THEN filled(Ok(s))
      ELSE Then(flush(s, r), LAMBDA t : filled(moved(t)))

\* write() of the buffer: chunk after chunk
buffer_write(s, r, dest, n, v) ==
  LET first(k) == IF k = 1 THEN dest ELSE dest - (dest % BUF) + (k - 1) * BUF
      chunks   == ((dest % BUF) + n + BUF - 1) \div BUF
      size(k)  == Min({first(k + 1), dest + n}) - first(k)
      step[k \in 0..chunks] ==
        IF k = 0 THEN s
        ELSE Then(step[k - 1], LAMBDA t : put(t, r, first(k), size(k), v))
  IN  step[chunks]

-----------------------------------------------------------------------------
(* FlashManager                                                            *)

RegionOf(a) == CHOOSE r \in Region : a \in Cells(r)

\* done() of a region the manager has an operation for
release(s, r) == IF s.mgr.current[r] = "None" THEN Ok(s) ELSE done(s, r)
forget(s, r)  == [s EXCEPT !.mgr.current[r] = "None"]

set_operation(s, r, op) ==
  LET asked(t) == IF op = "None" THEN t
                  ELSE Then(prepare(t, r, op), LAMBDA u : [u EXCEPT !.mgr.current[r] = op])
  IN  IF s.mgr.current[r] = op THEN Ok(s)
      ELSE Then(release(s, r), LAMBDA t : asked(forget(t, r)))

finish_active(s) ==
  LET r == s.mgr.active
      left(t) == [forget(t, r) EXCEPT !.mgr.active = NoRegion, !.mgr.buffer = EmptyBuffer]
  IN  IF r = NoRegion THEN Ok(s)
      ELSE left(Both(flush(s, r), LAMBDA t : release(t, r)))

\* The region of the next byte becomes the active one, for the operation
select(s, r, op) ==
  LET active(t) == [t EXCEPT !.mgr.active = r]
  IN  Then(IF s.mgr.active = r THEN Ok(s) ELSE Then(finish_active(s), active),
           LAMBDA t : set_operation(t, r, op))

best_erase_block(start, padded) ==
  Max({BLOCK} \cup {n \in EXTRA_ERASE_SIZES : start % n = 0 /\ padded >= n /\ n > BLOCK})

\* p: the state so far, and the request that is left
erase(s, addr, len) ==
  LET next(p) ==
        LET r     == RegionOf(p.addr)
            start == p.addr - (p.addr % BLOCK)
            end   == start + best_erase_block(start, p.len + p.addr - start)
        IN  [s    |-> Then(select(p.s, r, "Erase"),
                           LAMBDA t : erase_block(t, r, start..(end - 1))),
             addr |-> end,
             len  |-> p.len - Min({end - p.addr, p.len})]
      more(p) ==
        IF p.len = 0 \/ ~p.s.ok THEN p
        ELSE IF p.addr \notin Addr THEN [p EXCEPT !.s = Fail(@)]
        ELSE next(p)
      step[k \in 0..len] ==
        IF k = 0 THEN [s |-> Ok(s), addr |-> addr, len |-> len] ELSE more(step[k - 1])
  IN  Then(step[len].s, finish_active)

write(s, dest, n, v) ==
  LET next(p) ==
        LET r   == RegionOf(p.dest)
            end == Min({dest + n, End(r)})
        IN  [s    |-> Then(select(p.s, r, "Write"),
                           LAMBDA t : buffer_write(t, r, p.dest, end - p.dest, v)),
             dest |-> end]
      more(p) ==
        IF p.dest = dest + n \/ ~p.s.ok THEN p
        ELSE IF p.dest \notin Addr THEN [p EXCEPT !.s = Fail(@)]
        ELSE next(p)
      step[k \in 0..n] == IF k = 0 THEN [s |-> Ok(s), dest |-> dest] ELSE more(step[k - 1])
  IN  step[n].s

complete_forgives(s) == [finish_active(s) EXCEPT !.ok = TRUE]   \* a mutation
\* complete(): finish_active(), and done() of every region left busy
complete(s) ==
  LET rest(t, r) == forget(Both(t, LAMBDA u : release(u, r)), r)
      step[k \in 0..Len(Regions)] ==
        IF k = 0 THEN finish_active(s) ELSE rest(step[k - 1], Regions[k])
  IN  step[Len(Regions)]

\* The blocks of a region, one by one
erase_blocks(s, r) ==
  LET from(k) == r.start + (k - 1) * BLOCK
      step[k \in 0..(r.length \div BLOCK)] ==
        IF k = 0 THEN s
        ELSE Then(step[k - 1], LAMBDA t : erase_block(t, r, from(k)..(from(k) + BLOCK - 1)))
  IN  step[r.length \div BLOCK]

\* mass_erase_all(), for regions without a mass erase of their own
mass_erase_all(s) ==
  LET erased(t, r) ==
        Then(Then(set_operation(t, r, "Erase"), LAMBDA u : erase_blocks(u, r)),
             LAMBDA u : set_operation(u, r, "None"))
      step[k \in 0..Len(Regions)] ==
        IF k = 0 THEN finish_active(s)
        ELSE Then(step[k - 1], LAMBDA t : erased(t, Regions[k]))
  IN  step[Len(Regions)]

-----------------------------------------------------------------------------
(* The requests.                                                           *)

\* target_enter_flash_mode_helper(): the controller comes up idle
Idle(d)  == [d EXCEPT !.prepared = [r \in Region |-> "None"]]
Enter(f) == [dev |-> IF mode THEN dev ELSE Idle(dev), mgr |-> mgr, ok |-> TRUE,
             calls |-> 0, fault |-> f]

StaysCalm(s) == calm' = (calm /\ ~(s.fault \in 1..s.calls))

Finish(s) ==
  /\ dev' = s.dev /\ mgr' = s.mgr
  /\ StaysCalm(s)
  /\ reply' = s.ok

\* The cells a load of the given ones may program: the sector buffer writes
\* the units from the first to the last with a byte, those between included
Reach(cells) ==
  {a \in Addr : \E b, c \in cells :
     /\ b \div BUF = a \div BUF /\ c \div BUF = a \div BUF
     /\ b \div WRITE <= a \div WRITE /\ a \div WRITE <= c \div WRITE}

\* The cells of the blocks an erase covers
Covered(addr, len) ==
  (addr - (addr % BLOCK))..(addr + len - 1 + (BLOCK - 1 - ((addr + len - 1) % BLOCK)))

\* GDB erases before it writes: no byte of the load is held back
vFlashErase(addr, len, f) ==
  /\ ~is_dirty(mgr.buffer)
  /\ Covered(addr, len) \subseteq Addr
  /\ Finish(erase(Enter(f), addr, len))
  /\ mode' = TRUE
  /\ touched' = Reach(touched \cup Covered(addr, len))

\* The flash as GDB's requests made it: what is held back lies over the device
Seen(flash, b) ==
  [a \in Addr |-> IF is_dirty(b) /\ a \in b.low..(b.high - 1) /\ b.data[a - b.base] # Erased
                 THEN b.data[a - b.base] ELSE flash[a]]
Image == Seen(dev.flash, mgr.buffer)

\* GDB writes only what it has erased
vFlashWrite(dest, n, v, f) ==
  /\ \A a \in dest..(dest + n - 1) : a \in Addr /\ Image[a] = Erased
  /\ Finish(write(Enter(f), dest, n, v))
  /\ mode' = TRUE
  /\ touched' = Reach(touched \cup dest..(dest + n - 1))

\* vFlashDone: the manager is dropped and flash mode left, whatever failed
vFlashDone(f) ==
  /\ mode
  /\ LET s == complete(Enter(f))
     IN  /\ dev' = Idle(s.dev)
         /\ StaysCalm(s)
         /\ reply' = s.ok
         /\ touched' = IF s.ok THEN {} ELSE touched
  /\ mgr' = NewManager /\ mode' = FALSE

\* monitor mass_erase: the manager outlives flash mode
MassErase(f) ==
  /\ LET s == mass_erase_all(Enter(f))
     IN  Finish([s EXCEPT !.dev = Idle(@)])
  /\ mode' = FALSE
  /\ touched' = Addr

\* flash_cleanup() when the target is detached; it may be attached again
flash_cleanup ==
  /\ MayDetach
  /\ dev' = IF mode THEN Idle(dev) ELSE dev
  /\ mgr' = NewManager /\ mode' = FALSE
  /\ reply' = FALSE
  /\ calm' = (calm /\ ~mode)
  /\ UNCHANGED touched

Next ==
  \/ \E f \in 0..MaxCalls :
       \/ \E a \in Addr :
            \/ \E n \in EraseSizes : vFlashErase(a, n, f)
            \/ \E n \in WriteSizes, v \in Byte : vFlashWrite(a, n, v, f)
       \/ vFlashDone(f)
       \/ MassErase(f)
  \/ flash_cleanup

Spec == Init /\ [][Next]_vars

-----------------------------------------------------------------------------
(* The requests keep the promise of FlashSpec: a load ends, at vFlashDone, *)
(* with every byte in the flash where GDB put it, and a request that fails *)
(* spoils nothing but the cells of the load.                               *)
Promise == INSTANCE FlashSpec WITH image <- Image, device <- dev.flash, ok <- reply
FlashPromise == Promise!Spec

(* manager.rs:71 "Sets the driver state to the desired operation": an      *)
(* erase or write callback never runs on a controller that is prepared for *)
(* something else, or was reset since it was prepared, until a callback    *)
(* fails.                                                                  *)
CallbacksArePrepared == calm => ~dev.unprepared
=============================================================================
