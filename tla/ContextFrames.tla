---------------------------- MODULE ContextFrames ----------------------------
(***************************************************************************)
(* The frames by which the probe swaps the context of a FreeRTOS task with *)
(* that of another (the switch handlers of freertos/): the registers of    *)
(* the core are pushed below the stack pointer of the task that is left,   *)
(* and those of the task that is entered are popped from its saved stack   *)
(* pointer, both in the layout of the FreeRTOS port.  Addresses count      *)
(* words: a pointer is <<stack, word>>, a memory maps every stack to its   *)
(* words.  Registers have the numbers GDB gives them: r0..r15 and xPSR (16)*)
(* of an ARM core, x1..x31, pc (32) and mstatus (33) of a RISC-V one.      *)
(***************************************************************************)
EXTENDS Integers, Sequences

CONSTANTS Stack, Depth   \* the stacks of the target and their size in words

ASSUME FrameAssumption == Depth \in Nat

ArmReg   == 0..16
RiscvReg == 1..33

\* What a handler works on: the registers it holds, its pointer, the target's
\* memory, and the stack pointer that the frame pushed last begins at
Context(registers, mem) ==
  [registers |-> registers, pointer |-> <<>>, mem |-> mem, sp |-> <<>>]

Move(p, words) == <<p[1], p[2] + words>>

Word(mem, p) == mem[p[1]][p[2]]

\* bmp_write_mem32() of a sequence of words
Store(mem, p, words) ==
  [mem EXCEPT ![p[1]] =
     [a \in DOMAIN @ |-> IF a - p[2] \in 0..(Len(words) - 1) THEN words[a - p[2] + 1] ELSE @[a]]]

Slice(registers, first, last) == [i \in 1..(last - first) |-> registers[first + i - 1]]

-----------------------------------------------------------------------------
\* freertos_cortexm_core: the pointer goes down before a push

write_ascending(c, word) ==
  LET p == Move(c.pointer, -1)
  IN  [c EXCEPT !.pointer = p, !.mem = Store(c.mem, p, <<word>>)]

push_ascending(c, first, last) ==
  LET p == Move(c.pointer, first - last)
  IN  [c EXCEPT !.pointer = p, !.mem = Store(c.mem, p, Slice(c.registers, first, last))]

pop_ascending(c, first, last) ==
  [c EXCEPT
     !.registers = [r \in DOMAIN @ |-> IF r \in first..(last - 1)
                                       THEN Word(c.mem, Move(c.pointer, r - first)) ELSE @[r]],
     !.pointer = Move(c.pointer, last - first)]

push_exception_frame(c) ==
  push_ascending(push_ascending(push_ascending(push_ascending(c, 16, 17), 14, 16), 12, 13), 0, 4)

pop_exception_frame(c) ==
  pop_ascending(pop_ascending(pop_ascending(pop_ascending(c, 0, 4), 12, 13), 14, 16), 16, 17)

\* EXC_RETURN: bit 4 is clear when the frame holds the FPU registers as well
EXC_RETURN == <<"EXC_RETURN", 0, 1>>
EXC_RETURN_FPU == <<"EXC_RETURN", 0, 0>>
ZERO == <<"ZERO", 0, 0>>

Lowered(c) == [c EXCEPT !.registers[13] = c.pointer, !.sp = c.pointer]
AtSp(c)    == [c EXCEPT !.pointer = c.registers[13]]

write_m3(c)  == Lowered(push_ascending(push_exception_frame(AtSp(c)), 4, 12))
write_m4f(c) == Lowered(push_ascending(write_ascending(push_exception_frame(AtSp(c)), EXC_RETURN), 4, 12))
write_m33(c) ==
  Lowered(write_ascending(write_ascending(push_ascending(push_exception_frame(AtSp(c)), 4, 12),
                                          EXC_RETURN), ZERO))

read_m3(c, address) ==
  Lowered(pop_exception_frame(pop_ascending([c EXCEPT !.pointer = address], 4, 12)))

read_m4f(c, address) ==
  LET d    == pop_ascending([c EXCEPT !.pointer = address], 4, 12)
      skip == IF Word(d.mem, d.pointer) = EXC_RETURN_FPU THEN 1 + 16 ELSE 1
  IN  Lowered(pop_exception_frame([d EXCEPT !.pointer = Move(@, skip)]))

read_m33OneWord(c, address) ==                                    \* a mutation
  Lowered(pop_exception_frame(pop_ascending([c EXCEPT !.pointer = Move(address, 1)], 4, 12)))
read_m33(c, address) ==
  Lowered(pop_exception_frame(pop_ascending([c EXCEPT !.pointer = Move(address, 2)], 4, 12)))

-----------------------------------------------------------------------------
\* rv32_gprs: the pointer goes up after a push

push32(c, word) == [c EXCEPT !.mem = Store(c.mem, c.pointer, <<word>>), !.pointer = Move(@, 1)]

push(c, first, last) ==
  [c EXCEPT !.mem = Store(c.mem, c.pointer, Slice(c.registers, first, last)),
            !.pointer = Move(@, last - first)]

\* pc, mstatus: registers of their own in rv32_gprs
pop32(c, register) == pop_ascending(c, register, register + 1)
skip32(c, words)   == [c EXCEPT !.pointer = Move(@, words)]
PC == 32
MSTATUS == 33

Raised(c) == [c EXCEPT !.registers[2] = c.pointer, !.sp = c.pointer]
Below(c, words) ==
  LET p == Move(c.registers[2], -words) IN [c EXCEPT !.pointer = p, !.sp = p]

write_rv32_std(c) ==
  LET d == push(push(push32(Below(c, 31), c.registers[PC]), 1, 2), 5, 32)
  IN  push32(push32(d, ZERO), c.registers[MSTATUS])

read_rv32_std(c, address) ==
  LET d == pop32(pop32([c EXCEPT !.pointer = address], PC), 1)
  IN  Raised(pop32(skip32(pop_ascending(d, 5, 32), 1), MSTATUS))

\* The third element of an mstatus word says whether its FS bits are "dirty"
CLEAN == 33
DIRTY == 34
DirtyFS(mstatus) == mstatus[3] = DIRTY
ClearFS(mstatus) == <<mstatus[1], mstatus[2], CLEAN>>

write_ch32(c) ==
  LET d == push32(push32(Below(c, 30), c.registers[PC]), ClearFS(c.registers[MSTATUS]))
  IN  push(push(d, 1, 2), 5, 32)

\* The FPU registers are skipped when the layout has them and mstatus.FS is dirty
read_ch32(c, address, layout) ==
  LET d    == pop32(pop32([c EXCEPT !.pointer = address], PC), MSTATUS)
      skip == IF layout = "CH32_FPU" /\ DirtyFS(d.registers[MSTATUS]) THEN 32 ELSE 0
  IN  Raised(pop_ascending(pop32(skip32(d, skip), 1), 5, 32))

-----------------------------------------------------------------------------
\* freertos_switch_handler

Handler == {"m3", "m4f", "m33", "rv32_std", "ch32"}

Reg(handler) == IF handler \in {"rv32_std", "ch32"} THEN RiscvReg ELSE ArmReg
SP(handler)  == IF handler \in {"rv32_std", "ch32"} THEN 2 ELSE 13

write_registers_to_stack(handler, c) ==
  CASE handler = "m3"       -> write_m3(c)
    [] handler = "m4f"      -> write_m4f(c)
    [] handler = "m33"      -> write_m33(c)
    [] handler = "rv32_std" -> write_rv32_std(c)
    [] handler = "ch32"     -> write_ch32(c)

read_registers_from_addr(handler, layout, c, address) ==
  CASE handler = "m3"       -> read_m3(c, address)
    [] handler = "m4f"      -> read_m4f(c, address)
    [] handler = "m33"      -> read_m33(c, address)
    [] handler = "rv32_std" -> read_rv32_std(c, address)
    [] handler = "ch32"     -> read_ch32(c, address, layout)

\* The words the frame of a handler takes
FrameSize(handler) ==
  CASE handler = "m3" -> 16 [] handler = "m4f" -> 17 [] handler = "m33" -> 18
    [] handler = "rv32_std" -> 31 [] handler = "ch32" -> 30
=============================================================================
