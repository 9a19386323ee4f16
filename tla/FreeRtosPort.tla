----------------------------- MODULE FreeRtosPort -----------------------------
(***************************************************************************)
(* What the target does when FreeRTOS itself switches tasks: the frame     *)
(* that each port keeps on the stack of a task that does not run, from the *)
(* lowest address to the highest.  It is written from the layouts the      *)
(* port's documentation gives, not from the probe's code, and is what the  *)
(* probe's handlers must agree with.                                       *)
(***************************************************************************)
EXTENDS ContextFrames

Port == {"m3", "m4f", "m33", "rv32_std", "ch32", "ch32_fpu"}

\* Entries of a frame that are not registers
FPU  == 100
EXC  == 101
NONE == 102

Times(n, entry) == [i \in 1..n |-> entry]
From(first, last) == [i \in 1..(last - first + 1) |-> first + i - 1]

Hardware == <<0, 1, 2, 3, 12, 14, 15, 16>>

Frame(port, fpu) ==
  LET when(entries) == IF fpu THEN entries ELSE <<>> IN
  CASE port = "m3"  -> From(4, 11) \o Hardware
    [] port = "m4f" -> From(4, 11) \o <<EXC>> \o when(Times(16, FPU)) \o Hardware \o when(Times(18, FPU))
    [] port = "m33" -> <<NONE, EXC>> \o From(4, 11) \o Hardware
    [] port = "rv32_std" -> <<32, 1>> \o From(5, 31) \o <<NONE, 33>>
    [] port \in {"ch32", "ch32_fpu"} -> <<32, 33>> \o when(Times(32, FPU)) \o <<1>> \o From(5, 31)

PortReg(port) == IF port \in {"m3", "m4f", "m33"} THEN ArmReg ELSE RiscvReg
PortSP(port)  == IF port \in {"m3", "m4f", "m33"} THEN 13 ELSE 2

\* The word an entry of the frame of a task with the given registers holds
Entry(registers, fpu, entry) ==
  CASE entry = FPU  -> ZERO
    [] entry = EXC  -> IF fpu THEN EXC_RETURN_FPU ELSE EXC_RETURN
    [] entry = NONE -> ZERO
    [] OTHER        -> registers[entry]

FrameWords(port, registers, fpu) ==
  LET frame == Frame(port, fpu) IN [i \in DOMAIN frame |-> Entry(registers, fpu, frame[i])]

PortTop(port, registers, fpu) == Move(registers[PortSP(port)], -Len(Frame(port, fpu)))

\* Does the frame at the given address hold the FPU registers?
HasFpu(port, mem, address) ==
  CASE port = "m4f"      -> Word(mem, Move(address, 8)) = EXC_RETURN_FPU
    [] port = "ch32_fpu" -> DirtyFS(Word(mem, Move(address, 1)))
    [] OTHER             -> FALSE

\* The registers that the port restores from the frame at the given address.
\* The registers that no frame holds are those of the core.
PortRestore(port, mem, address, core) ==
  LET frame == Frame(port, HasFpu(port, mem, address))
      at(r) == {i \in DOMAIN frame : frame[i] = r}
  IN  [r \in PortReg(port) |->
         IF r = PortSP(port) THEN Move(address, Len(frame))
         ELSE IF at(r) = {} THEN core[r]
         ELSE Word(mem, Move(address, (CHOOSE i \in at(r) : TRUE) - 1))]
=============================================================================
