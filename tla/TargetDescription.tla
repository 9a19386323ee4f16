-------------------------- MODULE TargetDescription ---------------------------
(***************************************************************************)
(* The documents GDB reads of a target (target_xml.rs, memory_map_xml.rs), *)
(* the windows of them that qXfer sends, and the registers behind the      *)
(* numbers of the description: GDB numbers the registers it is told of and *)
(* asks for one by its number ("p"), while riscv/hart.rs has numbers of    *)
(* its own for those of a RISC-V hart.                                     *)
(***************************************************************************)
EXTENDS Integers, Sequences, SequencesExt

\* The instruction sets of harts, and the two ARM flavours the description
\* tells apart
HartIsa == {"arm", "arm_fpu", "Rv32e", "Rv32i", "Rv32iSingleFpu"}
RiscvIsa == {"Rv32e", "Rv32i", "Rv32iSingleFpu"}

\* A register of the description, with the number it is given there, if any
Unnumbered == -1
reg(name, number) == [name |-> name, regnum |-> number]

gpr_count(isa) == IF isa = "Rv32e" THEN 16 ELSE 32

RV_CSR_GDB_OFFSET     == 128
RV_FPU_GDB_OFFSET     == 33
RV_FPU_GDB_CSR_OFFSET == 66

\* The CSRs of RISCV_CSRS by their CSR numbers: mstatus, misa, mie, mtvec,
\* mscratch, mepc, mcause, mtval, mip
RISCV_CSRS == <<768, 769, 772, 773, 832, 833, 834, 835, 836>>

\* Prefix, count and number of the first one
RISCV_FPU_GROUPS == <<<<"ft", 8, 33>>, <<"fs", 2, 41>>, <<"fa", 8, 43>>, <<"fs", 10, 51>>>>

fpu_group(g) ==
  LET start_idx == IF g[1] = "fs" /\ g[2] = 10 THEN 2 ELSE 0
  IN  [i \in 1..g[2] |-> reg(<<g[1], start_idx + i - 1>>, g[3] + i - 1)]

\* The features of for_each_riscv_features(), each the sequence of its registers
riscv_cpu(isa) ==
  [i \in 1..gpr_count(isa) |-> reg(<<"x", i - 1>>, IF i = 1 THEN 0 ELSE Unnumbered)]
    \o <<reg(<<"pc", 0>>, Unnumbered)>>
riscv_fpu ==
  FlattenSeq([i \in DOMAIN RISCV_FPU_GROUPS |-> fpu_group(RISCV_FPU_GROUPS[i])])
    \o [i \in 1..4 |-> reg(<<"ft", 7 + i>>, 60 + i)]
    \o [i \in 1..3 |-> reg(<<"csr", i>>, 65 + i)]
riscv_csrOffByOne ==                                             \* a mutation
  [i \in DOMAIN RISCV_CSRS |-> reg(<<"csr", RISCV_CSRS[i]>>, RV_CSR_GDB_OFFSET + RISCV_CSRS[i] + 1)]
riscv_csr ==
  [i \in DOMAIN RISCV_CSRS |-> reg(<<"csr", RISCV_CSRS[i]>>, RV_CSR_GDB_OFFSET + RISCV_CSRS[i])]

\* Those of for_each_cortexm_features(); xPSR alone is numbered
cortexm_profile ==
  [i \in 1..16 |-> reg(<<"r", i - 1>>, Unnumbered)] \o <<reg(<<"xpsr", 0>>, 25)>>
cortexm_system == [i \in 1..3 |-> reg(<<"system", i>>, Unnumbered)]
cortexm_vfp    == [i \in 1..17 |-> reg(<<"vfp", i>>, Unnumbered)]

features(isa) ==
  CASE isa = "arm"     -> <<cortexm_profile, cortexm_system>>
    [] isa = "arm_fpu" -> <<cortexm_profile, cortexm_system, cortexm_vfp>>
    [] isa = "Rv32iSingleFpu" -> <<riscv_cpu(isa), riscv_fpu, riscv_csr>>
    [] OTHER                  -> <<riscv_cpu(isa), riscv_csr>>

registers == [isa \in HartIsa |-> FlattenSeq(features(isa))]

\* How GDB numbers what it reads: a register without a number follows the last
Numbers ==
  [isa \in HartIsa |->
    LET regs == registers[isa]
        number[i \in 0..Len(regs)] ==
          IF i = 0 THEN -1
          ELSE IF regs[i].regnum = Unnumbered THEN number[i - 1] + 1 ELSE regs[i].regnum
    IN  [i \in DOMAIN regs |-> number[i]]]

\* The floating point register that an ABI name means
AbiFpr(name) ==
  CASE name[1] = "ft" -> IF name[2] < 8 THEN name[2] ELSE name[2] + 20
    [] name[1] = "fs" -> IF name[2] < 2 THEN name[2] + 8 ELSE name[2] + 16
    [] name[1] = "fa" -> name[2] + 10

Meant(name) == IF name[1] \in {"ft", "fs", "fa"} THEN <<"f", AbiFpr(name)>> ELSE name

-----------------------------------------------------------------------------
\* RiscvHart::reg_read(), reg_write(): the register behind a number
hart_register(isa, n) ==
  LET fpu == isa = "Rv32iSingleFpu" IN
  CASE n < gpr_count(isa)                                -> <<"x", n>>
    [] n = gpr_count(isa)                                -> <<"pc", 0>>
    [] fpu /\ n \in RV_FPU_GDB_OFFSET..64                -> <<"f", n - RV_FPU_GDB_OFFSET>>
    [] fpu /\ n \in RV_FPU_GDB_CSR_OFFSET..68            -> <<"csr", n - RV_FPU_GDB_CSR_OFFSET + 1>>
    [] n >= RV_CSR_GDB_OFFSET                            -> <<"csr", n - RV_CSR_GDB_OFFSET>>
    [] OTHER                                             -> <<"unsupported", 0>>

\* regs_read(): what the words of a "g" reply are
hart_registers(isa) ==
  [i \in 1..gpr_count(isa) |-> <<"x", i - 1>>] \o <<<<"pc", 0>>>>

-----------------------------------------------------------------------------
\* XmlSink: a document is written piece by piece, by a generator that runs for
\* every request anew; a sink keeps the part of it between start and end.
\* A character is its piece and its place in it.
Piece(i, width) == [k \in 1..width |-> <<i, k>>]

Stream(start, end) == [start |-> start, end |-> end, offset |-> 0, sent |-> <<>>]

writeFromPieceStart(s, piece) ==                                 \* a mutation
  [s EXCEPT !.offset = @ + Len(piece),
            !.sent = IF s.offset + Len(piece) > s.start /\ s.offset < s.end
                     THEN @ \o SubSeq(piece, 1, IF s.end < s.offset + Len(piece) THEN s.end - s.offset ELSE Len(piece))
                     ELSE @]
write(s, piece) ==
  LET chunk_end == s.offset + Len(piece)
      s_start   == IF s.start > s.offset THEN s.start - s.offset ELSE 0
      s_end     == IF s.end < chunk_end THEN s.end - s.offset ELSE Len(piece)
  IN  [s EXCEPT !.offset = chunk_end,
                !.sent = IF chunk_end > s.start /\ s.offset < s.end
                         THEN @ \o SubSeq(piece, s_start + 1, s_end) ELSE @]

\* target.xml: the head, then every feature's opening and its registers, and the
\* tail; the memory map: a piece for every RAM and flash region between two.
\* The widths of the pieces are small and differ.
Pieces(object, isa) ==
  LET n == IF object = "features"
           THEN 2 + Len(features(isa)) + Len(registers[isa])
           ELSE 2 + IF isa \in RiscvIsa THEN 2 ELSE 3
  IN  [i \in 1..n |-> Piece(i, 1 + (i % 3))]

Documents == [object \in {"features", "memory-map"}, isa \in HartIsa |-> Pieces(object, isa)]
XmlLen    == [object \in {"features", "memory-map"}, isa \in HartIsa |->
               FoldLeft(LAMBDA n, piece : n + Len(piece), 0, Documents[object, isa])]
XmlChunk(object, isa, start, length) ==
  FoldLeft(write, Stream(start, start + length), Documents[object, isa]).sent
=============================================================================
