---------------------------- MODULE SwBreakpoints ----------------------------
(***************************************************************************)
(* The breakpoints the probe plants in the target's code                   *)
(* (sw_breakpoints.rs, reached from Z and z of commands/breakpoints.rs): in *)
(* RAM, a word at a time, on targets with hardware breakpoints; in flash,  *)
(* a page at a time, on targets without.  A cell of memory is a halfword,  *)
(* the size of a breakpoint opcode; an address is the number of a cell.    *)
(***************************************************************************)
EXTENDS Naturals, FiniteSets

CONSTANTS
  Addr,            \* the cells of the code
  WORD,            \* cells of a word (2 in the code)
  PAGE,            \* cells of a flash page
  MAX_BREAKPOINTS,
  Opcode,          \* what a cell can hold
  BKPT,            \* the breakpoint opcode
  Blank,           \* an erased cell of the flash
  Mishaps          \* what may go wrong, a subset of Mishap

\* shared: two RAM breakpoints are planted in one word
\* wire: a write fails, or the read that checks a planted flash breakpoint
\* load: code that holds a breakpoint is overwritten
\* detach: the target is left with breakpoints planted
Mishap == {"shared", "wire", "load", "detach"}

\* The cells read and written together with cell a
Group(a, n) == {b \in Addr : b \div n = a \div n}
Word(a) == Group(a, WORD)
Page(a) == Group(a, PAGE)

ASSUME BreakpointAssumption ==
  /\ Addr \subseteq Nat /\ Addr # {} /\ WORD \in Nat \ {0} /\ PAGE \in Nat \ {0}
  /\ MAX_BREAKPOINTS \in Nat
  /\ {BKPT, Blank} \subseteq Opcode
  /\ Mishaps \subseteq Mishap

VARIABLES
  hw,       \* bmp_has_hw_breakpoint() of the target
  mem,      \* its code
  program,  \* the code without the breakpoints (a history variable)
  lsw,      \* the RAM breakpoints: address -> the word saved
  lmw,      \* the flash breakpoints: address -> the opcode saved
  claimed,  \* the breakpoints GDB was told are planted
  last,     \* the last request: which, where and whether it was answered OK
  mishaps   \* the kinds of mishap seen so far (a history variable)

vars == <<hw, mem, program, lsw, lmw, claimed, last, mishaps>>

NoBreakpoint == [a \in {} |-> BKPT]
Otherwise == [request |-> "other", addr |-> CHOOSE a \in Addr : TRUE, ok |-> TRUE]

TypeOK ==
  /\ hw \in BOOLEAN
  /\ mem \in [Addr -> Opcode] /\ program \in [Addr -> Opcode]
  /\ DOMAIN lsw \subseteq Addr /\ DOMAIN lmw \subseteq Addr
  /\ \A a \in DOMAIN lsw : lsw[a] \in [Word(a) -> Opcode]
  /\ \A a \in DOMAIN lmw : lmw[a] \in Opcode
  /\ Cardinality(DOMAIN lsw) <= MAX_BREAKPOINTS
  /\ Cardinality(DOMAIN lmw) <= MAX_BREAKPOINTS
  /\ claimed \subseteq Addr
  /\ last \in [request : {"Z", "z", "other"}, addr : Addr, ok : BOOLEAN]
  /\ mishaps \subseteq Mishaps

Init ==
  /\ hw \in BOOLEAN
  /\ mem \in [Addr -> Opcode \ {Blank}] /\ program = mem
  /\ lsw = NoBreakpoint /\ lmw = NoBreakpoint
  /\ claimed = {} /\ last = Otherwise
  /\ mishaps = {}

-----------------------------------------------------------------------------
With(list, a, saved) == [b \in DOMAIN list \cup {a} |-> IF b = a THEN saved ELSE list[b]]
Without(list, a) == [b \in DOMAIN list \ {a} |-> list[b]]

Full(list) == Cardinality(DOMAIN list) = MAX_BREAKPOINTS

\* A word, or a page, once new is written over it
Written(cells, new) == [b \in Addr |-> IF b \in cells THEN new[b] ELSE mem[b]]

Patched(a) == [mem EXCEPT ![a] = BKPT]

\* What is left of a write that fails: all, nothing or, in flash, an erased page
Spoilt(cells, new) ==
  {mem, Written(cells, new)} \cup
  IF hw THEN {} ELSE {Written(cells, [b \in cells |-> Blank])}

Seen(kinds) == kinds \subseteq Mishaps /\ mishaps' = mishaps \cup kinds

\* The write of new over the cells, and whether it is answered true
Write(cells, new, ok, others) ==
  IF ok THEN mem' = Written(cells, new) /\ Seen(others)
        ELSE mem' \in Spoilt(cells, new) /\ Seen(others \cup {"wire"})

Reply(request, a, ok) ==
  /\ last' = [request |-> request, addr |-> a, ok |-> ok]
  /\ claimed' = IF ~ok THEN claimed
                ELSE IF request = "Z" THEN claimed \cup {a} ELSE claimed \ {a}

-----------------------------------------------------------------------------
(* RAM breakpoints: the whole word is saved and written.                   *)

\* A second breakpoint of the word saves the first one's opcode.
Sharing(a) == IF DOMAIN lsw \cap Word(a) = {} THEN {} ELSE {"shared"}

AddSwPresent(a) ==
  /\ a \in DOMAIN lsw
  /\ Reply("Z", a, TRUE)
  /\ UNCHANGED <<mem, lsw, mishaps>>

\* The word cannot be read, or the patch cannot be written.
AddSwFails(a) ==
  /\ a \notin DOMAIN lsw
  /\ \/ UNCHANGED <<mem, mishaps>>
     \/ Write(Word(a), Patched(a), FALSE, {})
  /\ Reply("Z", a, FALSE)
  /\ UNCHANGED lsw

AddSwPlants(a) ==
  /\ a \notin DOMAIN lsw /\ ~Full(lsw)
  /\ Write(Word(a), Patched(a), TRUE, Sharing(a))
  /\ lsw' = With(lsw, a, [b \in Word(a) |-> mem[b]])
  /\ Reply("Z", a, TRUE)

\* The patch is undone, if that can be written.
AddSwFullKeepsPatch(a) ==                                      \* a mutation
  /\ a \notin DOMAIN lsw /\ Full(lsw)
  /\ mem' = Patched(a)
  /\ Reply("Z", a, FALSE)
  /\ UNCHANGED <<lsw, mishaps>>
AddSwFull(a) ==
  /\ a \notin DOMAIN lsw /\ Full(lsw)
  /\ \/ UNCHANGED <<mem, mishaps>>
     \/ mem' = Patched(a) /\ Seen({"wire"})
  /\ Reply("Z", a, FALSE)
  /\ UNCHANGED lsw

add_sw_breakpoint(a) ==
  /\ AddSwPresent(a) \/ AddSwFails(a) \/ AddSwPlants(a) \/ AddSwFull(a)
  /\ UNCHANGED <<program, lmw>>

\* A word that cannot be restored is forgotten all the same.
remove_sw_breakpoint_late(a) ==                                \* a mutation
  /\ IF a \in DOMAIN lsw
     THEN lsw' = Without(lsw, a) /\ UNCHANGED <<mem, mishaps>>
     ELSE UNCHANGED <<mem, lsw, mishaps>>
  /\ Reply("z", a, TRUE)
  /\ UNCHANGED <<program, lmw>>
remove_sw_breakpoint(a) ==
  /\ IF a \in DOMAIN lsw
     THEN /\ \E ok \in BOOLEAN : Write(Word(a), lsw[a], ok, {})
          /\ lsw' = Without(lsw, a)
     ELSE UNCHANGED <<mem, lsw, mishaps>>
  /\ Reply("z", a, TRUE)
  /\ UNCHANGED <<program, lmw>>

-----------------------------------------------------------------------------
(* Flash breakpoints: the page is read, patched and overwritten.           *)

\* The entry is trusted if the opcode is still there; read: it can be read.
StillPlanted(a) == a \in DOMAIN lmw /\ mem[a] = BKPT

AddMwTrusts(a) ==                                              \* a mutation
  /\ a \in DOMAIN lmw
  /\ Reply("Z", a, TRUE)
  /\ UNCHANGED <<mem, lmw, mishaps>>
AddMwPresent(a) ==
  /\ StillPlanted(a)
  /\ Reply("Z", a, TRUE)
  /\ UNCHANGED <<mem, lmw, mishaps>>

\* Otherwise the entry is dropped and the page patched again.
Unread(a) == IF StillPlanted(a) THEN {"wire"} ELSE {}

AddMwFails(a) ==
  /\ \/ UNCHANGED mem /\ Seen(Unread(a))
     \/ Write(Page(a), Patched(a), FALSE, Unread(a))
  /\ lmw' = Without(lmw, a)
  /\ Reply("Z", a, FALSE)

AddMwPlants(a) ==
  /\ ~Full(Without(lmw, a))
  /\ Write(Page(a), Patched(a), TRUE, Unread(a))
  /\ lmw' = With(lmw, a, mem[a])
  /\ Reply("Z", a, TRUE)

AddMwFull(a) ==
  /\ Full(Without(lmw, a))
  /\ \/ UNCHANGED mem /\ Seen(Unread(a))
     \/ mem' \in {Patched(a)} \cup Spoilt(Page(a), mem) /\ Seen(Unread(a) \cup {"wire"})
  /\ lmw' = Without(lmw, a)
  /\ Reply("Z", a, FALSE)

add_mw_breakpoint(a) ==
  /\ AddMwPresent(a) \/ AddMwFails(a) \/ AddMwPlants(a) \/ AddMwFull(a)
  /\ UNCHANGED <<program, lsw>>

RemoveMwAbsent(a) ==
  /\ a \notin DOMAIN lmw
  /\ Reply("z", a, TRUE)
  /\ UNCHANGED <<mem, lmw, mishaps>>

\* The page cannot be read: the breakpoint stays.
RemoveMwUnread(a) ==
  /\ a \in DOMAIN lmw
  /\ Reply("z", a, FALSE)
  /\ UNCHANGED <<mem, lmw, mishaps>>

RemoveMwRestores(a) ==
  /\ a \in DOMAIN lmw
  /\ \E ok \in BOOLEAN : Write(Page(a), [mem EXCEPT ![a] = lmw[a]], ok, {})
  /\ lmw' = Without(lmw, a)
  /\ Reply("z", a, TRUE)

remove_mw_breakpoint(a) ==
  /\ RemoveMwAbsent(a) \/ RemoveMwUnread(a) \/ RemoveMwRestores(a)
  /\ UNCHANGED <<program, lsw>>

-----------------------------------------------------------------------------
\* common_z() of a breakpoint; hardware breakpoints are not of this module
Z(a) == (IF hw THEN add_sw_breakpoint(a) ELSE add_mw_breakpoint(a)) /\ UNCHANGED hw
z(a) == (IF hw THEN remove_sw_breakpoint(a) ELSE remove_mw_breakpoint(a)) /\ UNCHANGED hw

\* GDB, or the program itself, writes code: X, a flash load, a bootloader.
\* Under a breakpoint it disturbs, in RAM, every cell of the word saved.
Load(a, op) ==
  /\ Seen(IF a \in DOMAIN lmw \/ DOMAIN lsw \cap Word(a) # {} THEN {"load"} ELSE {})
  /\ mem' = [mem EXCEPT ![a] = op] /\ program' = [program EXCEPT ![a] = op]
  /\ last' = Otherwise
  /\ UNCHANGED <<hw, lsw, lmw, claimed>>

\* disconnect_cleanup(); the same or another target is then attached
clear_all_breakpoints ==
  /\ Seen(IF DOMAIN lsw \cup DOMAIN lmw # {} THEN {"detach"} ELSE {})
  /\ lsw' = NoBreakpoint /\ lmw' = NoBreakpoint /\ claimed' = {}
  /\ hw' \in BOOLEAN
  /\ last' = Otherwise
  /\ UNCHANGED <<mem, program>>

Next ==
  \/ \E a \in Addr : Z(a) \/ z(a) \/ \E op \in Opcode \ {Blank} : Load(a, op)
  \/ clear_all_breakpoints

Spec == Init /\ [][Next]_vars

-----------------------------------------------------------------------------
\* The program with a breakpoint at every given cell
Overlay(cells) == [a \in Addr |-> IF a \in cells THEN BKPT ELSE program[a]]

(* The target's code is the program with exactly the breakpoints GDB was   *)
(* told of, whatever requests are refused, repeated or out of order, unless *)
(* a mishap came in between.                                               *)
NoStrayBreakpoint == mishaps = {} => mem = Overlay(claimed)

(* sw_breakpoints.rs:193 "Reporting success then claims a breakpoint that  *)
(* is not in the target's memory": a flash breakpoint answered with OK is  *)
(* there, even on code loaded anew and after failed writes.                *)
FlashInsertIsReal == ~hw /\ last.request = "Z" /\ last.ok => mem[last.addr] = BKPT

(* sw_breakpoints.rs:33 "an insertion fails with an error and the patch is *)
(* undone": a refused insertion leaves the code as it was unless a write   *)
(* failed.                                                                 *)
RefusalLeavesCode ==
  [][last'.request = "Z" /\ ~last'.ok /\ "wire" \notin mishaps' => mem' = mem]_vars

=============================================================================
