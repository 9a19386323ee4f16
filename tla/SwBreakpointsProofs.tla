------------------------ MODULE SwBreakpointsProofs -------------------------
(***************************************************************************)
(* For every layout of words and pages, every size of the table and every  *)
(* program: until a mishap the code is the program with exactly the        *)
(* claimed breakpoints in it, a flash breakpoint answered with OK is there *)
(* whatever went wrong before, and a refused insertion leaves no trace.    *)
(* NoStrayBreakpoint says nothing of what the tables saved: it is          *)
(* inductive only with Planted, by which every table entry holds the       *)
(* program's own opcodes and no two entries share a word.                  *)
(***************************************************************************)
EXTENDS SwBreakpoints, FiniteSetTheorems, TLAPS

FiniteTables == IsFiniteSet(DOMAIN lsw) /\ IsFiniteSet(DOMAIN lmw)

(* A target has breakpoints of one kind. *)
OneKind == IF hw THEN DOMAIN lmw = {} ELSE DOMAIN lsw = {}

(* What the tables saved is the program, one breakpoint to a word. *)
Planted ==
  mishaps = {} =>
    /\ claimed = DOMAIN lsw \cup DOMAIN lmw
    /\ mem = Overlay(claimed)
    /\ \A a \in DOMAIN lsw : /\ Word(a) \cap DOMAIN lsw = {a}
                             /\ \A b \in Word(a) : lsw[a][b] = program[b]
    /\ \A a \in DOMAIN lmw : lmw[a] = program[a]

Typed == TypeOK /\ FiniteTables /\ OneKind

IInv == Typed /\ Planted /\ FlashInsertIsReal

-----------------------------------------------------------------------------
(* A group of cells holds the cell it is named after. *)
LEMMA GroupFacts ==
  ASSUME NEW a \in Addr
  PROVE  /\ a \in Word(a) /\ Word(a) \subseteq Addr
         /\ a \in Page(a) /\ Page(a) \subseteq Addr
         /\ \A b \in Addr : a \in Word(b) => b \in Word(a)
BY DEF Word, Page, Group

(* Writing opcodes over some cells leaves opcodes in all. *)
LEMMA WrittenType ==
  ASSUME mem \in [Addr -> Opcode], NEW cells, NEW new, \A b \in cells : new[b] \in Opcode
  PROVE  Written(cells, new) \in [Addr -> Opcode]
BY DEF Written

(* A write leaves opcodes in all cells and records no unknown mishap. *)
LEMMA WriteType ==
  ASSUME mem \in [Addr -> Opcode], mishaps \subseteq Mishaps, NEW cells, NEW new,
         \A b \in cells : new[b] \in Opcode, NEW ok \in BOOLEAN, NEW others,
         Write(cells, new, ok, others)
  PROVE  /\ mem' \in [Addr -> Opcode]
         /\ mishaps' \subseteq Mishaps
         /\ ~ok => "wire" \in mishaps'
         /\ others \subseteq mishaps'
<1>1. Written(cells, new) \in [Addr -> Opcode]
  BY WrittenType
<1>2. Written(cells, [b \in cells |-> Blank]) \in [Addr -> Opcode]
  BY WrittenType, BreakpointAssumption DEF BreakpointAssumption
<1> QED BY <1>1, <1>2 DEF Write, Spoilt, Seen

(* The tables stay finite and within their size. *)
LEMMA WithFits ==
  ASSUME NEW list, IsFiniteSet(DOMAIN list), Cardinality(DOMAIN list) <= MAX_BREAKPOINTS,
         ~Full(list), NEW a, NEW saved
  PROVE  /\ IsFiniteSet(DOMAIN With(list, a, saved))
         /\ Cardinality(DOMAIN With(list, a, saved)) <= MAX_BREAKPOINTS
<1>1. DOMAIN With(list, a, saved) = DOMAIN list \cup {a}
  BY DEF With
<1>2. Cardinality(DOMAIN list) \in Nat
  BY FS_CardinalityType
<1>3. /\ IsFiniteSet(DOMAIN list \cup {a})
      /\ Cardinality(DOMAIN list \cup {a}) =
           IF a \in DOMAIN list THEN Cardinality(DOMAIN list) ELSE Cardinality(DOMAIN list) + 1
  BY FS_AddElement
<1>4. Cardinality(DOMAIN list) # MAX_BREAKPOINTS
  BY DEF Full
<1> QED BY <1>1, <1>2, <1>3, <1>4, BreakpointAssumption DEF BreakpointAssumption

LEMMA WithoutFits ==
  ASSUME NEW list, IsFiniteSet(DOMAIN list), Cardinality(DOMAIN list) <= MAX_BREAKPOINTS,
         NEW a
  PROVE  /\ IsFiniteSet(DOMAIN Without(list, a))
         /\ Cardinality(DOMAIN Without(list, a)) <= MAX_BREAKPOINTS
<1>1. DOMAIN Without(list, a) = DOMAIN list \ {a}
  BY DEF Without
<1>2. Cardinality(DOMAIN list) \in Nat
  BY FS_CardinalityType
<1>3. /\ IsFiniteSet(DOMAIN list \ {a})
      /\ Cardinality(DOMAIN list \ {a}) =
           IF a \in DOMAIN list THEN Cardinality(DOMAIN list) - 1 ELSE Cardinality(DOMAIN list)
  BY FS_RemoveElement
<1> QED BY <1>1, <1>2, <1>3, BreakpointAssumption DEF BreakpointAssumption

(* A reply keeps its type. *)
LEMMA ReplyType ==
  ASSUME claimed \subseteq Addr, NEW request \in {"Z", "z"}, NEW a \in Addr,
         NEW ok \in BOOLEAN, Reply(request, a, ok)
  PROVE  /\ claimed' \subseteq Addr
         /\ last' \in [request : {"Z", "z", "other"}, addr : Addr, ok : BOOLEAN]
BY DEF Reply

LEMMA OtherwiseType == Otherwise \in [request : {"Z", "z", "other"}, addr : Addr, ok : BOOLEAN]
BY BreakpointAssumption DEF Otherwise, BreakpointAssumption

-----------------------------------------------------------------------------
LEMMA InitIInv == Init => IInv
<1> SUFFICES ASSUME Init PROVE IInv
  OBVIOUS
<1>1. DOMAIN lsw = {} /\ DOMAIN lmw = {}
  BY DEF Init, NoBreakpoint
<1>2. TypeOK
  BY <1>1, OtherwiseType, FS_EmptySet, BreakpointAssumption DEF Init, TypeOK, BreakpointAssumption
<1>3. FiniteTables /\ OneKind
  BY <1>1, FS_EmptySet DEF FiniteTables, OneKind
<1>4. Planted
  BY <1>1, <1>2 DEF Planted, Overlay, Init, TypeOK
<1>5. FlashInsertIsReal
  BY DEF Init, Otherwise, FlashInsertIsReal
<1> QED BY <1>2, <1>3, <1>4, <1>5 DEF IInv, Typed

-----------------------------------------------------------------------------
(* Types: an insertion. *)
LEMMA AddSwTyped ==
  ASSUME Typed, hw, UNCHANGED hw, NEW a \in Addr, add_sw_breakpoint(a)
  PROVE  Typed'
<1> USE DEF Typed, TypeOK, FiniteTables, OneKind
<1>1. Word(a) \subseteq Addr /\ \A b \in Word(a) : mem[b] \in Opcode /\ Patched(a)[b] \in Opcode
  BY GroupFacts, BreakpointAssumption DEF Patched, BreakpointAssumption
<1>2. UNCHANGED <<program, lmw>>
  BY DEF add_sw_breakpoint
<1>3. CASE AddSwPresent(a)
  BY <1>2, <1>3, ReplyType DEF AddSwPresent
<1>4. CASE AddSwFails(a)
  <2>1. mem' \in [Addr -> Opcode] /\ mishaps' \subseteq Mishaps
    BY <1>1, <1>4, WriteType DEF AddSwFails
  <2> QED BY <1>2, <1>4, <2>1, ReplyType DEF AddSwFails
<1>5. CASE AddSwPlants(a)
  <2>1. mem' \in [Addr -> Opcode] /\ mishaps' \subseteq Mishaps
    BY <1>1, <1>5, WriteType DEF AddSwPlants
  <2>2. lsw' = With(lsw, a, [b \in Word(a) |-> mem[b]])
    BY <1>5 DEF AddSwPlants
  <2>3. IsFiniteSet(DOMAIN lsw') /\ Cardinality(DOMAIN lsw') <= MAX_BREAKPOINTS
    BY <1>5, <2>2, WithFits DEF AddSwPlants
  <2>4. DOMAIN lsw' \subseteq Addr /\ \A c \in DOMAIN lsw' : lsw'[c] \in [Word(c) -> Opcode]
    BY <1>1, <2>2 DEF With
  <2> QED BY <1>2, <1>5, <2>1, <2>3, <2>4, ReplyType DEF AddSwPlants
<1>6. CASE AddSwFull(a)
  <2>1. mem' \in [Addr -> Opcode] /\ mishaps' \subseteq Mishaps
    BY <1>6, BreakpointAssumption DEF AddSwFull, Patched, Seen, BreakpointAssumption
  <2> QED BY <1>2, <1>6, <2>1, ReplyType DEF AddSwFull
<1> QED BY <1>3, <1>4, <1>5, <1>6 DEF add_sw_breakpoint

LEMMA AddMwTyped ==
  ASSUME Typed, ~hw, UNCHANGED hw, NEW a \in Addr, add_mw_breakpoint(a)
  PROVE  Typed'
<1> USE DEF Typed, TypeOK, FiniteTables, OneKind
<1>1. Page(a) \subseteq Addr /\ \A b \in Page(a) : mem[b] \in Opcode /\ Patched(a)[b] \in Opcode
  BY GroupFacts, BreakpointAssumption DEF Patched, BreakpointAssumption
<1>2. UNCHANGED <<program, lsw>>
  BY DEF add_mw_breakpoint
<1>3. /\ IsFiniteSet(DOMAIN Without(lmw, a))
      /\ Cardinality(DOMAIN Without(lmw, a)) <= MAX_BREAKPOINTS
      /\ DOMAIN Without(lmw, a) \subseteq Addr
      /\ \A c \in DOMAIN Without(lmw, a) : Without(lmw, a)[c] \in Opcode
  <2>1. IsFiniteSet(DOMAIN Without(lmw, a)) /\ Cardinality(DOMAIN Without(lmw, a)) <= MAX_BREAKPOINTS
    BY WithoutFits
  <2> QED BY <2>1 DEF Without
<1>4. CASE AddMwPresent(a)
  BY <1>2, <1>4, ReplyType DEF AddMwPresent
<1>5. CASE AddMwFails(a)
  <2>1. mem' \in [Addr -> Opcode] /\ mishaps' \subseteq Mishaps
    BY <1>1, <1>5, WriteType DEF AddMwFails, Seen
  <2> QED BY <1>2, <1>3, <1>5, <2>1, ReplyType DEF AddMwFails
<1>6. CASE AddMwPlants(a)
  <2>1. mem' \in [Addr -> Opcode] /\ mishaps' \subseteq Mishaps
    BY <1>1, <1>6, WriteType DEF AddMwPlants
  <2>2. lmw' = With(lmw, a, mem[a])
    BY <1>6 DEF AddMwPlants
  <2>3. lmw' = With(Without(lmw, a), a, mem[a])
    BY <2>2 DEF With, Without
  <2>4. IsFiniteSet(DOMAIN lmw') /\ Cardinality(DOMAIN lmw') <= MAX_BREAKPOINTS
    BY <1>3, <1>6, <2>3, WithFits DEF AddMwPlants
  <2>5. DOMAIN lmw' \subseteq Addr /\ \A c \in DOMAIN lmw' : lmw'[c] \in Opcode
    BY <2>2 DEF With
  <2> QED BY <1>2, <1>6, <2>1, <2>4, <2>5, ReplyType DEF AddMwPlants
<1>7. CASE AddMwFull(a)
  <2>1. Written(Page(a), mem) \in [Addr -> Opcode] /\ Patched(a) \in [Addr -> Opcode]
        /\ Written(Page(a), [b \in Page(a) |-> Blank]) \in [Addr -> Opcode]
    BY <1>1, WrittenType, BreakpointAssumption DEF Patched, BreakpointAssumption
  <2>2. mem' \in [Addr -> Opcode] /\ mishaps' \subseteq Mishaps
    BY <1>7, <2>1 DEF AddMwFull, Spoilt, Seen
  <2> QED BY <1>2, <1>3, <1>7, <2>2, ReplyType DEF AddMwFull
<1> QED BY <1>4, <1>5, <1>6, <1>7 DEF add_mw_breakpoint

(* Types: a removal. *)
LEMMA RemoveTyped ==
  ASSUME Typed, NEW a \in Addr, z(a)
  PROVE  Typed'
<1> USE DEF Typed, TypeOK, FiniteTables, OneKind
<1>1. CASE hw
  <2>1. remove_sw_breakpoint(a) /\ UNCHANGED <<hw, program, lmw>> /\ Reply("z", a, TRUE)
    BY <1>1 DEF z, remove_sw_breakpoint
  <2>2. CASE a \notin DOMAIN lsw
    BY <2>1, <2>2, ReplyType DEF remove_sw_breakpoint
  <2>3. CASE a \in DOMAIN lsw
    <3>0. PICK ok \in BOOLEAN : Write(Word(a), lsw[a], ok, {})
      BY <2>1, <2>3 DEF remove_sw_breakpoint
    <3> HIDE DEF Typed, TypeOK, FiniteTables, OneKind
    <3>5. /\ mem \in [Addr -> Opcode] /\ mishaps \subseteq Mishaps
          /\ \A b \in Word(a) : lsw[a][b] \in Opcode
      BY <2>3 DEF Typed, TypeOK
    <3>1. mem' \in [Addr -> Opcode] /\ mishaps' \subseteq Mishaps
      BY <3>0, <3>5, WriteType
    <3> USE DEF Typed, TypeOK, FiniteTables, OneKind
    <3>2. lsw' = Without(lsw, a)
      BY <2>1, <2>3 DEF remove_sw_breakpoint
    <3>3. IsFiniteSet(DOMAIN lsw') /\ Cardinality(DOMAIN lsw') <= MAX_BREAKPOINTS
      BY <3>2, WithoutFits
    <3>4. DOMAIN lsw' \subseteq Addr /\ \A c \in DOMAIN lsw' : lsw'[c] \in [Word(c) -> Opcode]
      BY <3>2 DEF Without
    <3> QED BY <2>1, <3>1, <3>3, <3>4, ReplyType, <1>1
  <2> QED BY <2>2, <2>3
<1>2. CASE ~hw
  <2>1. remove_mw_breakpoint(a) /\ UNCHANGED <<hw, program, lsw>>
    BY <1>2 DEF z, remove_mw_breakpoint
  <2>2. CASE RemoveMwAbsent(a) \/ RemoveMwUnread(a)
    BY <2>1, <2>2, ReplyType DEF RemoveMwAbsent, RemoveMwUnread
  <2>3. CASE RemoveMwRestores(a)
    <3>1. \A b \in Page(a) : [mem EXCEPT ![a] = lmw[a]][b] \in Opcode
      BY <2>3, GroupFacts DEF RemoveMwRestores
    <3>0. PICK ok \in BOOLEAN : Write(Page(a), [mem EXCEPT ![a] = lmw[a]], ok, {})
      BY <2>3 DEF RemoveMwRestores
    <3> DEFINE new == [mem EXCEPT ![a] = lmw[a]]
    <3>6. Write(Page(a), new, ok, {}) /\ \A b \in Page(a) : new[b] \in Opcode
      BY <3>0, <3>1
    <3>7. mem \in [Addr -> Opcode] /\ mishaps \subseteq Mishaps
      OBVIOUS
    <3> HIDE DEF new, Typed, TypeOK, FiniteTables, OneKind
    <3>2. mem' \in [Addr -> Opcode] /\ mishaps' \subseteq Mishaps
      BY <3>6, <3>7, WriteType
    <3> USE DEF Typed, TypeOK, FiniteTables, OneKind
    <3>3. lmw' = Without(lmw, a)
      BY <2>3 DEF RemoveMwRestores
    <3>4. IsFiniteSet(DOMAIN lmw') /\ Cardinality(DOMAIN lmw') <= MAX_BREAKPOINTS
      BY <3>3, WithoutFits
    <3>5. DOMAIN lmw' \subseteq Addr /\ \A c \in DOMAIN lmw' : lmw'[c] \in Opcode
      BY <3>3 DEF Without
    <3> QED BY <2>1, <2>3, <3>2, <3>4, <3>5, ReplyType, <1>2 DEF RemoveMwRestores
  <2> QED BY <2>1, <2>2, <2>3 DEF remove_mw_breakpoint
<1> QED BY <1>1, <1>2

LEMMA NextTyped == Typed /\ [Next]_vars => Typed'
<1> SUFFICES ASSUME Typed, [Next]_vars PROVE Typed'
  OBVIOUS
<1>1. ASSUME NEW a \in Addr, Z(a) PROVE Typed'
  BY <1>1, AddSwTyped, AddMwTyped DEF Z
<1>2. ASSUME NEW a \in Addr, z(a) PROVE Typed'
  BY <1>2, RemoveTyped
<1>3. ASSUME NEW a \in Addr, NEW op \in Opcode \ {Blank}, Load(a, op) PROVE Typed'
  BY <1>3, OtherwiseType DEF Load, Seen, Typed, TypeOK, FiniteTables, OneKind
<1>4. CASE clear_all_breakpoints
  <2>1. DOMAIN lsw' = {} /\ DOMAIN lmw' = {}
    BY <1>4 DEF clear_all_breakpoints, NoBreakpoint
  <2>2. Cardinality({}) <= MAX_BREAKPOINTS /\ IsFiniteSet({})
    BY FS_EmptySet, BreakpointAssumption DEF BreakpointAssumption
  <2> QED BY <1>4, <2>1, <2>2, OtherwiseType
          DEF clear_all_breakpoints, Seen, Typed, TypeOK, FiniteTables, OneKind
<1>5. CASE UNCHANGED vars
  BY <1>5 DEF vars, Typed, TypeOK, FiniteTables, OneKind
<1> QED BY <1>1, <1>2, <1>3, <1>4, <1>5 DEF Next

-----------------------------------------------------------------------------
(* A write that goes through changes the given cells only. *)
LEMMA WriteEffect ==
  ASSUME NEW cells, NEW new, NEW ok \in BOOLEAN, NEW others,
         Write(cells, new, ok, others), "wire" \notin mishaps'
  PROVE  /\ ok
         /\ mem' = Written(cells, new)
         /\ mishaps' = mishaps \cup others
BY DEF Write, Seen

(* What a patch makes of code that shows the claimed breakpoints. *)
LEMMA PatchEffect ==
  ASSUME NEW a \in Addr, NEW cells, a \in cells,
         mem \in [Addr -> Opcode], mem = Overlay(claimed), UNCHANGED program,
         mem' = Written(cells, Patched(a)), claimed' = claimed \cup {a}
  PROVE  mem' = Overlay(claimed')
BY DEF Written, Patched, Overlay

LEMMA AddSwPlanted ==
  ASSUME Typed, Planted, hw, UNCHANGED hw, NEW a \in Addr, add_sw_breakpoint(a)
  PROVE  Planted'
<1> SUFFICES ASSUME mishaps' = {}
             PROVE  /\ claimed' = DOMAIN lsw' \cup DOMAIN lmw'
                    /\ mem' = Overlay(claimed')
                    /\ \A c \in DOMAIN lsw' : /\ Word(c) \cap DOMAIN lsw' = {c}
                                              /\ \A b \in Word(c) : lsw'[c][b] = program[b]
                    /\ \A c \in DOMAIN lmw' : lmw'[c] = program[c]
  BY DEF Planted, add_sw_breakpoint, Overlay
<1>1. UNCHANGED <<program, lmw>> /\ mem \in [Addr -> Opcode] /\ DOMAIN lmw = {}
  BY DEF add_sw_breakpoint, Typed, TypeOK, OneKind
<1>2. CASE AddSwPresent(a)
  BY <1>1, <1>2 DEF AddSwPresent, Reply, Planted, Overlay
<1>3. CASE AddSwFails(a)
  <2>1. UNCHANGED <<mem, mishaps>>
    BY <1>3, WriteEffect DEF AddSwFails
  <2> QED BY <1>1, <1>3, <2>1 DEF AddSwFails, Reply, Planted, Overlay
<1>4. CASE AddSwPlants(a)
  <2>1. /\ Write(Word(a), Patched(a), TRUE, Sharing(a))
        /\ lsw' = With(lsw, a, [b \in Word(a) |-> mem[b]])
        /\ claimed' = claimed \cup {a}
        /\ a \notin DOMAIN lsw
    BY <1>4 DEF AddSwPlants, Reply
  <2>2. mem' = Written(Word(a), Patched(a)) /\ mishaps = {} /\ Sharing(a) = {}
    BY <2>1, WriteEffect
  <2>3. DOMAIN lsw \cap Word(a) = {}
    BY <2>2 DEF Sharing
  <2>4. /\ claimed = DOMAIN lsw
        /\ mem = Overlay(claimed)
        /\ \A c \in DOMAIN lsw : /\ Word(c) \cap DOMAIN lsw = {c}
                                 /\ \A b \in Word(c) : lsw[c][b] = program[b]
    BY <1>1, <2>2 DEF Planted
  <2>5. mem' = Overlay(claimed')
    BY <1>1, <2>1, <2>2, <2>4, PatchEffect, GroupFacts
  <2>6. \A b \in Word(a) : mem[b] = program[b]
    BY <2>3, <2>4, GroupFacts DEF Overlay
  <2>7. \A c \in DOMAIN lsw : a \notin Word(c)
    BY <2>3, GroupFacts DEF Typed, TypeOK
  <2>8. ASSUME NEW c \in DOMAIN lsw'
        PROVE  /\ Word(c) \cap DOMAIN lsw' = {c}
               /\ \A b \in Word(c) : lsw'[c][b] = program[b]
    <3>1. DOMAIN lsw' = DOMAIN lsw \cup {a}
      BY <2>1 DEF With
    <3>2. CASE c = a
      BY <2>1, <2>3, <2>6, <3>1, <3>2, GroupFacts DEF With
    <3>3. CASE c # a
      <4>1. c \in DOMAIN lsw /\ lsw'[c] = lsw[c]
        BY <2>1, <2>8, <3>1, <3>3 DEF With
      <4> QED BY <2>4, <2>7, <3>1, <4>1
    <3> QED BY <3>2, <3>3
  <2>9. claimed' = DOMAIN lsw' \cup DOMAIN lmw'
    BY <1>1, <2>1, <2>4 DEF With
  <2> QED BY <1>1, <2>5, <2>8, <2>9
<1>5. CASE AddSwFull(a)
  BY <1>1, <1>5 DEF AddSwFull, Seen, Reply, Planted, Overlay
<1> QED BY <1>2, <1>3, <1>4, <1>5 DEF add_sw_breakpoint

LEMMA AddMwPlanted ==
  ASSUME Typed, Planted, ~hw, UNCHANGED hw, NEW a \in Addr, add_mw_breakpoint(a)
  PROVE  Planted'
<1> SUFFICES ASSUME mishaps' = {}
             PROVE  /\ claimed' = DOMAIN lmw'
                    /\ mem' = Overlay(claimed')
                    /\ DOMAIN lsw' = {}
                    /\ \A c \in DOMAIN lmw' : lmw'[c] = program[c]
  BY DEF Planted, add_mw_breakpoint, Overlay
<1>1. UNCHANGED <<program, lsw>> /\ mem \in [Addr -> Opcode] /\ DOMAIN lsw = {}
  BY DEF add_mw_breakpoint, Typed, TypeOK, OneKind
<1>2. mishaps = {}
  BY DEF add_mw_breakpoint, AddMwPresent, AddMwFails, AddMwPlants, AddMwFull, Write, Seen
<1>3. /\ claimed = DOMAIN lmw /\ mem = Overlay(claimed)
      /\ \A c \in DOMAIN lmw : lmw[c] = program[c]
  BY <1>1, <1>2 DEF Planted
<1>4. a \in DOMAIN lmw => StillPlanted(a)
  BY <1>3 DEF StillPlanted, Overlay
<1>5. CASE AddMwPresent(a)
  BY <1>1, <1>3, <1>5 DEF AddMwPresent, StillPlanted, Reply, Overlay
<1>6. CASE a \in DOMAIN lmw /\ ~AddMwPresent(a)
  <2>1. Unread(a) = {"wire"}
    BY <1>4, <1>6 DEF Unread
  <2>2. "wire" \in mishaps'
    BY <1>6, <2>1 DEF add_mw_breakpoint, AddMwFails, AddMwPlants, AddMwFull, Write, Seen
  <2> QED BY <2>2
<1>7. CASE a \notin DOMAIN lmw
  <2>1. Unread(a) = {} /\ mem[a] = program[a] /\ DOMAIN Without(lmw, a) = DOMAIN lmw
        /\ \A c \in DOMAIN lmw : Without(lmw, a)[c] = lmw[c]
    BY <1>3, <1>7 DEF Unread, StillPlanted, Overlay, Without
  <2>2. CASE AddMwFails(a)
    <3>1. UNCHANGED mem
      BY <2>2, WriteEffect DEF AddMwFails
    <3> QED BY <1>1, <1>3, <2>1, <2>2, <3>1 DEF AddMwFails, Reply, Overlay
  <2>3. CASE AddMwPlants(a)
    <3>1. /\ lmw' = With(lmw, a, mem[a])
          /\ claimed' = claimed \cup {a}
          /\ mem' = Written(Page(a), Patched(a))
      BY <2>3, WriteEffect DEF AddMwPlants, Reply
    <3>2. mem' = Overlay(claimed')
      BY <1>1, <1>3, <3>1, PatchEffect, GroupFacts
    <3> QED BY <1>1, <1>3, <2>1, <3>1, <3>2 DEF With
  <2>4. CASE AddMwFull(a)
    <3>1. UNCHANGED mem
      BY <2>4 DEF AddMwFull, Seen
    <3> QED BY <1>1, <1>3, <2>1, <2>4, <3>1 DEF AddMwFull, Reply, Overlay
  <2>5. CASE AddMwPresent(a)
    BY <1>7, <2>5 DEF AddMwPresent, StillPlanted
  <2> QED BY <2>2, <2>3, <2>4, <2>5 DEF add_mw_breakpoint
<1> QED BY <1>5, <1>6, <1>7

LEMMA RemoveSwPlanted ==
  ASSUME Typed, Planted, hw, UNCHANGED hw, NEW a \in Addr, remove_sw_breakpoint(a)
  PROVE  Planted'
<1> SUFFICES ASSUME mishaps' = {}
             PROVE  /\ claimed' = DOMAIN lsw' \cup DOMAIN lmw'
                    /\ mem' = Overlay(claimed')
                    /\ \A c \in DOMAIN lsw' : /\ Word(c) \cap DOMAIN lsw' = {c}
                                              /\ \A b \in Word(c) : lsw'[c][b] = program[b]
                    /\ \A c \in DOMAIN lmw' : lmw'[c] = program[c]
  BY DEF Planted, remove_sw_breakpoint, Overlay
<1>1. /\ UNCHANGED <<program, lmw>> /\ claimed' = claimed \ {a}
      /\ mem \in [Addr -> Opcode] /\ DOMAIN lmw = {}
  BY DEF remove_sw_breakpoint, Reply, Typed, TypeOK, OneKind
<1>2. CASE a \notin DOMAIN lsw
  <2>1. UNCHANGED <<mem, lsw, mishaps>>
    BY <1>2 DEF remove_sw_breakpoint
  <2>2. claimed = DOMAIN lsw /\ claimed' = claimed
    BY <1>1, <1>2, <2>1 DEF Planted
  <2> QED BY <1>1, <2>1, <2>2 DEF Planted, Overlay
<1>3. CASE a \in DOMAIN lsw
  <2>1. PICK ok \in BOOLEAN : Write(Word(a), lsw[a], ok, {})
    BY <1>3 DEF remove_sw_breakpoint
  <2>2. mem' = Written(Word(a), lsw[a]) /\ mishaps = {}
    BY <2>1, WriteEffect
  <2>3. lsw' = Without(lsw, a)
    BY <1>3 DEF remove_sw_breakpoint
  <2>4. /\ claimed = DOMAIN lsw /\ mem = Overlay(claimed)
        /\ \A c \in DOMAIN lsw : /\ Word(c) \cap DOMAIN lsw = {c}
                                 /\ \A b \in Word(c) : lsw[c][b] = program[b]
    BY <1>1, <2>2 DEF Planted
  <2>5. mem' = Overlay(claimed')
    BY <1>1, <1>3, <2>2, <2>4 DEF Written, Overlay
  <2>6. DOMAIN lsw' = DOMAIN lsw \ {a} /\ \A c \in DOMAIN lsw' : lsw'[c] = lsw[c]
    BY <2>3 DEF Without
  <2> QED BY <1>1, <2>4, <2>5, <2>6, GroupFacts DEF Typed, TypeOK
<1> QED BY <1>2, <1>3

LEMMA RemoveMwPlanted ==
  ASSUME Typed, Planted, ~hw, UNCHANGED hw, NEW a \in Addr, remove_mw_breakpoint(a)
  PROVE  Planted'
<1> SUFFICES ASSUME mishaps' = {}
             PROVE  /\ claimed' = DOMAIN lmw'
                    /\ mem' = Overlay(claimed')
                    /\ DOMAIN lsw' = {}
                    /\ \A c \in DOMAIN lmw' : lmw'[c] = program[c]
  BY DEF Planted, remove_mw_breakpoint, Overlay
<1>1. UNCHANGED <<program, lsw>> /\ mem \in [Addr -> Opcode] /\ DOMAIN lsw = {}
  BY DEF remove_mw_breakpoint, Typed, TypeOK, OneKind
<1>2. mishaps = {}
  BY DEF remove_mw_breakpoint, RemoveMwAbsent, RemoveMwUnread, RemoveMwRestores, Write, Seen
<1>3. /\ claimed = DOMAIN lmw /\ mem = Overlay(claimed)
      /\ \A c \in DOMAIN lmw : lmw[c] = program[c]
  BY <1>1, <1>2 DEF Planted
<1>4. CASE RemoveMwAbsent(a)
  BY <1>1, <1>3, <1>4 DEF RemoveMwAbsent, Reply, Overlay
<1>5. CASE RemoveMwUnread(a)
  BY <1>1, <1>3, <1>5 DEF RemoveMwUnread, Reply, Overlay
<1>6. CASE RemoveMwRestores(a)
  <2>1. PICK ok \in BOOLEAN : Write(Page(a), [mem EXCEPT ![a] = lmw[a]], ok, {})
    BY <1>6 DEF RemoveMwRestores
  <2>2. mem' = Written(Page(a), [mem EXCEPT ![a] = lmw[a]])
    BY <2>1, WriteEffect
  <2>3. claimed' = claimed \ {a} /\ lmw' = Without(lmw, a) /\ lmw[a] = program[a]
    BY <1>3, <1>6 DEF RemoveMwRestores, Reply
  <2>4. mem' = Overlay(claimed')
    BY <1>1, <1>3, <2>2, <2>3, GroupFacts DEF Written, Overlay
  <2> QED BY <1>1, <1>3, <2>3, <2>4 DEF Without
<1> QED BY <1>4, <1>5, <1>6 DEF remove_mw_breakpoint

LEMMA LoadPlanted ==
  ASSUME Typed, Planted, NEW a \in Addr, NEW op \in Opcode, Load(a, op)
  PROVE  Planted'
<1> SUFFICES ASSUME mishaps' = {} PROVE Planted'
  BY DEF Planted
<1>1. a \notin DOMAIN lmw /\ DOMAIN lsw \cap Word(a) = {} /\ mishaps = {}
  BY DEF Load, Seen
<1>2. /\ claimed = DOMAIN lsw \cup DOMAIN lmw /\ mem = Overlay(claimed)
      /\ \A c \in DOMAIN lsw : /\ Word(c) \cap DOMAIN lsw = {c}
                               /\ \A b \in Word(c) : lsw[c][b] = program[b]
      /\ \A c \in DOMAIN lmw : lmw[c] = program[c]
  BY <1>1 DEF Planted
<1>3. /\ UNCHANGED <<claimed, lsw, lmw>>
      /\ mem' = [mem EXCEPT ![a] = op] /\ program' = [program EXCEPT ![a] = op]
      /\ mem \in [Addr -> Opcode] /\ program \in [Addr -> Opcode]
      /\ DOMAIN lsw \subseteq Addr /\ DOMAIN lmw \subseteq Addr
  BY DEF Load, Typed, TypeOK
<1>4. a \notin claimed
  BY <1>1, <1>2, GroupFacts
<1>5. mem' = Overlay(claimed)'
  BY <1>2, <1>3, <1>4 DEF Overlay
<1>6. \A c \in DOMAIN lsw : a \notin Word(c)
  BY <1>1, <1>3, GroupFacts
<1>7. \A c \in DOMAIN lsw : \A b \in Word(c) : program'[b] = program[b]
  BY <1>3, <1>6, GroupFacts
<1>8. \A c \in DOMAIN lmw : program'[c] = program[c]
  BY <1>1, <1>3
<1> QED BY <1>2, <1>3, <1>5, <1>7, <1>8 DEF Planted

LEMMA NextPlanted == Typed /\ Planted /\ [Next]_vars => Planted'
<1> SUFFICES ASSUME Typed, Planted, [Next]_vars PROVE Planted'
  OBVIOUS
<1>1. ASSUME NEW a \in Addr, Z(a) PROVE Planted'
  BY <1>1, AddSwPlanted, AddMwPlanted DEF Z
<1>2. ASSUME NEW a \in Addr, z(a) PROVE Planted'
  BY <1>2, RemoveSwPlanted, RemoveMwPlanted DEF z
<1>3. ASSUME NEW a \in Addr, NEW op \in Opcode \ {Blank}, Load(a, op) PROVE Planted'
  BY <1>3, LoadPlanted
<1>4. CASE clear_all_breakpoints
  <2>1. mishaps' = {} => mem = Overlay({}) /\ claimed = {}
    BY <1>4 DEF clear_all_breakpoints, Seen, Planted
  <2>2. DOMAIN lsw' = {} /\ DOMAIN lmw' = {} /\ claimed' = {} /\ UNCHANGED <<mem, program>>
    BY <1>4 DEF clear_all_breakpoints, NoBreakpoint
  <2> QED BY <2>1, <2>2 DEF Planted, Overlay
<1>5. CASE UNCHANGED vars
  BY <1>5 DEF vars, Planted, Overlay
<1> QED BY <1>1, <1>2, <1>3, <1>4, <1>5 DEF Next

-----------------------------------------------------------------------------
(* An insertion in flash answered with OK found the opcode or wrote it. *)
LEMMA NextFlashInsertIsReal == Typed /\ FlashInsertIsReal /\ [Next]_vars => FlashInsertIsReal'
<1> SUFFICES ASSUME Typed, FlashInsertIsReal, [Next]_vars PROVE FlashInsertIsReal'
  OBVIOUS
<1>1. ASSUME NEW a \in Addr, Z(a), ~hw PROVE FlashInsertIsReal'
  <2>1. CASE AddMwPresent(a)
    BY <2>1 DEF AddMwPresent, StillPlanted, Reply, FlashInsertIsReal
  <2>2. CASE AddMwPlants(a)
    <3>1. mem' = Written(Page(a), Patched(a))
      BY <2>2 DEF AddMwPlants, Write
    <3>2. mem'[a] = BKPT
      BY <3>1, GroupFacts, <1>1 DEF Written, Patched, Typed, TypeOK
    <3> QED BY <2>2, <3>2 DEF AddMwPlants, Reply, FlashInsertIsReal
  <2>3. CASE AddMwFails(a) \/ AddMwFull(a)
    <3>1. Reply("Z", a, FALSE)
      BY <2>3 DEF AddMwFails, AddMwFull
    <3> QED BY <3>1 DEF Reply, FlashInsertIsReal
  <2> QED BY <1>1, <2>1, <2>2, <2>3 DEF Z, add_mw_breakpoint
<1>2. ASSUME NEW a \in Addr, Z(a), hw PROVE FlashInsertIsReal'
  BY <1>2 DEF Z, FlashInsertIsReal
<1>3. ASSUME NEW a \in Addr, z(a) PROVE FlashInsertIsReal'
  BY <1>3 DEF z, remove_sw_breakpoint, remove_mw_breakpoint, RemoveMwAbsent, RemoveMwUnread,
              RemoveMwRestores, Reply, FlashInsertIsReal
<1>4. ASSUME NEW a \in Addr, NEW op \in Opcode \ {Blank}, Load(a, op) PROVE FlashInsertIsReal'
  BY <1>4 DEF Load, Otherwise, FlashInsertIsReal
<1>5. CASE clear_all_breakpoints
  BY <1>5 DEF clear_all_breakpoints, Otherwise, FlashInsertIsReal
<1>6. CASE UNCHANGED vars
  BY <1>6 DEF vars, FlashInsertIsReal
<1> QED BY <1>1, <1>2, <1>3, <1>4, <1>5, <1>6 DEF Next

(* A refused insertion restored what it had written, or could not write. *)
LEMMA NextRefusal ==
  ASSUME Typed, Next, last'.request = "Z", ~last'.ok, "wire" \notin mishaps'
  PROVE  mem' = mem
<1>1. ASSUME NEW a \in Addr, Z(a) PROVE mem' = mem
  <2>0. ~Reply("Z", a, TRUE)
    BY DEF Reply
  <2>1. ~AddSwPresent(a) /\ ~AddSwPlants(a) /\ ~AddMwPresent(a) /\ ~AddMwPlants(a)
    BY <2>0 DEF AddSwPresent, AddSwPlants, AddMwPresent, AddMwPlants
  <2>2. \A cells, new, others : ~Write(cells, new, FALSE, others)
    BY DEF Write, Seen
  <2>3. CASE hw
    BY <1>1, <2>1, <2>2, <2>3 DEF Z, add_sw_breakpoint, AddSwFails, AddSwFull, Seen
  <2>4. CASE ~hw
    BY <1>1, <2>1, <2>2, <2>4 DEF Z, add_mw_breakpoint, AddMwFails, AddMwFull, Seen
  <2> QED BY <2>3, <2>4
<1>2. ASSUME NEW a \in Addr, z(a) PROVE FALSE
  BY <1>2 DEF z, remove_sw_breakpoint, remove_mw_breakpoint, RemoveMwAbsent, RemoveMwUnread,
              RemoveMwRestores, Reply
<1>3. ASSUME NEW a \in Addr, NEW op \in Opcode \ {Blank}, Load(a, op) PROVE FALSE
  BY <1>3 DEF Load, Otherwise
<1>4. CASE clear_all_breakpoints
  BY <1>4 DEF clear_all_breakpoints, Otherwise
<1> QED BY <1>1, <1>2, <1>3, <1>4 DEF Next

-----------------------------------------------------------------------------
(* The inductive invariant of the breakpoint tables: entries have types,   *)
(* tables keep to their size, and what they saved is the program.          *)
THEOREM BreakpointInvariant == Spec => []IInv
<1>1. IInv /\ [Next]_vars => IInv'
  BY NextTyped, NextPlanted, NextFlashInsertIsReal DEF IInv
<1> QED BY InitIInv, <1>1, PTL DEF Spec

(* Neither table overflows, and nothing but opcodes is saved or planted    *)
(* (add_sw_breakpoint, add_mw_breakpoint).                                 *)
THEOREM TablesKeepToTheirSize == Spec => []TypeOK
<1>1. IInv => TypeOK
  BY DEF IInv, Typed
<1> QED BY BreakpointInvariant, <1>1, PTL

(* Until a mishap the target's code is the program with exactly the        *)
(* breakpoints GDB was told of: inserting and removing them in any order   *)
(* restores what was there.                                                *)
THEOREM OnlyClaimedBreakpoints == Spec => []NoStrayBreakpoint
<1>1. IInv => NoStrayBreakpoint
  BY DEF IInv, Planted, NoStrayBreakpoint
<1> QED BY BreakpointInvariant, <1>1, PTL

(* A flash breakpoint reported as planted is in the flash, whatever was    *)
(* loaded over it or failed before.                                        *)
THEOREM FlashInsertionsAreReal == Spec => []FlashInsertIsReal
<1>1. IInv => FlashInsertIsReal
  BY DEF IInv
<1> QED BY BreakpointInvariant, <1>1, PTL

(* A table that is full, or code that cannot be read, leaves the code      *)
(* alone.                                                                  *)
THEOREM RefusalsLeaveCode == Spec => RefusalLeavesCode
<1>1. IInv /\ [Next]_vars =>
        [last'.request = "Z" /\ ~last'.ok /\ "wire" \notin mishaps' => mem' = mem]_vars
  BY NextRefusal DEF IInv
<1> QED BY BreakpointInvariant, <1>1, PTL DEF Spec, RefusalLeavesCode

=============================================================================
