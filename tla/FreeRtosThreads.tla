--------------------------- MODULE FreeRtosThreads ----------------------------
(***************************************************************************)
(* The FreeRTOS awareness of the probe: GDB resolves the kernel's symbols  *)
(* (commands/symbols.rs), "mon fos" enables it, thread queries read the    *)
(* kernel's lists into a cache (freertos_tcb.rs, freertos_list.rs), tasks  *)
(* get thread ids (freertos_hashtcb.rs), and Hg swaps the context of the   *)
(* task in the core with that of another one (ContextFrames).  Beside it   *)
(* the kernel of the target, which runs between two stops and restores     *)
(* what the probe saved (FreeRtosPort).                                    *)
(***************************************************************************)
EXTENDS FreeRtosPort, FiniteSets, SequencesExt

CONSTANTS
  Tcb,                 \* addresses a task control block can have; also its stack
  NoTask,
  Ports,               \* the FreeRTOS ports the target may have
  MaxFpu,              \* bound on the tasks that use the FPU
  MAX_FREERTOS_TASKS,  \* 32 in the code
  MaxIndex,            \* bound on the thread ids given before the last resume
  KernelSteps,         \* bound on the steps of the kernel, for each port
  Mishaps              \* what may go wrong, a subset of Mishap

\* wire: a transfer to the target fails
\* hidden: a task is ready at a priority other than 0
\* full: there is no room for a task in the map of thread ids
\* layout: a RISC-V program that does not declare its layout is not a CH32 one
\* symbols: GDB learns the symbols of the kernel after a query of the same stop
\*          found no task
Mishap == {"wire", "hidden", "full", "layout", "symbols"}

\* Lists of the kernel, by the index of their symbol; OtherReady stands for the
\* elements of pxReadyTasksLists above the first
SuspendedList == 1   DelayedList == 2   ReadyList == 4   OtherReady == 5
Lists == {SuspendedList, DelayedList, ReadyList, OtherReady}

\* A stack has room for the longest frame of any port
ASSUME ThreadAssumption ==
  /\ Stack = Tcb /\ NoTask \notin Tcb /\ Depth > 62
  /\ Ports \subseteq Port /\ MaxFpu \in Nat
  /\ MAX_FREERTOS_TASKS \in Nat \ {0} /\ MaxIndex \in Nat /\ \A p \in Ports : KernelSteps[p] \in Nat
  /\ Mishaps \subseteq Mishap

VARIABLES
  port,          \* the port, fixed
  fpu,           \* the tasks that use the FPU, fixed
  lists,         \* for each list of the kernel, its tasks in order
  current,       \* pxCurrentTCB
  top,           \* pxTopOfStack of each TCB
  mem,           \* the stacks
  core,          \* the registers of the core
  version,       \* how far each task has run: it decides its registers (history)
  switches,      \* steps of the kernel so far (history)
  executing,     \* the target runs
  asked,         \* symbol_indeces: how many symbols GDB was asked for
  addresses,     \* FreeRTOSSymbols.addresses
  offsets,       \* FreeRTOSSymbols.debug_offsets are known
  running,       \* FreeRTOSSymbols.running
  switcher,      \* the installed handler
  cache, dirty,  \* TcbCache
  map, index,    \* hashed_tcb
  selected,      \* the task GDB was told it has selected (history)
  mishaps        \* the kinds of mishap seen so far (history)

kernel  == <<port, fpu, lists, current, top, mem, core, version, switches>>
symbols == <<asked, addresses, offsets, running>>
threads == <<cache, dirty, map, index>>
vars == <<kernel, symbols, threads, executing, switcher, selected, mishaps>>

\* The symbols GDB is asked for, in order.  Those of the kernel count as one,
\* the one of RTT, which comes last, is not about threads.
Symbols == <<"kernel", "freeRTOSDebug">>
FreeRTOSSymbolName == {"kernel", "freeRTOSDebug"}

Tasks(l) == {l[i] : i \in DOMAIN l}
Live     == UNION {Tasks(lists[l]) : l \in Lists}
Ready    == Tasks(lists[ReadyList]) \cup Tasks(lists[OtherReady])

\* The registers of a task that has run so far; x3 and x4 are the same for all
Registers(t, v) ==
  [r \in PortReg(port) |->
     CASE r = PortSP(port)                             -> <<t, Depth - v>>
       [] r = MSTATUS                                  -> <<t, v, IF t \in fpu THEN DIRTY ELSE CLEAN>>
       [] r \in {3, 4} /\ PortReg(port) = RiscvReg     -> <<"shared", 0, r>>
       [] OTHER                                        -> <<t, v, r>>]

Saved(m, t, v) == Store(m, PortTop(port, Registers(t, v), t \in fpu),
                        FrameWords(port, Registers(t, v), t \in fpu))
SavedTop(t, v) == PortTop(port, Registers(t, v), t \in fpu)

Task == [tcb : Tcb, id : Nat, top : Stack \X Int, state : Lists \cup {0}]

TypeOK ==
  /\ port \in Ports /\ fpu \subseteq Tcb
  /\ lists \in [Lists -> Seq(Tcb)] /\ current \in Live
  /\ DOMAIN core = PortReg(port)
  /\ version \in [Tcb -> 0..1] /\ switches \in 0..KernelSteps[port]
  /\ asked \in 0..Len(Symbols)
  /\ addresses \in [FreeRTOSSymbolName -> {"None", "zero", "known"}]
  /\ offsets \in BOOLEAN /\ running \in BOOLEAN /\ executing \in BOOLEAN
  /\ switcher \in Handler \cup {"None"}
  /\ cache \in Seq(Task) /\ dirty \in BOOLEAN /\ Len(cache) <= MAX_FREERTOS_TASKS
  /\ map \in Seq([tcb : Tcb, id : Nat]) /\ Len(map) <= MAX_FREERTOS_TASKS
  /\ index \in Nat
  /\ selected \in Tcb \cup {NoTask}
  /\ mishaps \subseteq Mishaps

\* The kernel has been started: one task runs, another is suspended
Init ==
  /\ port \in Ports
  /\ fpu \in {f \in SUBSET Tcb : /\ Cardinality(f) <= MaxFpu
                                 /\ f # {} => port \in {"m4f", "ch32_fpu"}}
  /\ \E t, u \in Tcb :
       /\ t # u /\ current = t
       /\ version = [x \in Tcb |-> 0]
       /\ core = Registers(t, 0)
       /\ lists = [l \in Lists |-> CASE l = ReadyList     -> <<t>>
                                     [] l = SuspendedList -> <<u>>
                                     [] OTHER             -> <<>>]
       /\ mem = Saved([s \in Tcb |-> [a \in 0..(Depth - 1) |-> ZERO]], u, 0)
       /\ top = [x \in Tcb |-> IF x = u THEN SavedTop(u, 0) ELSE <<x, Depth>>]
  /\ switches = 0 /\ executing = FALSE
  /\ asked = 0 /\ addresses = [s \in FreeRTOSSymbolName |-> "None"]
  /\ offsets = FALSE /\ running = FALSE /\ switcher = "None"
  /\ cache = <<>> /\ dirty = TRUE /\ map = <<>> /\ index = 1
  /\ selected = NoTask /\ mishaps = {}

\* A behaviour meets one kind of mishap at most
Seen(kinds) ==
  /\ kinds \subseteq Mishaps
  /\ mishaps' = mishaps \cup kinds
  /\ Cardinality(mishaps') <= 1

\* Requests are served while the target is stopped.  After a failed transfer it
\* is not followed further.
Halted == ~executing /\ "wire" \notin mishaps

-----------------------------------------------------------------------------
(* The kernel, while the target executes *)

Without(t)   == [l \in Lists |-> RemoveFirst(lists[l], t)]
Moved(t, to) == [Without(t) EXCEPT ![to] = Append(@, t)]

KernelStep(t, to) ==
  /\ executing /\ switches < KernelSteps[port]
  /\ switches' = switches + 1
  /\ Seen(IF to = OtherReady THEN {"hidden"} ELSE {})
  /\ UNCHANGED <<port, fpu, symbols, threads, executing, switcher, selected>>

\* The current task runs on, goes to a list, and the kernel picks another one
KernelSwitch(t, to) ==
  LET v     == 1 - version[current]
      saved == Saved(mem, current, v)
  IN
  /\ KernelStep(current, to)
  /\ t \in Ready \ {current}
  /\ lists'   = IF current \in Tasks(lists[to]) THEN lists ELSE Moved(current, to)
  /\ version' = [version EXCEPT ![current] = v]
  /\ mem'     = saved
  /\ top'     = [top EXCEPT ![current] = SavedTop(current, v)]
  /\ core'    = PortRestore(port, saved, top[t], core)
  /\ current' = t

\* A task that does not run is woken or suspended
KernelMove(t, to) ==
  /\ KernelStep(t, to)
  /\ t \in Live \ (Tasks(lists[to]) \cup {current})
  /\ lists' = Moved(t, to)
  /\ UNCHANGED <<current, top, mem, core, version>>

KernelCreate(t, to) ==
  /\ KernelStep(t, to)
  /\ t \notin Live
  /\ lists'   = [lists EXCEPT ![to] = Append(@, t)]
  /\ version' = [version EXCEPT ![t] = 0]
  /\ mem'     = Saved(mem, t, 0)
  /\ top'     = [top EXCEPT ![t] = SavedTop(t, 0)]
  /\ UNCHANGED <<current, core>>

\* Its memory is free and may become that of another task
KernelDelete(t) ==
  /\ KernelStep(t, ReadyList)
  /\ t \in Live \ {current}
  /\ lists' = Without(t)
  /\ UNCHANGED <<current, top, mem, core, version>>

-----------------------------------------------------------------------------
(* Symbols: "qSymbol::" and the answers of GDB *)

freertos_clear_symbols ==
  /\ running' = FALSE /\ offsets' = FALSE
  /\ addresses' = [s \in FreeRTOSSymbolName |-> "None"]

valid == \A s \in FreeRTOSSymbolName : addresses[s] # "None"

qSymbolReset ==
  /\ Halted
  /\ asked' = 0
  /\ freertos_clear_symbols
  /\ UNCHANGED <<kernel, threads, executing, switcher, selected, mishaps>>

\* An answer is taken for the symbol asked for last, whatever its name.  A
\* symbol GDB does not know has value zero; no layout of freeRTOSDebug is that
\* of the M33 port.  Programs that know freeRTOSDebug know the kernel's symbols.
qSymbol(found) ==
  LET s == Symbols[asked + 1] IN
  /\ Halted /\ asked < Len(Symbols)
  /\ s = "freeRTOSDebug" /\ found => port # "m33" /\ addresses["kernel"] = "known"
  /\ asked' = asked + 1
  /\ addresses' = [addresses EXCEPT ![s] = IF found THEN "known" ELSE "zero"]
  /\ \E unread \in IF s = "freeRTOSDebug" /\ found THEN BOOLEAN ELSE {FALSE} :
       /\ Seen({k \in Mishap : \/ k = "wire" /\ unread
                               \/ k = "symbols" /\ s = "kernel" /\ found /\ ~dirty /\ cache = <<>>})
       /\ offsets' = IF s = "freeRTOSDebug" /\ found /\ ~unread THEN TRUE ELSE offsets
  /\ UNCHANGED <<running, kernel, threads, executing, switcher, selected>>

-----------------------------------------------------------------------------
(* "mon fos" *)

Flavor == {"AUTO", "NONE", "OWN"}

\* create_arm_switch_handler(): the declared layout first, then the core; a
\* Cortex-M4 whose CPACR cannot be read is taken for one without FPU
create_arm_switch_handler(flavor, cpacrRead) ==
  CASE port = "m3"                     -> "m3"
    [] port = "m4f"                    -> IF offsets \/ cpacrRead THEN "m4f" ELSE "m3"
    [] port = "m33"                    -> "m33"
    [] OTHER                           -> "None"

\* create_rv32_switch_handler(): without freeRTOSDebug the layout is CH32
Layout == IF ~offsets THEN "CH32"
          ELSE CASE port = "rv32_std" -> "RV_STD" [] port = "ch32_fpu" -> "CH32_FPU" [] OTHER -> "CH32"

create_rv32_switch_handler == IF Layout = "RV_STD" THEN "rv32_std" ELSE "ch32"

Guessed(flavor) ==
  flavor = "OWN" /\ PortReg(port) = RiscvReg /\ ~offsets /\ port # "ch32"

os_attach(flavor, cpacrRead) ==
  IF flavor = "OWN" /\ PortReg(port) = RiscvReg
  THEN create_rv32_switch_handler
  ELSE create_arm_switch_handler(flavor, cpacrRead)

freertos_invalidate_cache == cache' = <<>> /\ dirty' = TRUE

os_detach ==
  /\ switcher' = "None"
  /\ freertos_clear_symbols
  /\ freertos_invalidate_cache
  /\ map' = <<>> /\ index' = 1

enable_freertos(flavor) ==
  /\ Halted
  /\ \/ /\ flavor = "NONE"
        /\ os_detach
        /\ UNCHANGED mishaps
     \/ /\ flavor # "NONE"
        /\ \E cpacrRead \in BOOLEAN :
             /\ Seen({k \in Mishap : \/ k = "wire" /\ ~cpacrRead
                                     \/ k = "layout" /\ Guessed(flavor)})
             /\ switcher' = os_attach(flavor, cpacrRead)
        /\ running' = valid
        /\ UNCHANGED <<addresses, offsets, threads>>
  /\ UNCHANGED <<kernel, asked, executing, selected>>

-----------------------------------------------------------------------------
(* Thread ids and the cache *)

Find(entries, t) == {i \in DOMAIN entries : entries[i].tcb = t}
IdOf(entries, t) == IF Find(entries, t) = {} THEN 0
                    ELSE entries[CHOOSE i \in Find(entries, t) : TRUE].id

SwapRemoveLast(entries, i) == Front(entries)                    \* a mutation
\* LinearMap::remove(): the last entry takes the place of the one removed
SwapRemove(entries, i) ==
  IF i = Len(entries) THEN Front(entries) ELSE [Front(entries) EXCEPT ![i] = Last(entries)]

\* hashed_tcb::get(): a full map gives up its first entry
get(c, t) ==
  LET full == Len(c.map) = MAX_FREERTOS_TASKS
      room == IF full THEN SwapRemove(c.map, 1) ELSE c.map
  IN  IF Find(c.map, t) # {} THEN c
      ELSE [c EXCEPT !.map   = Append(room, [tcb |-> t, id |-> c.index]),
                     !.index = @ + 1,
                     !.full  = @ \/ full]

prune_dead(entries, live) ==
  FoldLeft(LAMBDA m, e : IF e.tcb \in live THEN m
                         ELSE SwapRemove(m, CHOOSE i \in Find(m, e.tcb) : TRUE),
           entries, entries)

\* The current task, then the others list by list; nothing else is read.  One
\* of them at most cannot be.
crawl(l) == RemoveFirst(lists[l], current)
Crawled(unread) ==
  LET all == <<current>> \o crawl(SuspendedList) \o crawl(DelayedList) \o crawl(ReadyList)
  IN  IF unread = {} THEN all ELSE RemoveFirst(all, CHOOSE t \in unread : TRUE)

StateOf(t) == IF t = current THEN 0 ELSE CHOOSE l \in Lists : t \in Tasks(lists[l])

\* What the cache and the ids become when a query needs the tasks and cannot
\* read those of the given set; NoTask stands for pxCurrentTCB.  At address
\* zero, where unknown symbols lie, no task is found.
Now == [cache |-> cache, map |-> map, index |-> index, full |-> FALSE]

\* The ids after each of the tasks has got its own
Numbered(seen) ==
  LET step[k \in 0..Len(seen)] == IF k = 0 THEN Now ELSE get(step[k - 1], seen[k])
  IN  step

read_tcb(t, ids) == [tcb |-> t, id |-> IdOf(ids.map, t), top |-> top[t], state |-> StateOf(t)]

\* push_cached() drops the tasks that find no room
freertos_collect_information(unread) ==
  IF ~dirty THEN Now
  ELSE IF NoTask \in unread THEN [Now EXCEPT !.cache = <<>>]
  ELSE LET seen   == IF addresses["kernel"] = "known" THEN Crawled(unread) ELSE <<>>
           ids    == Numbered(seen)
           last   == ids[Len(seen)]
           pushed == [i \in 1..Min({Len(seen), MAX_FREERTOS_TASKS}) |-> read_tcb(seen[i], ids[i])]
       IN  [cache |-> pushed,
            map   |-> prune_dead(last.map, {pushed[i].tcb : i \in DOMAIN pushed}),
            index |-> last.index,
            full  |-> last.full \/ Len(seen) > MAX_FREERTOS_TASKS]

\* One transfer may fail in a collection
Unread == {{}} \cup IF dirty THEN {{t} : t \in Live \cup {NoTask}} ELSE {}

Collect(unread, c) ==
  /\ unread \in Unread
  /\ Seen({k \in Mishap : \/ k = "wire" /\ unread # {}
                          \/ k = "full" /\ c.full})
  /\ dirty' = FALSE /\ map' = c.map /\ index' = c.index

-----------------------------------------------------------------------------
(* The queries *)

\* qfThreadInfo, qC, T and qThreadExtraInfo answer from the cache
ThreadQuery ==
  /\ Halted /\ running
  /\ \E unread \in Unread :
       LET c == freertos_collect_information(unread) IN
       /\ Collect(unread, c)
       /\ cache' = c.cache
  /\ UNCHANGED <<kernel, symbols, executing, switcher, selected>>

-----------------------------------------------------------------------------
(* Hg *)

\* The transfers of a switch that may fail: reading the registers, reading
\* EXC_RETURN, writing the registers, pxTopOfStack and pxCurrentTCB
Fault == {"none", "read", "load", "core", "top", "current"}

\* The registers after a write that failed half way.  A RISC-V handler goes on
\* and says it succeeded.
HalfWritten(old, new) ==
  [r \in DOMAIN old |-> IF r < PortSP(port) THEN new[r] ELSE old[r]]

\* The stack pointer kept of the task that was left
StaleTop(entries, sp) == entries                                  \* a mutation
KeptTop(entries, sp) ==
  [i \in DOMAIN entries |->
     IF entries[i].tcb = current THEN [entries[i] EXCEPT !.top = sp] ELSE entries[i]]

SetNothing(t, written) == current' = current                       \* a mutation
set_pxCurrentTCB(t, written) == current' = IF written THEN t ELSE current

Refused == UNCHANGED <<lists, current, top, core, version, selected>>

freertos_switch_task(info, c, fault) ==
  LET saved  == write_registers_to_stack(switcher, Context(core, mem))
      loaded == read_registers_from_addr(switcher, Layout, saved, info.top)
      fails  == fault = "core" /\ PortReg(port) = ArmReg
  IN
  IF fault = "read" THEN Refused /\ UNCHANGED mem /\ cache' = c.cache
  ELSE IF fault = "load" /\ switcher = "m4f" THEN Refused /\ mem' = saved.mem /\ cache' = c.cache
  ELSE
  /\ mem'  = saved.mem
  /\ core' = IF fault = "core" THEN HalfWritten(core, loaded.registers) ELSE loaded.registers
  /\ top'  = IF fails \/ fault = "top" THEN top ELSE [top EXCEPT ![current] = saved.sp]
  /\ cache' = IF fails THEN c.cache ELSE KeptTop(c.cache, saved.sp)
  /\ set_pxCurrentTCB(info.tcb, ~fails /\ fault # "current")
  /\ selected' = IF fails THEN selected ELSE info.tcb
  /\ UNCHANGED <<lists, version>>

\* A frame lies on the stack
Framed(address) == address[2] + Len(Frame(port, FALSE)) <= Depth

\* Hg of a thread the probe does not know is refused, of the current one is OK
Hg(id) ==
  /\ Halted /\ running
  /\ IF switcher = "None"
     THEN Refused /\ UNCHANGED <<mem, threads, mishaps>>
     ELSE \E unread \in Unread, fault \in Fault :
            LET c     == freertos_collect_information(unread)
                infos == {c.cache[i] : i \in {j \in DOMAIN c.cache : c.cache[j].id = id}}
                info  == CHOOSE x \in infos : TRUE
            IN
            /\ unread = {} \/ fault = "none"
            /\ Seen({k \in Mishap : \/ k = "wire" /\ (unread # {} \/ fault # "none")
                                    \/ k = "full" /\ c.full})
            /\ dirty' = FALSE /\ map' = c.map /\ index' = c.index
            /\ IF infos = {} THEN Refused /\ UNCHANGED mem /\ cache' = c.cache
               ELSE IF info.tcb = current
               THEN /\ selected' = current /\ cache' = c.cache
                    /\ UNCHANGED <<lists, current, top, core, version, mem>>
               ELSE /\ core[PortSP(port)][2] >= FrameSize(switcher) /\ Framed(info.top)
                    /\ freertos_switch_task(info, c, fault)
  /\ UNCHANGED <<port, fpu, switches, symbols, executing, switcher>>

-----------------------------------------------------------------------------
(* The rest of the session *)

\* Any resume: set_running(true)
Resume ==
  /\ Halted /\ index <= MaxIndex
  /\ executing' = TRUE /\ selected' = NoTask
  /\ freertos_invalidate_cache
  /\ UNCHANGED <<kernel, symbols, map, index, switcher, mishaps>>

\* A stop the poller sees: set_running(false)
Stop ==
  /\ executing /\ executing' = FALSE
  /\ freertos_invalidate_cache
  /\ UNCHANGED <<kernel, symbols, map, index, switcher, selected, mishaps>>

\* disconnect_cleanup() and the scans
Detach ==
  /\ ~executing
  /\ os_detach
  /\ selected' = NoTask
  /\ UNCHANGED <<kernel, asked, executing, mishaps>>

Next ==
  \/ \E t \in Tcb, to \in Lists : KernelSwitch(t, to) \/ KernelMove(t, to) \/ KernelCreate(t, to)
  \/ \E t \in Tcb : KernelDelete(t)
  \/ qSymbolReset \/ \E found \in BOOLEAN : qSymbol(found)
  \/ \E flavor \in Flavor : enable_freertos(flavor)
  \/ ThreadQuery
  \/ \E id \in 0..(MaxIndex + Cardinality(Tcb)) : Hg(id)
  \/ Resume \/ Stop \/ Detach

Spec == Init /\ [][Next]_vars

-----------------------------------------------------------------------------
\* The context of a task is in the core if it is the current one, else on its
\* stack
Intact(t) ==
  /\ t # current => Framed(top[t])
  /\ (IF t = current THEN core ELSE PortRestore(port, mem, top[t], core)) = Registers(t, version[t])

(* Whatever was shown to GDB and however often, each task keeps the context *)
(* it was stopped with: the current one in the core, the others on their    *)
(* stacks, where the port finds it (the switch handlers, freertos_switch()). *)
(* That leaves out the tasks whose frame holds FPU registers: the handlers  *)
(* save them a frame without.                                               *)
ContextsKept ==
  mishaps \cap {"wire", "layout"} = {} => \A t \in Live \ fpu : Intact(t)

(* The task that Hg said is selected is the current one of the kernel, and  *)
(* so the one whose registers GDB reads next (_Hg).                         *)
SelectedIsShown ==
  "wire" \notin mishaps /\ selected # NoTask => current = selected

(* While the target is stopped, the tasks read once are those of the kernel *)
(* and the stack pointers kept of them those their contexts are saved at,   *)
(* also after Hg has moved one (freertos_collect_information()).            *)
CacheIsFresh ==
  ~dirty /\ running /\ addresses["kernel"] = "known" /\ mishaps \cap {"wire", "full", "hidden", "symbols"} = {} =>
    /\ {cache[i].tcb : i \in DOMAIN cache} = Live
    /\ \A i \in DOMAIN cache : cache[i].tcb # current => cache[i].top = top[cache[i].tcb]

(* A task that has an id keeps it from query to query and from stop to     *)
(* stop, whichever others come and go, until the probe forgets all ids, as  *)
(* long as it sees all the tasks and has room for them (hashed_tcb).        *)
IdsAreStable ==
  [][mishaps' \cap {"wire", "full", "hidden"} = {} /\ map' # <<>> =>
       \A t \in Live \cap Live' : IdOf(map, t) # 0 => IdOf(map', t) = IdOf(map, t)]_vars
=============================================================================
