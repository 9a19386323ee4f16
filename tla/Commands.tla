------------------------------- MODULE Commands -------------------------------
(***************************************************************************)
(* What the stub answers GDB, request by request: a request runs through   *)
(* the trees of commands (CommandTrees) to a handler of commands/*.rs, the *)
(* handler changes the state that lasts from one request to the next, and  *)
(* sends packets.  Beside it the host, which waits for the answer, answers *)
(* the symbols it is asked for, reads the documents of the target chunk by *)
(* chunk, and numbers the registers as the description says                *)
(* (TargetDescription).                                                    *)
(*                                                                         *)
(* A packet is "OK", "E01", "data" (any other answer), "empty" (not        *)
(* supported), "stop" or "O" (text for the console, one for the packets in *)
(* a row).                                                                 *)
(* What memory, breakpoints, flash and threads do is in their own modules; *)
(* here such a handler only succeeds or fails.                             *)
(***************************************************************************)
EXTENDS CommandTrees, TargetDescription, FiniteSets

CONSTANTS
  Kinds,                \* the kinds of target there may be, a subset of Kind
  Keys, Values,         \* the keys and values of "mon set"
  MAX_SETTING_ENTRIES,  \* 4 in the code
  OsSymbols,            \* the symbols of FreeRTOS that GDB is asked for
  Lengths               \* the lengths of a qXfer read

Kind == {"STM32F1", "CH32V003", "CH32V203", "CH32V307"}
RTT_SETTING_KEY == "RTT_ADDR"

ASSUME CommandAssumption ==
  /\ Kinds \subseteq Kind
  /\ RTT_SETTING_KEY \in Keys /\ "0" \in Values
  /\ MAX_SETTING_ENTRIES \in Nat \ {0} /\ OsSymbols \in Nat /\ Lengths \subseteq (Nat \ {0})

VARIABLES
  found,      \* the kind the last scan found, or None
  target,     \* the kind of the target that is attached, or None
  running,    \* the target runs, and the host waits for it to stop
  custom,     \* targetCommandTree is set
  settings,   \* the map of settings
  line,       \* symbol_indeces: how many symbols were asked for
  wire,       \* the wire timing of the SDI tap
  autoreset,  \* the atomic of that name
  told,       \* for each key the value the host means it to have (history)
  refused,    \* the keys there was no room for (history)
  reading,    \* the document the host reads, and how much of it it has (history)
  last        \* the request the stub executes, its handler and what it sends

stub == <<found, target, running, custom, settings, line, wire, autoreset>>
vars == <<stub, told, refused, reading, last>>

isa(kind) ==
  CASE kind = "STM32F1" -> "arm" [] kind = "CH32V003" -> "Rv32e"
    [] kind = "CH32V203" -> "Rv32i" [] kind = "CH32V307" -> "Rv32iSingleFpu"

\* add_target_commands(): the kinds with a tree of their own
has_commands(kind) == kind \in {"CH32V203", "CH32V307"}

bmp_is_riscv == isa(target) \in RiscvIsa

\* A request and what becomes of it; register is the one a "p" or "P" accessed
Idle == [request |-> [words |-> <<>>, args |-> <<>>], handler |-> None, sent |-> <<>>, register |-> <<>>]
NotReading == [object |-> None, got |-> 0, same |-> TRUE, over |-> FALSE]

Init ==
  /\ found = None /\ target = None /\ running = FALSE /\ custom = FALSE
  /\ settings = <<>> /\ line = 0 /\ wire = "default" /\ autoreset = TRUE
  /\ told = [k \in Keys |-> "0"] /\ refused = {}
  /\ reading = NotReading /\ last = Idle

-----------------------------------------------------------------------------
(* settings.rs                                                             *)

get_or_default(store, k) == IF k \in DOMAIN store THEN store[k] ELSE "0"
setKeepsOld(store, k, v) ==                                      \* a mutation
  IF k \in DOMAIN store \/ Cardinality(DOMAIN store) = MAX_SETTING_ENTRIES THEN store
  ELSE [x \in DOMAIN store \cup {k} |-> IF x = k THEN v ELSE store[x]]
set(store, k, v) ==
  IF k \notin DOMAIN store /\ Cardinality(DOMAIN store) = MAX_SETTING_ENTRIES THEN store
  ELSE [x \in DOMAIN store \cup {k} |-> IF x = k THEN v ELSE store[x]]
remove(store, k) == [x \in DOMAIN store \ {k} |-> store[x]]

\* The host means k to be v, and the map keeps that or has no room
SetKey(k, v) ==
  /\ settings' = set(settings, k, v)
  /\ told' = [told EXCEPT ![k] = v]
  /\ refused' = IF k \in DOMAIN settings' THEN refused \ {k} ELSE refused \cup {k}
RemoveKey(k) ==
  /\ settings' = remove(settings, k)
  /\ told' = [told EXCEPT ![k] = "0"]
  /\ refused' = refused \ {k}

-----------------------------------------------------------------------------
(* The requests.                                                           *)

Containers == {"v", "q", "vFlash", "qRcmd", "rtt"}

\* The words of a request: one for every row that has a handler of its own, and
\* one that no tree has.  "crash" crashes the probe.
Words ==
  {<<n>> : n \in (Names(main_command_tree) \cup Names(v_command_tree) \cup Names(q_command_tree)
                    \cup Names(vflash_command_tree) \cup {"unknown"}) \ Containers}
    \cup {<<"qRcmd", n>> : n \in (Names(mon_command_tree) \cup Names(ch32vxx_command_tree)
                                    \cup {"unknown"}) \ (Containers \cup {"crash"})}
    \cup {<<"qRcmd", "rtt", n>> : n \in Names(rtt_command_tree)}

\* The parameters that the last word is tried with, where they matter
ArgsOf(word) ==
  CASE word = "set"     -> {<<>>} \cup {<<k>> : k \in Keys} \cup {<<k, v>> : k \in Keys, v \in Values}
    [] word = "unset"   -> {<<>>} \cup {<<k>> : k \in Keys}
    [] word = "sdi_wire" -> {<<>>, <<"t">>, <<"t", "1", "0", "s">>, <<"t", "1", "0", "s", "notrim">>}
    [] word = "csr"     -> {<<>>, <<"mepc">>, <<"bad">>, <<"mepc", "1">>, <<"mepc", "bad">>}
    [] word \in {"delay", "fq", "frequency"} -> {<<>>, <<"blank">>, <<"1">>}
    [] word \in {"X", "vFlashWrite"}         -> {<<"good">>, <<"bad">>}
    [] word \in {"ch32v3_obr", "ch32v3_option_byte"} -> {<<>>, <<"good">>, <<"bad">>}
    [] word \in {"enable_reset_pin", "set_reset_pin"} -> {<<>>, <<"on">>, <<"off">>}
    [] word = "qSymbol" -> {<<"empty">>, <<"empty", "empty">>}
    [] word = "qXfer"   -> {<<"features", "read", "other", "0,1">>,
                            <<"features", "read", "target.xml", "0,1">>,
                            <<"memory-map", "read", "empty", "0,1">>,
                            <<"features", "read", "target.xml", "0">>,
                            <<"memory-map", "read", "empty", "0">>, <<"features">>}
    [] word \in {"p", "P"} -> {<<>>}
    [] word \in {"vCont"}  -> {<<>>, <<"?">>, <<"c">>, <<"s">>, <<"t">>, <<"r">>, <<"empty">>}
    [] word \in {"m", "z", "Z", "vFlashErase", "qCRC"} -> {<<"1">>, <<"1", "4">>}
    [] word \in {"T", "bmp"} -> {<<"1">>}
    [] word \in {"vAttach", "Hg", "redirect"} -> {<<>>, <<"1">>}
    [] OTHER -> {<<>>}

Requests == UNION {{[words |-> w, args |-> a] : a \in ArgsOf(w[Len(w)])} : w \in Words}

-----------------------------------------------------------------------------
(* The handlers without a state of their own: what they may send.          *)

Succeeds == {"QStartNoAckMode", "!", "redirect", "test2", "reset", "enable", "disable"}
\* They print, and succeed: about the probe and the kernel of the target, the
\* RISC-V transport, the probe's build, the wire, the target, RTT
Reports       == {"os_info", "fos", "freertos", "ram", "arena", "stacks"}
RiscvReports  == {"riscv_stream", "riscv_confirm"}
BuildReports  == {"help", "boards", "voltage", "version"}
WireReports   == {"ws", "memlog"}
TargetReports == {"map", "breakpoint_info"}
Prints == Reports \cup RiscvReports \cup BuildReports \cup WireReports \cup TargetReports \cup {"status"}
\* They succeed or fail: reply_bool()
Tries == {"T", "Hg", "z", "Z", "R", "r", "bmp", "vFlashErase", "vFlashDone"}
Benchmarks == {"riscv_benchmark", "riscv_memory_benchmark"}
\* They tell something
HostTells   == {"qLaunchGDBServer", "qHostInfo", "qRegisterInfo", "qAttached", "qOffsets", "qSupported"}
TargetTells == {"g", "m", "?", "qfThreadInfo", "qsThreadInfo", "qC"}
Tells       == HostTells \cup TargetTells
SaysNothing == {"vMustReply", "qQueryGDBServer", "qGetWorkingDir"}

_csr(args) ==
  IF ~bmp_is_riscv \/ \E i \in DOMAIN args : args[i] = "bad" THEN {<<"O", "E01", "empty">>}
  ELSE {<<"O", "OK">>, <<"O", "E01", "empty">>}

_fq(args) ==
  IF args = <<"blank">> THEN {<<"O", "empty">>} ELSE {<<"O", "OK">>}
_delay(args) == IF args = <<"blank">> THEN {<<"O", "empty">>} ELSE {<<"OK">>}

_qCRC(args) == IF Len(args) # 2 THEN {<<"E01">>} ELSE {<<"data">>, <<"E01", "empty">>}

\* The read may fail, at the option bytes or at the registers; a value that does
\* not look right is refused, and writing OBR is not implemented
_ch32v3_obr(args) == IF args = <<>> THEN {<<"O", "OK">>, <<"O", "empty">>} ELSE {<<"O", "empty">>}
_ch32v3_option_byte(args) ==
  IF args = <<>> THEN {<<"O", "OK">>, <<"O", "empty">>}
  ELSE IF args = <<"bad">> THEN {<<"O", "empty">>} ELSE {<<"OK">>}

\* A qXfer that names no document, no window of one, or that of no target
_qXfer(args) ==
  CASE args[3] = "other"                  -> {<<"empty">>}
    [] args[4] = "0" \/ target = None      -> {<<"E01">>}
    [] OTHER                              -> {}

Answers(h, args) ==
  CASE h \in Succeeds    -> {<<"OK">>}
    [] h \in Prints      -> {<<"O", "OK">>}
    [] h \in Tries       -> {<<"OK">>, <<"E01">>}
    [] h \in Benchmarks  -> IF target # None /\ bmp_is_riscv THEN {<<"O", "OK">>, <<"O", "E01">>} ELSE {<<"O", "E01">>}
    [] h \in Tells       -> {<<"data">>}
    [] h \in SaysNothing \cup {"qTStatus"} -> {<<"empty">>}
    [] h \in {"Hc", "qP"} -> {<<"E01">>}
    [] h = "qThreadExtraInfo" -> {<<"data">>, <<"E01">>}
    [] h = "X"           -> IF args = <<"bad">> THEN {<<"empty">>} ELSE {<<"OK">>, <<"E01">>}
    [] h = "vFlashWrite" -> IF args = <<"bad">> THEN {<<"E01">>} ELSE {<<"OK">>, <<"E01">>}
    [] h = "csr"         -> _csr(args)
    [] h \in {"fq", "frequency"} -> _fq(args)
    [] h = "delay"       -> _delay(args)
    [] h = "qCRC"        -> _qCRC(args)
    [] h = "ch32v3_obr"  -> _ch32v3_obr(args)
    [] h = "ch32v3_option_byte" -> _ch32v3_option_byte(args)
    [] h = "set_reset_pin" -> {<<"OK", "O">>}
    [] h = "k"           -> IF autoreset THEN {<<"OK">>, <<"E01">>} ELSE {<<"O", "OK">>}
    [] h = "test"        -> {<<>>}
    [] h = "qXfer"       -> _qXfer(args)
    [] OTHER             -> {}

Reply(r, h, packets) ==
  last' = [request |-> r, handler |-> h, sent |-> packets, register |-> <<>>]

Answer(r, h, args) ==
  /\ \E packets \in Answers(h, args) : Reply(r, h, packets)
  /\ UNCHANGED <<stub, told, refused, reading>>

-----------------------------------------------------------------------------
(* The handlers that change the state.                                     *)

\* common_scan(), _sdi_scan(): the targets are freed; the commands of the one
\* that was attached stay
_scan(r, h) ==
  /\ h \in {"swdp_scan", "rvswdp_scan", "sdi_scan"}
  /\ target' = None
  /\ found' \in Kinds \cup {None}
  /\ Reply(r, h, IF found' = None THEN <<"empty">> ELSE <<"OK">>)
  /\ UNCHANGED <<running, custom, settings, line, wire, autoreset, told, refused, reading>>

add_target_commandsKeeps(kind) == custom' = (custom \/ has_commands(kind))   \* a mutation
add_target_commands(kind) == custom' = has_commands(kind)

AttachSucceeds(r) ==
  /\ found # None
  /\ target' = found
  /\ add_target_commands(found)
  /\ Reply(r, "vAttach", <<"stop">>)
  /\ UNCHANGED <<found, running, settings, line, wire, autoreset, told, refused, reading>>

\* reset_symbols(), clear_custom_target_command()
AttachFails(r) ==
  /\ target' = None
  /\ custom' = FALSE
  /\ line' = 0
  /\ RemoveKey(RTT_SETTING_KEY)
  /\ Reply(r, "vAttach", <<"E01">>)
  /\ UNCHANGED <<found, running, wire, autoreset, reading>>

_vAttach(r, h, args) ==
  /\ h = "vAttach"
  /\ \/ Len(args) # 1 /\ Reply(r, h, <<"empty">>) /\ UNCHANGED <<stub, told, refused, reading>>
     \/ Len(args) = 1 /\ (AttachSucceeds(r) \/ AttachFails(r))

\* _D(): disconnect_cleanup(), attached or not
_D(r, h) ==
  /\ h = "D"
  /\ target' = None
  /\ custom' = FALSE
  /\ Reply(r, h, <<"OK">>)
  /\ UNCHANGED <<found, running, settings, line, wire, autoreset, told, refused, reading>>

\* vRun(): the target is reset, and reported as stopped
vRun(r, h) ==
  /\ h = "vRun"
  /\ running' = FALSE
  /\ Reply(r, h, <<"stop">>)
  /\ UNCHANGED <<found, target, custom, settings, line, wire, autoreset, told, refused, reading>>

\* _vCont(), _c() and _s(): "s" alone has no parameters, as "c"
Resumes(h, args) ==
  \/ h \in {"c", "s"}
  \/ h = "vCont" /\ (args = <<>> \/ args[1] \in {"c", "s"})

\* "vCont?", the "t" that is not supported, and what else it does not know
_vContRefuses(args) ==
  CASE args = <<"?">> -> <<"data">> [] args = <<"t">> -> <<"E01">> [] OTHER -> <<"empty">>

_vContAnswers(r, h, args) ==                                     \* a mutation
  /\ h \in {"vCont", "c", "s"}
  /\ running' = Resumes(h, args)
  /\ Reply(r, h, IF Resumes(h, args) THEN <<"OK">> ELSE <<"empty">>)
  /\ UNCHANGED <<found, target, custom, settings, line, wire, autoreset, told, refused, reading>>
_vCont(r, h, args) ==
  /\ h \in {"vCont", "c", "s"}
  /\ running' = Resumes(h, args)
  /\ Reply(r, h, IF Resumes(h, args) THEN <<>> ELSE _vContRefuses(args))
  /\ UNCHANGED <<found, target, custom, settings, line, wire, autoreset, told, refused, reading>>

\* rngdbstub_poll(), target_halt(): the target stops, by itself or asked to
Stops ==
  /\ running
  /\ running' = FALSE
  /\ last' = [last EXCEPT !.sent = Append(@, "stop")]
  /\ UNCHANGED <<found, target, custom, settings, line, wire, autoreset, told, refused, reading>>

_set(r, h, args) ==
  /\ h = "set"
  /\ \/ /\ Len(args) = 2
        /\ SetKey(args[1], args[2])
        /\ Reply(r, h, <<"OK">>)
     \/ /\ Len(args) # 2
        /\ Reply(r, h, IF args = <<>> THEN <<"O", "OK">> ELSE <<"empty">>)
        /\ UNCHANGED <<settings, told, refused>>
  /\ UNCHANGED <<found, target, running, custom, line, wire, autoreset, reading>>

_unset(r, h, args) ==
  /\ h = "unset"
  /\ \/ args[1] \in DOMAIN settings /\ RemoveKey(args[1]) /\ Reply(r, h, <<"OK">>)
     \/ args[1] \notin DOMAIN settings /\ Reply(r, h, <<"O", "empty">>)
          /\ UNCHANGED <<settings, told, refused>>
  /\ UNCHANGED <<found, target, running, custom, line, wire, autoreset, reading>>

_enable_reset_pin(r, h, args) ==
  /\ h = "enable_reset_pin"
  /\ autoreset' = (args = <<"on">>)
  /\ Reply(r, h, <<"OK", "O">>)
  /\ UNCHANGED <<found, target, running, custom, settings, line, wire, told, refused, reading>>

\* _sdi_wire(): the timing, trimmed onto the cell but if the fifth parameter
\* says not to
_sdi_wire(r, h, args) ==
  /\ h = "sdi_wire"
  /\ wire' = IF Len(args) < 4 THEN wire
             ELSE IF Len(args) > 4 /\ args[5] = "notrim" THEN "untrimmed" ELSE "trimmed"
  /\ Reply(r, h, <<"O", "OK">>)
  /\ UNCHANGED <<found, target, running, custom, settings, line, autoreset, told, refused, reading>>

\* _reboot(): systemReset() restarts the probe, and all of it is forgotten
_reboot(h) ==
  /\ h = "reboot"
  /\ found' = None /\ target' = None /\ running' = FALSE /\ custom' = FALSE
  /\ settings' = <<>> /\ line' = 0 /\ wire' = "default" /\ autoreset' = TRUE
  /\ told' = [k \in Keys |-> "0"] /\ refused' = {}
  /\ reading' = NotReading /\ last' = Idle

-----------------------------------------------------------------------------
(* symbols.rs: the symbols of FreeRTOS are asked for, then that of RTT.    *)

NB_OF_SYMBOLS == OsSymbols + 1

\* ascii_hex_to_u32(): a symbol GDB does not know comes as an empty text
ascii_hex_to_u32(text) == IF text = "empty" THEN "0" ELSE text

\* q_symbols(): two empty parameters start a new search
StartSymbols(r, args) ==
  /\ args = <<"empty", "empty">>
  /\ line' = 0
  /\ RemoveKey(RTT_SETTING_KEY)
  /\ Reply(r, "qSymbol", <<"data">>)

\* rtt_processing() keeps the value; what FreeRTOS makes of its own is in
\* FreeRtosThreads
q_symbols(r, args) ==
  /\ line < NB_OF_SYMBOLS
  /\ line' = line + 1
  /\ IF line = OsSymbols THEN SetKey(RTT_SETTING_KEY, ascii_hex_to_u32(args[1]))
     ELSE UNCHANGED <<settings, told, refused>>
  /\ Reply(r, "qSymbol", IF line' < NB_OF_SYMBOLS THEN <<"data">> ELSE <<"OK">>)

_qSymbol(r, h, args) ==
  /\ h = "qSymbol"
  /\ \/ /\ Len(args) # 2 /\ Reply(r, h, <<"O", "OK">>)
        /\ UNCHANGED <<line, settings, told, refused>>
     \/ Len(args) = 2 /\ StartSymbols(r, args)
  /\ UNCHANGED <<found, target, running, custom, wire, autoreset, reading>>

-----------------------------------------------------------------------------
\* exec(): a request, from the trees to its answer
exec(r, d) ==
  LET h    == d.handler
      args == conf(h, r.args)
  IN
  \/ /\ d.why # "run"
     /\ Reply(r, h, IF d.why = "not connected" THEN <<"O", "E01">> ELSE <<"empty">>)
     /\ UNCHANGED <<stub, told, refused, reading>>
  \/ /\ d.why = "run"
     /\ \/ Answer(r, h, args)
        \/ _scan(r, h) \/ _vAttach(r, h, args) \/ _D(r, h) \/ vRun(r, h) \/ _vCont(r, h, args)
        \/ _set(r, h, args) \/ _unset(r, h, args) \/ _enable_reset_pin(r, h, args)
        \/ _sdi_wire(r, h, args) \/ _reboot(h) \/ _qSymbol(r, h, args)

-----------------------------------------------------------------------------
(* The host: one request at a time.                                        *)

\* The last answer asks for a symbol, which GDB looks up at once
Asks == last.handler = "qSymbol" /\ last.sent = <<"data">>

\* The requests, each with what the trees make of it
Dispatched ==
  [connected \in BOOLEAN |-> [tree \in BOOLEAN |-> {<<r, Dispatch(r, connected, tree)>> : r \in Requests}]]

Request ==
  /\ last = Idle /\ reading = NotReading
  /\ \E x \in Dispatched[target # None][custom] : exec(x[1], x[2])

AnswerSymbol ==
  /\ Asks
  /\ \E v \in Values \cup {"empty"} : q_symbols([words |-> <<"qSymbol">>, args |-> <<v, "name">>], <<v, "name">>)
  /\ UNCHANGED <<found, target, running, custom, wire, autoreset, reading>>

\* GDB reads both documents once it has attached
Begin(object) == [NotReading EXCEPT !.object = object]

Receive ==
  /\ last # Idle /\ ~running /\ ~Asks
  /\ last' = Idle
  /\ reading' = CASE last.handler = "vAttach" /\ last.sent = <<"stop">> -> Begin("features")
                  [] reading.over /\ reading.object = "features"       -> Begin("memory-map")
                  [] reading.over /\ reading.object = "memory-map"     -> NotReading
                  [] OTHER                                            -> reading
  /\ UNCHANGED <<stub, told, refused>>

\* _qXfer_features_regs() and _qXfer_memory_map(): a window of the document, as
\* it is now, and whether it is the last
ReadDocument(length) ==
  LET object     == reading.object
      start      == reading.got
      reply_size == XmlLen[object, isa(target)]
      chunk      == XmlChunk(object, isa(target), start, length)
  IN
  /\ last = Idle /\ reading # NotReading
  /\ Reply([words |-> <<"qXfer">>, args |-> <<object>>], "qXfer", <<"data">>)
  /\ reading' = [object |-> object, got |-> start + Len(chunk), over |-> reply_size - start <= length,
                 same |-> reading.same
                          /\ chunk = SubSeq(FlattenSeq(Documents[object, isa(target)]), start + 1, start + Len(chunk))]
  /\ UNCHANGED <<stub, told, refused>>

\* _p() and _P(), with the number that GDB gives the i-th register of the
\* description of a RISC-V target
AccessRegister ==
  /\ last = Idle /\ reading = NotReading /\ target # None
  /\ bmp_is_riscv
  /\ \E h \in {"p", "P"}, i \in DOMAIN registers[isa(target)], ok \in BOOLEAN :
       last' = [request |-> [words |-> <<h>>, args |-> <<i>>], handler |-> h,
                sent |-> IF ~ok THEN <<"E01">> ELSE IF h = "p" THEN <<"data">> ELSE <<"OK">>,
                register |-> hart_register(isa(target), Numbers[isa(target)][i])]
  /\ UNCHANGED <<stub, told, refused, reading>>

Next ==
  \/ Request \/ AnswerSymbol \/ Receive \/ Stops
  \/ \E length \in Lengths : ReadDocument(length)
  \/ AccessRegister

Spec == Init /\ [][Next]_vars

-----------------------------------------------------------------------------
TypeOK ==
  /\ found \in Kinds \cup {None} /\ target \in Kinds \cup {None}
  /\ running \in BOOLEAN /\ custom \in BOOLEAN /\ autoreset \in BOOLEAN
  /\ DOMAIN settings \subseteq Keys /\ Cardinality(DOMAIN settings) <= MAX_SETTING_ENTRIES
  /\ \A k \in DOMAIN settings : settings[k] \in Values
  /\ line \in 0..NB_OF_SYMBOLS
  /\ wire \in {"default", "trimmed", "untrimmed"}
  /\ told \in [Keys -> Values] /\ refused \subseteq Keys
  /\ reading.got \in Nat /\ reading.same \in BOOLEAN /\ reading.over \in BOOLEAN
  /\ last.sent \in Seq({"OK", "E01", "data", "empty", "stop", "O"})

\* The handlers that answer twice when they fail (reply_e01() and false), that
\* answer before they print, and that never answer
AnswersTwice == {"csr", "qCRC"}
PrintsLate   == {"enable_reset_pin", "set_reset_pin"}
NeverAnswers == {"test"}

\* h is answered with these packets once, and with nothing after it
Answered(h, packets) ==
  LET answers == {i \in DOMAIN packets : packets[i] # "O"}
      fails   == \E i, j \in answers : packets[i] = "E01" /\ packets[j] = "empty"
  IN  /\ Cardinality(answers) = CASE h \in NeverAnswers -> 0
                                   [] h \in AnswersTwice /\ fails -> 2
                                   [] OTHER -> 1
      /\ answers # {} /\ h \notin PrintsLate => packets[Len(packets)] # "O"

(* GDB gets one answer to every request, whichever tree it ends in and     *)
(* however far it gets, and nothing after it: exec_one() and its handlers  *)
(* share the answer, each by what it sends and by what it returns.  A      *)
(* request to run is answered when the target stops.  The handlers that do *)
(* otherwise are named.                                                    *)
OneReply == last # Idle /\ ~running => Answered(last.handler, last.sent)

(* The commands of a CH32V2/V3 never reach another target, although the    *)
(* tree of them outlives scans, attaches and detaches (add_target_commands *)
(* and clear_custom_target_command at commands/mon.rs).                    *)
CustomOnTarget == last.handler \in Names(ch32vxx_command_tree) => has_commands(target)

(* What the host sets, unsets or resolves of RTT's symbol is what the stub *)
(* reads back, as long as the map has had room for it.                     *)
SettingsKept == \A k \in Keys \ refused : get_or_default(settings, k) = told[k]

(* The register that "p" or "P" accesses is the one the description gave   *)
(* the number to, and "g" lists the first of them in the same order.       *)
RegisterMeant ==
  target # None /\ bmp_is_riscv =>
    LET regs == registers[isa(target)] IN
    /\ last.register # <<>> => last.register = Meant(regs[last.request.args[1]].name)
    /\ last.handler = "g" =>
         \A i \in DOMAIN hart_registers(isa(target)) : hart_registers(isa(target))[i] = Meant(regs[i].name)

(* The windows of qXfer put together are the document, whatever their      *)
(* length, and the last one is announced as such.                          *)
DocumentRead ==
  /\ reading.same
  /\ reading.over => reading.got = XmlLen[reading.object, isa(target)]
===============================================================================
