----------------------------- MODULE CommandTrees -----------------------------
(***************************************************************************)
(* The trees of commands (commands/mod.rs and the modules beside it) and   *)
(* the dispatcher exec_one(): a row is taken if its name is a prefix of    *)
(* the command, the first such row of the tree.  A request is the words it *)
(* starts with at each level ("qRcmd", then what is behind it, then what   *)
(* is behind "rtt"), and the parameters of the last of them.               *)
(***************************************************************************)
EXTENDS Integers, Sequences, FiniteSetsExt

main_command_tree == <<"QStartNoAckMode", "!", "T", "Hg", "Hc", "vCont", "vFlash", "v", "q", "g",
  "?", "X", "m", "p", "P", "z", "Z", "R", "r", "s", "k", "c", "D">>
v_command_tree == <<"vMustReply", "vAttach", "vRun">>
vflash_command_tree == <<"vFlashErase", "vFlashWrite", "vFlashDone">>
q_command_tree == <<"qLaunchGDBServer", "qHostInfo", "qQueryGDBServer", "qGetWorkingDir",
  "qRegisterInfo", "qSymbol", "qSupported", "qXfer", "qTStatus", "qRcmd", "qAttached",
  "qfThreadInfo", "qsThreadInfo", "qThreadExtraInfo", "qP", "qCRC", "qC", "qOffsets">>
mon_command_tree == <<"breakpoint_info", "crash", "csr", "map", "redirect", "bmp", "boards", "delay",
  "enable_reset_pin", "frequency", "fq", "memlog", "fos", "freertos", "unset", "help", "test",
  "test2", "os_info", "ram", "arena", "stacks", "reboot", "reset", "rtt", "rvswdp_scan", "sdi_scan",
  "sdi_wire", "riscv_benchmark", "riscv_memory_benchmark", "riscv_stream", "riscv_confirm",
  "set_reset_pin", "set", "swdp_scan", "version", "voltage", "ws">>
rtt_command_tree == <<"help", "enable", "disable", "status">>
ch32vxx_command_tree == <<"ch32v3_obr", "ch32v3_option_byte">>

Names(tree) == {tree[i] : i \in DOMAIN tree}

\* require_connected
require_connected ==
  {"T", "Hg", "Hc", "vCont", "vFlash", "X", "m", "p", "P", "z", "Z", "R", "r", "s", "k", "c", "D",
   "vRun", "qRegisterInfo", "qSymbol", "qfThreadInfo", "qsThreadInfo", "qThreadExtraInfo", "qP",
   "qCRC", "breakpoint_info", "csr", "map", "fos", "freertos", "os_info", "enable"}
    \cup Names(vflash_command_tree) \cup Names(ch32vxx_command_tree)

\* min_args, where it is not zero
min_args(row) ==
  CASE row = "qXfer"                              -> 3
    [] row \in {"m", "P", "z", "Z", "vFlashErase"} -> 2
    [] row \in {"Hg", "p", "qRcmd", "csr", "redirect", "delay", "enable_reset_pin", "unset", "rtt",
                "sdi_wire", "set_reset_pin"}       -> 1
    [] OTHER                                       -> 0

\* The rows without a next_separator: what follows the name is one parameter
unsplit == {"vAttach", "p", "Hg", "T", "qRcmd", "rtt", "delay", "enable_reset_pin", "set_reset_pin",
            "bmp", "qRegisterInfo"}

\* The names that begin with that of another row of the same tree
Begins ==
  {<<n, "q">> : n \in Names(q_command_tree)}
    \cup {<<n, "v">> : n \in Names(v_command_tree) \cup Names(vflash_command_tree) \cup {"vCont", "vFlash"}}
    \cup {<<n, "vFlash">> : n \in Names(vflash_command_tree)}
    \cup {<<"set_reset_pin", "set">>, <<"test2", "test">>, <<"qCRC", "qC">>}

starts_with(command, row) == command = row \/ <<command, row>> \in Begins

None == "none"

\* The row that a tree has for a command
Row(tree, command) ==
  LET rows == {i \in DOMAIN tree : starts_with(command, tree[i])}
  IN  IF rows = {} THEN None ELSE tree[Min(rows)]

\* The rows whose handler looks a command up in a tree of its own
Subtree == [v |-> v_command_tree, q |-> q_command_tree, vFlash |-> vflash_command_tree]

\* _qRcmd(): the commands of the current target, where there are some, come first
MonTree(command, custom) ==
  IF custom /\ Row(ch32vxx_command_tree, command) # None THEN ch32vxx_command_tree ELSE mon_command_tree

\* The rows a request passes, up to the one whose handler it reaches or to None
Rows(request, custom) ==
  LET words == request.words
      a == Row(main_command_tree, words[1])
      b == IF a \in DOMAIN Subtree THEN <<Row(Subtree[a], words[1])>> ELSE <<>>
      c == IF b = <<"qRcmd">> /\ Len(words) > 1
           THEN <<Row(MonTree(words[2], custom), words[2])>> ELSE <<>>
      d == IF c = <<"rtt">> /\ Len(words) > 2 THEN <<Row(rtt_command_tree, words[3])>> ELSE <<>>
  IN  <<a>> \o b \o c \o d

\* The parameters exec_one() makes of those of a request: four at most
MAX_PARAMETERS == 4
conf(row, args) ==
  SubSeq(args, 1, Min({Len(args), IF row \in unsplit THEN 1 ELSE MAX_PARAMETERS}))

\* How many parameters a row of a request has: the words behind it are one
conf_len(request, rows, i) ==
  IF i < Len(rows) THEN 1 ELSE Len(conf(rows[i], request.args))

\* exec_one(), as far as the handler: "run", or why not
exec_one(request, connected, rows, i) ==
  CASE rows[i] = None                                        -> "unknown"
    [] rows[i] \in require_connected /\ ~connected           -> "not connected"
    [] conf_len(request, rows, i) < min_args(rows[i])        -> "few parameters"
    [] OTHER                                                 -> "run"

\* What becomes of a request: the handler it reaches, or why it reaches none
Dispatch(request, connected, custom) ==
  LET rows    == Rows(request, custom)
      refused == {i \in DOMAIN rows : exec_one(request, connected, rows, i) # "run"}
  IN  IF refused = {} THEN [handler |-> rows[Len(rows)], why |-> "run"]
      ELSE [handler |-> None, why |-> exec_one(request, connected, rows, Min(refused))]
=============================================================================
