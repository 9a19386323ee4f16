----------------------------- MODULE RpcTarget -----------------------------
(***************************************************************************)
(* The probe's side of the remote procedure calls: the dispatch of a       *)
(* received body, what each command takes from it, the operation it runs   *)
(* (rpc_target_impl/, bmp_native.rs) and how it replies.  An operation is  *)
(* a name, its arguments and an outcome, which the hardware chooses.       *)
(***************************************************************************)
EXTENDS RpcProtocol

(* The outcome of an operation: what it returns, and a fault or 0. *)
Done(values)     == [fault |-> 0, values |-> values]
Failed(fault)    == [fault |-> fault, values |-> <<0>>]

(* Operations without a result, constants, and registers that always read. *)
Silent      == {Done(<<0>>)}
Fixed(v)    == {Done(<<v>>)}
Always      == {Done(<<w>>) : w \in Words}
(* Operations that may fail, without and with a value. *)
Tried       == Silent \cup {Failed(f) : f \in Faults}
Reading     == Always \cup {Failed(f) : f \in Faults}
(* A value and a fault are returned side by side. *)
SideBySide  == {[fault |-> f, values |-> <<w>>] : f \in Faults \cup {0},
                                                  w \in Words}
Bits        == {Done(<<b>>) : b \in {0, 1}}

(* voltage(): one or two digits, a point and one more digit. *)
VoltageText(t) ==
  LET left == t \div 10
  IN  (IF left >= 10 THEN <<48 + left \div 10>> ELSE <<>>)
        \o <<48 + (left % 10), 46, 48 + (t % 10)>>

Voltages == {Done(VoltageText(t)) : t \in Tenths}
LNBMP    == {Done(<<76, 78, 66, 77, 80>>)}

(* A block of the length asked for, if the probe moves that many. *)
Pattern(n) == [i \in 1..n |-> (37 * i) % 256]

BlockOf(length) ==
  IF length > BLOCK_LIMIT THEN {} ELSE {Done(Pattern(length))}

(* A command: what it takes from the body, the operation it runs, what the *)
(* operation may answer and how that is sent.                              *)
Command(takes, does, answers, replies) ==
  [takes |-> takes, does |-> does, answers |-> answers, replies |-> replies]

rpc_gen_impl ==
  [A |-> Command(<<>>, "start", LNBMP, "string"),
   V |-> Command(<<>>, "voltage", Voltages, "string"),
   Z |-> Command(<<"bool">>, "nrst_set", Silent, "ok"),
   z |-> Command(<<>>, "nrst_get", Bits, "u8"),
   E |-> Command(<<"bool">>, "target_clk_oe", Silent, "ok"),
   F |-> Command(<<"u32">>, "set_fq", Silent, "ok"),
   f |-> Command(<<>>, "get_fq", Always, "u32"),
   P |-> Command(<<"bool">>, "pwr_set", Silent, "ok"),
   p |-> Command(<<>>, "pwr_get", Fixed(0), "u8"),
   R |-> Command(<<>>, "gpio_reset", Silent, "ok")]

rpc_swdp_impl == [S |-> Command(<<>>, "init_swd", Silent, "ok")]

rpc_hl_impl ==
  [C |-> Command(<<>>, "check", Fixed(3), "u8"),
   A |-> Command(<<>>, "accel", Fixed(1), "u8")]

rpc_sdi_impl ==
  [S |-> Command(<<>>, "sdi_reset", Silent, "bool_32"),
   r |-> Command(<<"u8">>, "sdi_read", Reading, "bool_32"),
   w |-> Command(<<"u8", "u32">>, "sdi_write", Tried, "bool_32"),
   T |-> Command(<<"u32", "u32", "u32", "u32", "bool">>, "set_sdi_wire",
                 Silent, "ok")]

rpc_rv_impl ==
  [S |-> Command(<<>>, "rv_reset", Silent, "bool_32"),
   r |-> Command(<<"u8">>, "rv_read", Reading, "bool_32"),
   w |-> Command(<<"u8", "u32">>, "rv_write", Tried, "bool_32")]

rpc_lnadiv_impl ==
  [W |-> Command(<<"u16", "u32">>, "swd_write", Tried, "bool_32"),
   R |-> Command(<<"u16">>, "swd_read", Always, "bool_32"),
   A |-> Command(<<"u32", "u32">>, "raw_swd_write", Silent, "bool_32"),
   B |-> Command(<<"u8", "u16", "u32">>, "swd_raw_access", SideBySide,
                 "two")]

rpc_adiv5_impl ==
  [R |-> Command(<<"u8", "u8", "u16_be", "u32_be">>, "dp_low_level",
                 SideBySide, "two_or_fault"),
   d |-> Command(<<"u8", "u8", "u32_be">>, "dp_read", Reading, "adiv5_32"),
   a |-> Command(<<"u8", "u8", "u16_be">>, "ap_read", Always, "adiv5_32"),
   A |-> Command(<<"u8", "u8", "u16_be", "u32_be">>, "ap_write", Silent,
                 "adiv5_32"),
   m |-> Command(<<"u8", "u8", "u32_be", "u32_be", "u32_be">>, "mem_read",
                 {Failed(f) : f \in Faults}, "block"),
   M |-> Command(<<"u8", "u8", "u32_be", "u8", "u32_be", "u32_be", "end">>,
                 "mem_write", Tried, "adiv5_32")]

rpc_swindle_impl ==
  [C |-> Command(<<"u32", "u32">>, "crc32", Reading, "bool_32"),
   G |-> Command(<<>>, "get_fq", Always, "bool_32"),
   S |-> Command(<<"u32">>, "set_fq", Silent, "ok")]

Classes ==
  [G |-> rpc_gen_impl, S |-> rpc_swdp_impl, H |-> rpc_hl_impl,
   I |-> rpc_sdi_impl, B |-> rpc_rv_impl, L |-> rpc_lnadiv_impl,
   A |-> rpc_adiv5_impl, Z |-> rpc_swindle_impl]

-----------------------------------------------------------------------------
(* rpc_parameter_parser: how many characters a parameter takes, the last   *)
(* word at most those that are left, and what they stand for.  A boolean   *)
(* is a command byte: anything but '0' is true.                            *)
Width == [u8 |-> 2, u16 |-> 4, u16_be |-> 4, u32 |-> 8, u32_be |-> 8,
          bool |-> 1, end |-> 0]

next_u32_big(chars) == u8s_string_to_u32(chars)     \* a mutation
next_u32(chars)     == u8s_string_to_u32_le(chars)
next_u32_be(chars)  == u8s_string_to_u32(chars)
next_u8(chars)      == ascii_octet_to_hex(chars[1], chars[2])

next_u16_be(chars) ==
  256 * next_u8(SubSeq(chars, 1, 2)) + next_u8(SubSeq(chars, 3, 4))
next_u16(chars) ==
  next_u8(SubSeq(chars, 1, 2)) + 256 * next_u8(SubSeq(chars, 3, 4))

next_bool(chars) == IF chars[1] = 48 THEN 0 ELSE 1

NextParameter(how, chars) ==
  CASE how = "u8"     -> next_u8(chars)
    [] how = "u16"    -> next_u16(chars)
    [] how = "u16_be" -> next_u16_be(chars)
    [] how = "u32"    -> next_u32(chars)
    [] how = "u32_be" -> next_u32_be(chars)
    [] how = "bool"   -> next_bool(chars)
    [] how = "end"    -> u8_hex_string_to_u8s(chars)

Arguments(takes, data) ==
  LET from(i) == Sum([k \in 1..(i - 1) |-> Width[takes[k]]])
      to(i)   == IF takes[i] = "end" \/ Len(data) < from(i) + Width[takes[i]]
                 THEN Len(data) ELSE from(i) + Width[takes[i]]
  IN  [i \in 1..Len(takes) |->
         NextParameter(takes[i], SubSeq(data, from(i) + 1, to(i)))]

-----------------------------------------------------------------------------
(* Dispatch. *)

Letters(table, byte) == {l \in DOMAIN table : Ch[l] = byte}

(* Whether rpc_dispatch() finds a command for the body. *)
IsCommand(body) ==
  /\ Len(body) >= 2
  /\ \E class \in Letters(Classes, body[1]) :
       Letters(Classes[class], body[2]) # {}

CommandOf(body) ==
  LET class == CHOOSE l \in Letters(Classes, body[1]) : TRUE
      cmd   == CHOOSE l \in Letters(Classes[class], body[2]) : TRUE
  IN  Classes[class][cmd]

(* mem_read() and mem_write() refuse blocks that are too long before they  *)
(* touch the target; the fault is the last byte of -1.                     *)
Length(does, args) ==
  CASE does = "mem_read"  -> args[5]
    [] does = "mem_write" -> args[6]
    [] OTHER              -> 0

Refused(does, args) == Length(does, args) > BLOCK_LIMIT

Outcomes(command, args) ==
  IF Refused(command.does, args) THEN {Failed(255)}
  ELSE command.answers \cup
         (IF command.does = "mem_read" THEN BlockOf(args[5]) ELSE {})

-----------------------------------------------------------------------------
(* Replies. *)

rpc_reply_encoderOpen(code, chars) ==           \* a mutation
  <<RPC_REMOTE_RESP, code>> \o chars

rpc_reply_encoder(code, chars) ==
  <<RPC_REMOTE_RESP, code>> \o chars \o <<RPC_END>>

simple_error(fault) ==
  rpc_reply_encoder(RPC_RESP_ERR, add_u32_le(256 * fault + RPC_ERROR_FAULT))

rpc_reply_ok(v)          == rpc_reply_encoder(RPC_RESP_OK, u8_to_ascii(v))
rpc_reply32_le_ok(v)     == rpc_reply_encoder(RPC_RESP_OK, add_u32_le(v))
rpc_reply_string(chars)  == rpc_reply_encoder(RPC_RESP_OK, chars)
rpc_reply_hex_string(bs) == rpc_reply_encoder(RPC_RESP_OK, hexify(bs))

rpc_reply_bool_32le(o) ==
  IF o.fault # 0 THEN simple_error(1) ELSE rpc_reply32_le_ok(o.values[1])

reply_adiv5_32(o) ==
  IF o.fault # 0
  THEN rpc_reply_encoder(RPC_RESP_ERR,
         hexify(<<o.fault>> \o [i \in 1..9 |-> RPC_ERROR_FAULT]))
  ELSE rpc_reply32_le_ok(o.values[1])

(* The value and the fault of lowlevel() and raw_access_v3(). *)
ReplyTwo(o) ==
  rpc_reply_encoder(RPC_RESP_OK, add_u32_le(o.values[1]) \o add_u32_le(o.fault))

Replied(replies, o) ==
  CASE replies = "string"       -> rpc_reply_string(o.values)
    [] replies = "ok"           -> rpc_reply_encoder(RPC_RESP_OK, <<>>)
    [] replies = "u8"           -> rpc_reply_ok(o.values[1])
    [] replies = "u32"          -> rpc_reply32_le_ok(o.values[1])
    [] replies = "bool_32"      -> rpc_reply_bool_32le(o)
    [] replies = "adiv5_32"     -> reply_adiv5_32(o)
    [] replies = "two"          -> ReplyTwo(o)
    [] replies = "two_or_fault" -> IF o.fault # 0
                                   THEN simple_error(RPC_ERROR_FAULT)
                                   ELSE ReplyTwo(o)
    [] replies = "block"        -> IF o.fault # 0 THEN simple_error(o.fault)
                                   ELSE rpc_reply_hex_string(o.values)
=============================================================================
