---------------------------- MODULE RpcProtocol ----------------------------
(***************************************************************************)
(* The remote procedure calls of a hosted build: what each stub on the     *)
(* host sends and what it makes of the reply (rpc_host_generated.rs,       *)
(* remote_rpc.rs, transport.rs), what each command of the probe takes,     *)
(* does and answers (rpc_target_generated.rs, rpc_target_impl/,            *)
(* rpc_reply.rs).  Both sides are generated from rpc_protocol.toml or      *)
(* written by hand; the tables are written here once for each side.        *)
(***************************************************************************)
EXTENDS PacketCodec

CONSTANTS
  RPC_BUFFER_SIZE,   \* bytes of a reply the host has room for (512)
  BLOCK_LIMIT,       \* bytes of a block the probe agrees to move (1024)
  Words,             \* what a register of the target may hold
  Tenths,            \* voltages of the target, in tenths of a volt
  Faults             \* what an access that fails reports, never 0

\* An answer that is no block fits: a letter, at most two words, and '#'
ASSUME RpcAssumption ==
  /\ RPC_BUFFER_SIZE \in Nat /\ RPC_BUFFER_SIZE >= 18
  /\ BLOCK_LIMIT \in Nat
  /\ Words \subseteq Word32 /\ Tenths \subseteq Nat
  /\ Faults \subseteq 1..255

(* The letters of rpc_common_generated.rs. *)
Ch == [A |-> 65, B |-> 66, C |-> 67, E |-> 69, F |-> 70, G |-> 71, H |-> 72,
       I |-> 73, L |-> 76, M |-> 77, P |-> 80, R |-> 82, S |-> 83, T |-> 84,
       V |-> 86, W |-> 87, X |-> 88, Z |-> 90, a |-> 97, d |-> 100,
       f |-> 102, m |-> 109, p |-> 112, r |-> 114, w |-> 119, z |-> 122]

RPC_RESP_OK     == 75   \* 'K'
RPC_RESP_ERR    == 69   \* 'E'
RPC_REMOTE_RESP == 38   \* '&'
RPC_ERROR_FAULT == 3

-----------------------------------------------------------------------------
(* The host.  A stub names its class and command, how it encodes its       *)
(* parameters, what it makes of the reply, and the operation of the probe  *)
(* it stands for.                                                          *)

Stub(class, cmd, sends, reads, means) ==
  [class |-> class, cmd |-> cmd, sends |-> sends, reads |-> reads,
   means |-> means]

HostGen ==
  [remote_gen_start         |-> Stub("G", "A", <<>>, "u32", "start"),
   remote_gen_voltage       |-> Stub("G", "V", <<>>, "reply", "voltage"),
   remote_gen_nrst_set      |-> Stub("G", "Z", <<"bool">>, "ok", "nrst_set"),
   remote_gen_nrst_get      |-> Stub("G", "z", <<>>, "u8", "nrst_get"),
   remote_gen_target_clk_oe |-> Stub("G", "E", <<"bool">>, "ok",
                                     "target_clk_oe"),
   remote_gen_freq_set      |-> Stub("G", "F", <<"u32_le">>, "ok", "set_fq"),
   remote_gen_freq_get      |-> Stub("G", "f", <<>>, "u32", "get_fq"),
   remote_gen_pwr_set       |-> Stub("G", "P", <<"bool">>, "ok", "pwr_set"),
   remote_gen_pwr_get       |-> Stub("G", "p", <<>>, "u8", "pwr_get"),
   remote_gen_gpio_reset    |-> Stub("G", "R", <<>>, "ok", "gpio_reset")]

HostSwdp == [remote_swdp_init |-> Stub("S", "S", <<>>, "ok", "init_swd")]

HostHl ==
  [remote_hl_check |-> Stub("H", "C", <<>>, "u8", "check"),
   remote_hl_accel |-> Stub("H", "A", <<>>, "u8", "accel")]

HostSdi ==
  [remote_sdi_reset    |-> Stub("I", "S", <<>>, "word", "sdi_reset"),
   remote_sdi_dm_read  |-> Stub("I", "r", <<"u8_hex">>, "word", "sdi_read"),
   remote_sdi_dm_write |-> Stub("I", "w", <<"u8_hex", "u32_le">>, "word",
                                "sdi_write"),
   remote_sdi_set_wire |-> Stub("I", "T", <<"u32_le", "u32_le", "u32_le",
                                "u32_le", "bool">>, "ok", "set_sdi_wire")]

HostRv ==
  [remote_rv_reset    |-> Stub("B", "S", <<>>, "word", "rv_reset"),
   remote_rv_dm_read  |-> Stub("B", "r", <<"u8_hex">>, "word", "rv_read"),
   remote_rv_dm_write |-> Stub("B", "w", <<"u8_hex", "u32_le">>, "word",
                               "rv_write")]

HostLnadiv ==
  [remote_lnadiv_write     |-> Stub("L", "W", <<"u16_le", "u32_le">>, "word",
                                    "swd_write"),
   remote_lnadiv_read      |-> Stub("L", "R", <<"u16_le">>, "word",
                                    "swd_read"),
   remote_lnadiv_raw_write |-> Stub("L", "A", <<"u32_le", "u32_le">>, "word",
                                    "raw_swd_write"),
   remote_lnadiv_lowlevel  |-> Stub("L", "B", <<"u8_hex", "u16_le",
                                    "u32_le">>, "access", "swd_raw_access")]

HostAdiv5 ==
  [remote_adiv5_raw_access_v3 |->
     Stub("A", "R", <<"u8_hex", "u8_hex", "u16_be", "u32_be">>, "access_v3",
          "dp_low_level"),
   remote_adiv5_dp_read   |-> Stub("A", "d", <<"u8_hex", "u8_hex", "u32_be">>,
                                   "adiv", "dp_read"),
   remote_adiv5_ap_read   |-> Stub("A", "a", <<"u8_hex", "u8_hex", "u16_be">>,
                                   "adiv", "ap_read"),
   remote_adiv5_ap_write  |-> Stub("A", "A", <<"u8_hex", "u8_hex", "u16_be",
                                   "u32_be">>, "adiv", "ap_write"),
   remote_adiv5_mem_read  |-> Stub("A", "m", <<"u8_hex", "u8_hex", "u32_be",
                                   "u32_be", "length">>, "block", "mem_read"),
   remote_adiv5_mem_write |-> Stub("A", "M", <<"u8_hex", "u8_hex", "u32_be",
                                   "u8_hex", "u32_be", "length", "hex">>,
                                   "adiv", "mem_write")]

HostSwindle ==
  [remote_swindle_crc32  |-> Stub("Z", "C", <<"u32_le", "u32_le">>, "word",
                                  "crc32"),
   remote_swindle_get_fq |-> Stub("Z", "G", <<>>, "word", "get_fq"),
   remote_swindle_set_fq |-> Stub("Z", "S", <<"u32_le">>, "ok", "set_fq")]

(* The stubs written by hand, as the C code of the hosted build calls them. *)
HostByHand ==
  [bmp_set_frequency_c   |-> Stub("Z", "S", <<"u32_le">>, "ok8", "set_fq"),
   bmp_get_frequency_c   |-> Stub("Z", "G", <<>>, "u32", "get_fq"),
   remote_ch32_riscv_dmi_reset_rs |-> Stub("B", "S", <<>>, "ok8", "rv_reset"),
   remote_ch32_riscv_dmi_read_rs  |-> Stub("B", "r", <<"u8_hex">>, "word",
                                           "rv_read"),
   remote_ch32_riscv_dmi_write_rs |-> Stub("B", "w", <<"u8_hex", "u32_le">>,
                                           "ok8", "rv_write"),
   remote_crc32          |-> Stub("Z", "C", <<"u32_le", "u32_le">>, "word",
                                  "crc32"),
   bmp_gpio_reset_c      |-> Stub("G", "R", <<>>, "ignored", "gpio_reset")]

HostSwd ==
  [remote_adiv5_swd_write_no_check_rs |->
     Stub("L", "W", <<"u16_le", "u32_le">>, "ok8", "swd_write"),
   remote_raw_swd_write_rs |->
     Stub("L", "A", <<"u32_le", "u32_le">>, "ignored", "raw_swd_write"),
   remote_adiv5_swd_read_no_check_rs |->
     Stub("L", "R", <<"u16_le">>, "u32", "swd_read"),
   remote_adiv5_swd_raw_access_rs |->
     Stub("L", "B", <<"u8_hex", "u16_le", "u32_le">>, "access_rs",
          "swd_raw_access")]

(* remote_pin_gen() of hosted/src/stubs.cpp: no command of the probe. *)
HostPins ==
  [remote_pin_direction |-> Stub("G", "X", <<"raw", "raw">>, "status", "pin"),
   remote_pin_set       |-> Stub("G", "W", <<"raw", "raw">>, "status", "pin"),
   remote_pin_get       |-> Stub("G", "w", <<"raw">>, "status", "pin")]

StubTables == {HostGen, HostSwdp, HostHl, HostSdi, HostRv, HostLnadiv,
               HostAdiv5, HostSwindle, HostByHand, HostSwd, HostPins}

Stubs == [call \in UNION {DOMAIN table : table \in StubTables} |->
            (CHOOSE table \in StubTables : call \in DOMAIN table)[call]]

(* A parameter as it is sent: the encoder's add_...() of that name. *)
Encode(how, arg) ==
  CASE how = "u8_hex"               -> u8_to_ascii(arg)
    [] how = "u16_le"               -> hexify(le_bytes(arg, 2))
    [] how = "u16_be"               -> hexify(be_bytes(arg, 2))
    [] how = "u32_le"               -> add_u32_le(arg)
    [] how \in {"u32_be", "length"} -> add_u32(arg)
    [] how = "bool"                 -> <<48 + arg>>
    [] how = "hex"                  -> hexify(arg)
    [] how = "raw"                  -> <<arg>>

(* What a stub puts between '!' and '#'. *)
Body(stub, args) ==
  <<Ch[stub.class], Ch[stub.cmd]>> \o
    Flatten([i \in 1..Len(args) |-> Encode(stub.sends[i], args[i])])

(* The stubs in C++ write no checksum after the '#'. *)
Frame(stub, args) ==
  LET sent == add_u8(Body(stub, args))
  IN  IF stub.means = "pin"
      THEN <<RPC_START>> \o Body(stub, args) \o <<RPC_END>>
      ELSE <<RPC_START>> \o sent \o end(sent)

check_reply_any(reply, expected) == Len(reply) = expected + 1   \* a mutation

check_reply(reply, expected) ==
  /\ reply # <<>>
  /\ reply[1] = RPC_RESP_OK
  /\ Len(reply) = expected + 1

(* What the caller of a stub is told: whether the call succeeded, where    *)
(* the stub says so, and what it returned.                                 *)
Told(status, values) == [status |-> status, values |-> values]
ToldOf(ok, values)   == IF ok THEN Told("ok", values) ELSE Told("failed", <<>>)

Word(reply, i) == u8s_string_to_u32_le(SubSeq(reply, i, i + 7))

(* reply[0] alone tells, and any letter after it is a fault. *)
Adiv(reply, values) ==
  ToldOf(reply # <<>> /\ reply[1] = RPC_RESP_OK, values)

(* The stubs that return a value and a fault. *)
Access(reply, otherwise) ==
  LET pair == IF check_reply(reply, 16)
              THEN <<Word(reply, 2), Word(reply, 10)>> ELSE otherwise
  IN  ToldOf(pair[2] = 0, <<pair[1]>>)

ReadReply(how, reply) ==
  CASE how = "ok"        -> ToldOf(check_reply(reply, 0), <<>>)
    [] how = "ok8"       -> ToldOf(check_reply(reply, 8), <<>>)
    [] how = "word"      -> IF check_reply(reply, 8)
                            THEN Told("ok", <<Word(reply, 2)>>)
                            ELSE Told("failed", <<>>)
    [] how = "u32"       -> Told("unknown", <<IF check_reply(reply, 8)
                                              THEN Word(reply, 2) ELSE 0>>)
    [] how = "u8"        -> Told("unknown",
                              <<IF check_reply(reply, 2)
                                THEN ascii_octet_to_hex(reply[2], reply[3])
                                ELSE 0>>)
    [] how = "access"    -> Access(reply, <<0, 0>>)
    [] how = "access_rs" -> Access(reply, <<0, 2>>)
    [] how = "access_v3" -> Access(reply, <<1, 0>>)
    [] how = "adiv"      -> Adiv(reply, <<u8s_string_to_u32_le(
                                            SubSeq(reply, 2, Len(reply)))>>)
    [] how = "block"     -> Adiv(reply, u8_hex_string_to_u8s(
                                            SubSeq(reply, 2, Len(reply))))
    [] how = "status"    -> Adiv(reply, <<>>)
    [] how = "reply"     -> Told("unknown", reply)
    [] how = "ignored"   -> Told("unknown", <<>>)

(* The first c of bytes at or after a place. *)
IsFirst(bytes, c, from, i) ==
  /\ i \in from..Len(bytes) /\ bytes[i] = c
  /\ \A j \in from..(i - 1) : bytes[j] # c
=============================================================================
