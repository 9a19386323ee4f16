---------------------------- MODULE PacketCodec ----------------------------
(***************************************************************************)
(* The bytes of the debug link: hexadecimal conversions (parsing_util.rs), *)
(* the decoder of what the probe receives (decoder.rs), GDB packets and    *)
(* RPC frames alike, and the encoder of what it sends (encoder.rs).  Bytes *)
(* are numbers below 256 and numbers of 32 bits stay below 2^31, the       *)
(* largest TLC has; no property needs the top bit.                         *)
(***************************************************************************)
EXTENDS Integers, Sequences

CONSTANT INPUT_BUFFER_SIZE    \* bytes a decoded packet may have

ASSUME InputBufferAssumption == INPUT_BUFFER_SIZE \in Nat \ {0}

CHAR_START   == 36      \* '$'
CHAR_END     == 35      \* '#'
CHAR_ESCAPE  == 125     \* '}'
CHAR_ESCAPE2 == 123     \* '{'
CHAR_ACK     == 43      \* '+'
CHAR_NACK    == 45      \* '-'
RPC_START    == 33      \* '!'
RPC_END      == 35      \* '#'

Octet == 0..255

(* The effect of ^ 0x20 on a byte. *)
Flip20(c) == IF (c \div 32) % 2 = 1 THEN c - 32 ELSE c + 32

Flatten(ss) ==
  LET upTo[i \in 0..Len(ss)] == IF i = 0 THEN <<>> ELSE upTo[i - 1] \o ss[i]
  IN  upTo[Len(ss)]

Sum(s) ==
  LET upTo[i \in 0..Len(s)] == IF i = 0 THEN 0 ELSE upTo[i - 1] + s[i]
  IN  upTo[Len(s)]

-----------------------------------------------------------------------------
(* Hexadecimal.  A character that is no digit counts as 0. *)

_hex(digit) ==
  CASE digit \in 48..57  -> digit - 48
    [] digit \in 97..102 -> digit - 87
    [] digit \in 65..70  -> digit - 55
    [] OTHER             -> 0

ascii_octet_to_hex(left, right) == 16 * _hex(left) + _hex(right)

_tohex(v) == IF v >= 10 THEN 55 + v ELSE 48 + v

u8_to_ascii(v) == <<_tohex(v \div 16), _tohex(v % 16)>>

(* The bytes of a number, most and least significant first. *)
Weight == <<1, 256, 65536, 16777216>>

\* What a u16 and a u32 can be
Word16 == {v \in Nat : v \div Weight[2] < 256}
Word32 == {v \in Nat : v \div Weight[4] < 256}

be_bytes(v, n) == [i \in 1..n |-> (v \div Weight[n - i + 1]) % 256]
le_bytes(v, n) == [i \in 1..n |-> (v \div Weight[i]) % 256]

hexify(bytes) == Flatten([i \in 1..Len(bytes) |-> u8_to_ascii(bytes[i])])

u8_hex_string_to_u8s(s) ==
  [i \in 1..(Len(s) \div 2) |-> ascii_octet_to_hex(s[2 * i - 1], s[2 * i])]

u8s_string_to_u32(s) ==
  LET upTo[i \in 0..Len(s)] ==
        IF i = 0 THEN 0 ELSE 16 * upTo[i - 1] + _hex(s[i])
  IN  upTo[Len(s)]

u8s_string_to_u32_le(s) ==
  LET bytes == u8_hex_string_to_u8s(s)
      from[i \in 1..(Len(bytes) + 1)] ==
        IF i > Len(bytes) THEN 0 ELSE bytes[i] + 256 * from[i + 1]
  IN  from[1]

-----------------------------------------------------------------------------
(* The encoder.  The temporary buffer through which add_u8() sends its     *)
(* bytes only cuts them in pieces.                                         *)

EscapedUnpaired == {CHAR_ESCAPE2, CHAR_START, CHAR_END}   \* a mutation

Escaped == {CHAR_ESCAPE2, CHAR_ESCAPE, CHAR_START, CHAR_END}

add_u8(bytes) ==
  Flatten([i \in 1..Len(bytes) |->
             IF bytes[i] \in Escaped THEN <<CHAR_ESCAPE, Flip20(bytes[i])>>
                                     ELSE <<bytes[i]>>])

add_u32(v)    == hexify(be_bytes(v, 4))
add_u32_le(v) == hexify(le_bytes(v, 4))

(* end(): the sum is that of the bytes as they are sent. *)
end(sent) == <<CHAR_END>> \o u8_to_ascii(Sum(sent) % 256)

(* begin(), add_u8(), end() *)
simple_send(bytes) == <<CHAR_START>> \o add_u8(bytes) \o end(add_u8(bytes))

reply_ok  == <<36, 79, 75, 35, 57, 65>>         \* $OK#9A
reply_e01 == <<36, 69, 48, 49, 35, 65, 54>>     \* $E01#A6
reply_bool(status) == IF status THEN reply_ok ELSE reply_e01

-----------------------------------------------------------------------------
(* The decoder.  What a finished packet leaves in the buffer is never read *)
(* again: Idle keeps none of it.                                           *)

IdleDecoder ==
  [automaton |-> "Idle", buffer |-> <<>>, checksum |-> 0, received |-> 0]

StartBody    == [IdleDecoder EXCEPT !.automaton = "Body"]
StartRpcBody == [IdleDecoder EXCEPT !.automaton = "RpcBody"]

StoreOneLess(d, c) ==                           \* a mutation
  IF Len(d.buffer) + 1 >= INPUT_BUFFER_SIZE
  THEN [d EXCEPT !.automaton = "Error"]
  ELSE [d EXCEPT !.buffer = Append(@, c)]

(* A byte put into the buffer, unless it is full. *)
Store(d, c) ==
  IF Len(d.buffer) >= INPUT_BUFFER_SIZE
  THEN [d EXCEPT !.automaton = "Error"]
  ELSE [d EXCEPT !.buffer = Append(@, c)]

InIdle(d, c) ==
  CASE c = CHAR_START -> StartBody
    [] c = RPC_START  -> StartRpcBody
    [] OTHER          -> d

InRpcBody(d, c) ==
  CASE c = RPC_END   -> [d EXCEPT !.automaton = "RpcDone"]
    [] c = RPC_START -> StartRpcBody
    [] OTHER         -> Store(d, c)

InBody(d, c) ==
  CASE c = CHAR_START  -> StartBody
    [] c = CHAR_END    -> [d EXCEPT !.automaton = "End1"]
    [] c = CHAR_ESCAPE -> [d EXCEPT !.automaton = "Escape"]
    [] OTHER           -> Store([d EXCEPT !.checksum = @ + c], c)

InEscape(d, c) ==
  Store([d EXCEPT !.automaton = "Body",
                  !.checksum = @ + CHAR_ESCAPE + c], Flip20(c))

InEnd2(d, c) ==
  LET sum == ascii_octet_to_hex(d.received, c)
  IN  [d EXCEPT !.automaton =
         IF sum = d.checksum % 256 THEN "Done" ELSE "Error"]

(* parse(): one turn of its loop.  The caller goes on behind an end state. *)
Feed(d, c) ==
  CASE d.automaton = "Idle"    -> InIdle(d, c)
    [] d.automaton = "RpcBody" -> InRpcBody(d, c)
    [] d.automaton = "Body"    -> InBody(d, c)
    [] d.automaton = "Escape"  -> InEscape(d, c)
    [] d.automaton = "End1"    -> [d EXCEPT !.automaton = "End2",
                                            !.received = c]
    [] d.automaton = "End2"    -> InEnd2(d, c)

EndStates == {"Done", "RpcDone", "Error"}
=============================================================================
