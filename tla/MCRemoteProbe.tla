---------------------------- MODULE MCRemoteProbe ----------------------------
(* Sizes are scaled down in proportion: the probe moves blocks the host has *)
(* no room for, and the longest calls fit the input buffer.                 *)
EXTENDS RemoteProbe

MCWords   == {0, 1885560580}             \* bytes 84, 33, 63, 70 hexadecimal
MCTenths  == {33, 120}
MCFaults  == {4}
MCChunks  == {1, 7, 1024}
MCLengths == {4, 13, 17}

(* Every parameter different, or all of them 0. *)
MCArgument(how, i, plain, length) ==
  CASE how = "length" -> length
    [] how = "hex"    -> IF plain THEN <<>> ELSE <<1, 254, 35, 33>>
    [] how \in {"bool", "raw"}       -> IF plain THEN 0 ELSE 1
    [] how = "u8_hex"               -> IF plain THEN 0 ELSE 16 + i
    [] how \in {"u16_le", "u16_be"} -> IF plain THEN 0 ELSE 258 + (257 * i)
    [] how \in {"u32_le", "u32_be"} -> IF plain THEN 0
                                       ELSE 16909060 + (16843009 * i)
MCCallers ==
  {[p \in Kinds \X (1..7) |-> MCArgument(p[1], p[2], plain, length)] :
     plain \in BOOLEAN, length \in MCLengths}

(* A command; one with every character that is special somewhere; one that *)
(* fills the buffer.                                                       *)
Full      == [i \in 1..INPUT_BUFFER_SIZE |-> IF i = 9 THEN CHAR_END ELSE 77]
MCPayloads == {<<63>>, <<88, 36, 35, 125, 123, 33, 42, 43>>, Full}

(* Too long, the rest of it a call. *)
MCOverlong == {Full \o <<88>> \o <<RPC_START, 90, 71>>}

(* Nothing, OK, and a reply with every character that must be escaped. *)
MCReplies == {<<>>, <<79, 75>>, <<36, 109, 35, 125, 123, 43>>}
===============================================================================
