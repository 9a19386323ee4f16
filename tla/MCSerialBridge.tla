--------------------------- MODULE MCSerialBridge ---------------------------
(* Enough bytes one way to be sent in part, to block and to leave a full   *)
(* ring behind; the other way shares its ring with the GDB task.           *)
EXTENDS SerialBridge

Bytes == [out |-> 4, in |-> 2]
=============================================================================
