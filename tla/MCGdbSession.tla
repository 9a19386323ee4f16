---------------------------- MODULE MCGdbSession ----------------------------
(* A host that uses every request.                                         *)
EXTENDS GdbSession

AllRequests == Request
Mischief    == Mishap \ {"reconnect"}
Reconnect   == {"reconnect"}
=============================================================================
