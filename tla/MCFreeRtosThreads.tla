-------------------------- MODULE MCFreeRtosThreads ---------------------------
(* Three control blocks, so that one can be freed and used again while two *)
(* other tasks live.                                                       *)
EXTENDS FreeRtosThreads

AllPorts   == Port
\* The kernel of one port acts twice between stops; for the others the probe's
\* frames are compared with the port's
Steps      == [p \in Port |-> IF p = "m3" THEN 2 ELSE 0]
Anything   == Mishap
Symmetric  == Permutations(Tcb)
=============================================================================
