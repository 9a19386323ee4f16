------------------------------ MODULE MCFlash -------------------------------
(* Two adjacent regions, of two blocks and of one; blocks, sectors and     *)
(* write units of two cells, and a larger erase block of four.  A request  *)
(* of three cells starts or ends inside a unit and may cross the regions.  *)
EXTENDS Flash

MCRegions == <<[start |-> 0, length |-> 4], [start |-> 4, length |-> 2]>>
MCExtra  == {4}
=============================================================================
