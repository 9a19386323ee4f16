--------------------------- MODULE MCSwBreakpoints ---------------------------
(* A word of two cells and one of its own, pages alike (so that a page may *)
(* hold two breakpoints), and a table of two.                              *)
EXTENDS SwBreakpoints

MCAddr   == 0..2
MCOpcode == {"nop", "bkpt", "blank"}
Anything == Mishap
=============================================================================
