------------------------------ MODULE MCRttRing ------------------------------
(* A ring that begins inside a word and is longer than the transfer buffer, *)
(* more bytes than it holds, and a clock of a few rounds.                   *)
EXTENDS RttRing

Unaligned == [c \in Channel |-> 1]
=============================================================================
