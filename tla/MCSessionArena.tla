-------------------------- MODULE MCSessionArena --------------------------
(***************************************************************************)
(* A small arena: regions of four and two aligned words, requests that     *)
(* need padding, fill a word, or span two.                                 *)
(***************************************************************************)
EXTENDS SessionArena
MCSizes == {4, 8, 12}
=============================================================================
