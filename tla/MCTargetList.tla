---------------------------- MODULE MCTargetList -----------------------------
(* Two arena addresses and scans that find up to two targets, three in all: *)
(* a second scan puts a new target where an old one was.  Of the statics,   *)
(* "mw" is treated like "rtt" by every action and is left out.              *)
EXTENDS TargetList, TLC

Anything == Mishap
Kinds    == {"sw", "rtt", "os"}
Places   == Permutations(Address)
=============================================================================
