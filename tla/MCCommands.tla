------------------------------ MODULE MCCommands ------------------------------
(* Every kind of target, and room for one setting of two.                  *)
EXTENDS Commands

AllKinds == Kind
===============================================================================
