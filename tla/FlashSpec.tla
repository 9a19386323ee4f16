----------------------------- MODULE FlashSpec ------------------------------
(***************************************************************************)
(* What GDB is promised by vFlashErase, vFlashWrite and vFlashDone         *)
(* (rs_swindle/src/commands/flash.rs).  GDB sees an image of the flash:    *)
(* what its erases and writes made of it.  The device may lag behind on    *)
(* the cells the running load reaches, and nowhere else, until vFlashDone  *)
(* says OK.  A request that fails spoils no cell the load does not reach.  *)
(***************************************************************************)
EXTENDS Integers

CONSTANTS
  Addr,     \* the cells of the flash
  WRITE,    \* the cells programmed together
  BUF,      \* the cells held back together
  Byte,     \* what can be programmed
  Erased,   \* an erased cell
  Corrupt   \* a cell programmed twice, or halfway

VARIABLES
  image,    \* the flash as the requests made it
  device,   \* the flash
  touched,  \* the cells the load since the last vFlashDone reaches
  ok        \* the reply to the last request

vars == <<image, device, touched, ok>>

Cell == Byte \cup {Erased, Corrupt}

\* The cells a load of the given ones reaches: their write units and, in a
\* sector, those between
Reach(cells) ==
  {a \in Addr : \E b, c \in cells :
     /\ b \div BUF = a \div BUF /\ c \div BUF = a \div BUF
     /\ b \div WRITE <= a \div WRITE /\ a \div WRITE <= c \div WRITE}

\* The device may differ from the image on the cells of the load only
Lag == \A a \in Addr \ touched' : device'[a] = image'[a]

Init ==
  /\ image \in [Addr -> {Erased} \cup Byte] /\ device = image
  /\ touched = {} /\ ok = TRUE

Set(cells, v) ==
  /\ image' = [a \in Addr |-> IF a \in cells THEN v ELSE image[a]]
  /\ touched' = Reach(touched \cup cells)
  /\ Lag
  /\ ok' = TRUE

Erase == \E a, b \in Addr : Set(a..b, Erased)
MassErase == Set(Addr, Erased)

Write ==
  \E a, b \in Addr, v \in Byte :
    /\ \A x \in a..b : image[x] = Erased
    /\ Set(a..b, v)

Done ==
  /\ UNCHANGED image
  /\ device' = image
  /\ touched' = {}
  /\ ok' = TRUE

\* A failed request, or a load abandoned by a detach
Fail ==
  /\ touched \subseteq touched'
  /\ \A a \in Addr \ touched' : image'[a] = image[a]
  /\ Lag
  /\ ok' = FALSE

Next == Erase \/ MassErase \/ Write \/ Done \/ Fail

Spec == Init /\ [][Next]_vars
=============================================================================
