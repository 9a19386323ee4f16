------------------------------ MODULE TargetList ------------------------------
(***************************************************************************)
(* The targets a scan found (target/c_adapter.rs), the one GDB is attached *)
(* to (cur_target of bmp_interface_c.cpp) and what the rest of the probe   *)
(* remembers about a target in its statics: the flash manager, the two     *)
(* breakpoint tables, RTT, the FreeRTOS tables and the custom monitor      *)
(* commands.  A target lives at an address of the session arena, which a   *)
(* scan hands out anew: an address says less than an id, which is of the   *)
(* model only.                                                             *)
(***************************************************************************)
EXTENDS Naturals, Sequences, FiniteSets

CONSTANTS
  Address,       \* addresses of the arena a target can live at
  NULL,          \* the null pointer
  MaxFound,      \* bound on the targets a scan finds
  MaxId,         \* bound on the targets found in all
  MaxWatch,      \* the comparators of a target
  Requested,     \* the statics that requests set up
  Mishaps        \* what may go wrong, a subset of Mishap

\* scan: a scan meets an attached target whose detach does not clean up
\* switch: vAttach while a target is attached
\* detach: the target's detach raises an exception
Mishap == {"scan", "switch", "detach"}

\* What is remembered about a target outside of its own record
Static == {"manager", "sw", "mw", "rtt", "os", "commands"}

Id == 1..MaxId

ASSUME TargetAssumption ==
  /\ NULL \notin Address
  /\ MaxFound \in Nat /\ MaxId \in Nat /\ MaxWatch \in Nat
  /\ Cardinality(Address) >= MaxFound
  /\ Mishaps \subseteq Mishap
  /\ Requested \subseteq {"sw", "mw", "rtt", "os"}

VARIABLES
  list,     \* target_list
  cur,      \* cur_target, a pointer
  active,   \* ACTIVE_TARGET of the flash manager, a pointer
  about,    \* for each static, the ids of the targets it was set up for
  found,    \* the number of targets found so far
  mishaps   \* the kinds of mishap seen so far (a history variable)

vars == <<list, cur, active, about, found, mishaps>>

\* tc: the controller, with the destroy callback, is set; cleans: its detach
\* runs disconnect_cleanup(), as that of a RISC-V target does; watch: the
\* nodes of bw_list
Target == [at : Address, id : Id, attached : BOOLEAN, tc : BOOLEAN,
           cleans : BOOLEAN, flash_mode : BOOLEAN, watch : 0..MaxWatch]

Ids(targets)    == {targets[i].id : i \in DOMAIN targets}
Current         == {i \in DOMAIN list : list[i].at = cur}
CurrentIds      == {list[i].id : i \in Current}

TypeOK ==
  /\ list \in Seq(Target)
  /\ cur \in Address \cup {NULL} /\ active \in Address \cup {NULL}
  /\ about \in [Static -> SUBSET Id]
  /\ found \in 0..MaxId
  /\ mishaps \subseteq Mishaps

Nothing == [k \in Static |-> {}]

Init ==
  /\ list = <<>> /\ cur = NULL /\ active = NULL
  /\ about = Nothing /\ found = 0 /\ mishaps = {}

Seen(kinds) == kinds \subseteq Mishaps /\ mishaps' = mishaps \cup kinds

-----------------------------------------------------------------------------
\* disconnect_cleanup(): the statics, and the flash mode and watch nodes of
\* the given targets
CleanStaticsKeepsManager ==                                     \* a mutation
  /\ about' = [Nothing EXCEPT !["manager"] = about["manager"]]
  /\ active' = active
CleanStatics == about' = Nothing /\ active' = NULL
CleanedKeepsWatch(t) == [t EXCEPT !.flash_mode = FALSE]       \* a mutation
Cleaned(t) == [t EXCEPT !.flash_mode = FALSE, !.watch = 0]

\* gdb_target_destroy_callback(), of each of the given targets
DestroyForgets(targets) == cur' = cur                          \* a mutation
Destroy(targets) ==
  cur' = IF \E t \in targets : t.tc /\ t.at = cur THEN NULL ELSE cur

\* The targets of a scan, at addresses of the freshly wiped arena
New(n, at, cleans) ==
  [i \in 1..n |-> [at |-> at[i], id |-> found + i, attached |-> FALSE, tc |-> FALSE,
                   cleans |-> cleans[i], flash_mode |-> FALSE, watch |-> 0]]

\* target_list_free(): every target is detached, by its own callback alone,
\* and freed.  A scan that finds something ends with os_detach().
Scan(n) ==
  LET old     == {list[i] : i \in DOMAIN list}
      cleaned == \E t \in old : t.attached /\ t.cleans
      left    == IF cleaned THEN Nothing ELSE about
  IN
  /\ found + n <= MaxId
  /\ Seen(IF (\E t \in old : t.attached) /\ ~cleaned THEN {"scan"} ELSE {})
  /\ Destroy(old)
  /\ \E at \in [1..n -> Address], cleans \in [1..n -> BOOLEAN] :
       /\ \A i, j \in 1..n : i # j => at[i] # at[j]
       /\ list' = New(n, at, cleans)
  /\ about' = IF n > 0 THEN [left EXCEPT !["os"] = {}] ELSE left
  /\ active' = IF cleaned THEN NULL ELSE active
  /\ found' = found + n

\* target_attach_n() and _vAttach(): the n-th target.  Nothing is detached
\* before; a failure forgets some of the statics.
Switching == IF \E i \in DOMAIN list : list[i].attached THEN {"switch"} ELSE {}

AttachFails == about' = [about EXCEPT !["os"] = {}, !["sw"] = {}, !["commands"] = {}]

AttachSucceeds(n) ==
  /\ n \in DOMAIN list
  /\ Seen(Switching)
  /\ list' = [list EXCEPT ![n].tc = TRUE, ![n].attached = TRUE]
  /\ cur' = list[n].at
  /\ \E custom \in {{}, {list[n].id}} : about' = [about EXCEPT !["commands"] = custom]
  /\ UNCHANGED <<active, found>>

AttachRefused(n) ==
  /\ Seen(Switching)
  /\ list' = IF n \in DOMAIN list THEN [list EXCEPT ![n].tc = TRUE] ELSE list
  /\ cur' = NULL
  /\ AttachFails
  /\ UNCHANGED <<active, found>>

vAttach(n) == AttachSucceeds(n) \/ AttachRefused(n)

\* bmp_detach(): the cleanup, twice, and the target's own detach.  An
\* exception leaves the target attached, with nobody to remember it.
bmp_detach ==
  /\ cur # NULL
  /\ \E ok \in BOOLEAN :
       /\ Seen(IF ok THEN {} ELSE {"detach"})
       /\ list' = [i \in DOMAIN list |->
                     IF i \in Current THEN [Cleaned(list[i]) EXCEPT !.attached = ~ok] ELSE list[i]]
  /\ CleanStatics
  /\ cur' = NULL
  /\ UNCHANGED found

\* D, or the end of the session, without a target
DetachNothing ==
  /\ cur = NULL
  /\ CleanStatics
  /\ UNCHANGED <<list, cur, found, mishaps>>

-----------------------------------------------------------------------------
(* The requests on the current target.                                     *)

\* get_or_create_manager(): the manager is taken for the current target's if
\* the pointer is the same; the one of another target is completed first.
FlashRequest ==
  /\ cur # NULL
  /\ list' = [i \in DOMAIN list |-> [list[i] EXCEPT !.flash_mode = @ \/ i \in Current]]
  /\ about' = [about EXCEPT !["manager"] = IF active = cur THEN @ ELSE CurrentIds]
  /\ active' = cur
  /\ UNCHANGED <<cur, found, mishaps>>

target_flash_complete ==
  /\ cur # NULL /\ \E i \in Current : list[i].flash_mode
  /\ list' = [i \in DOMAIN list |-> [list[i] EXCEPT !.flash_mode = @ /\ i \notin Current]]
  /\ about' = [about EXCEPT !["manager"] = {}]
  /\ active' = NULL
  /\ UNCHANGED <<cur, found, mishaps>>

\* A breakpoint, RTT or FreeRTOS awareness is set up for the current target.
SetUp(k) ==
  /\ cur # NULL
  /\ about' = [about EXCEPT ![k] = @ \cup CurrentIds]
  /\ UNCHANGED <<list, cur, active, found, mishaps>>

\* The last breakpoint of a table is removed; "mon rtt disable".  Nothing the
\* host asks for forgets the FreeRTOS tables.
TakeDown(k) ==
  /\ cur # NULL /\ about[k] # {} /\ k # "os"
  /\ about' = [about EXCEPT ![k] = {}]
  /\ UNCHANGED <<list, cur, active, found, mishaps>>

\* target_breakwatch_set() and target_breakwatch_clear()
Watch(more) ==
  /\ cur # NULL
  /\ \E i \in Current :
       /\ IF more THEN list[i].watch < MaxWatch ELSE list[i].watch > 0
       /\ list' = [list EXCEPT ![i].watch = IF more THEN @ + 1 ELSE @ - 1]
  /\ UNCHANGED <<cur, active, about, found, mishaps>>

Next ==
  \/ \E n \in 0..MaxFound : Scan(n)
  \/ \E n \in 1..(MaxFound + 1) : vAttach(n)
  \/ bmp_detach \/ DetachNothing
  \/ FlashRequest \/ target_flash_complete
  \/ \E k \in Requested : SetUp(k) \/ TakeDown(k)
  \/ \E more \in BOOLEAN : Watch(more)

Spec == Init /\ [][Next]_vars

-----------------------------------------------------------------------------
(* The pointer to the current target never dangles, whatever is scanned,   *)
(* attached or fails while it is set: it names a target of the list, which *)
(* is attached and will tell when it is freed.                             *)
CurNeverDangles ==
  cur # NULL => \E i \in DOMAIN list : list[i].at = cur /\ list[i].attached /\ list[i].tc

(* No target stays attached, and so halted, behind the back of the one GDB *)
(* works with.                                                             *)
OnlyCurAttached ==
  mishaps = {} => \A i \in DOMAIN list : list[i].attached => list[i].at = cur

(* A target that is not attached holds no watch nodes of the arena, and is *)
(* not left in flash mode.                                                 *)
DetachedIsClean ==
  \A i \in DOMAIN list : list[i].watch > 0 \/ list[i].flash_mode => list[i].attached

(* What the probe remembers is about the target GDB is attached to: no     *)
(* opcode is restored in, no flash byte programmed to and no RTT block     *)
(* polled on another one.                                                  *)
StaticsAreCurrent == mishaps = {} => \A k \in Static : about[k] \subseteq CurrentIds
=============================================================================
