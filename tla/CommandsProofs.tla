--------------------------- MODULE CommandsProofs ---------------------------
(***************************************************************************)
(* For any settings the host may make, however few the map has room for,   *)
(* any number of symbols and any windows of the documents: every request   *)
(* is answered once (OneReply), the commands of one target never reach     *)
(* another (CustomOnTarget), and the stub has the settings the host made   *)
(* (SettingsKept).                                                         *)
(*                                                                         *)
(* OneReply speaks of stopped targets: it is inductive only with           *)
(* NoneWhileRunning, by which the request that made the target run has     *)
(* not been answered yet.  CustomOnTarget speaks of the request that is    *)
(* executed: the invariant behind it is CustomFits, that the tree which    *)
(* outlives a scan, an attach or a detach is at most one of the target     *)
(* that is attached now.  A scan detaches without clearing it, so it is    *)
(* the check for a connected target that keeps those commands away.        *)
(***************************************************************************)
EXTENDS Commands, FiniteSetTheorems, SequenceTheorems, WellFoundedInduction, TLAPS

CustomNames == {"ch32v3_obr", "ch32v3_option_byte"}

\* The host means each key to have one value
Told == DOMAIN told = Keys /\ told = [k \in Keys |-> told[k]]

\* The tree of commands of its own is that of the target attached
CustomFits == /\ custom \in BOOLEAN
              /\ custom /\ target # None => has_commands(target)

\* As long as the target runs the request that let it run is not answered
NoneWhileRunning ==
  running => last.sent = <<>> /\ last.handler \in {"vCont", "c", "s"}

\* What the stub executes has a handler and an answer
Executes == {"handler", "sent"} \subseteq DOMAIN last

IInv ==
  Told /\ SettingsKept /\ CustomFits /\ CustomOnTarget /\ Executes /\ NoneWhileRunning /\ OneReply

-----------------------------------------------------------------------------
(* The trees.                                                              *)

(* The least of some natural numbers is one of them. *)
LEMMA LeastRow ==
  ASSUME NEW I \in SUBSET Nat, I # {}
  PROVE  Min(I) \in I
<1> DEFINE R == OpToRel(<, Nat)
<1>1. IsWellFoundedOn(R, Nat)
  BY NatLessThanWellFounded DEF OpToRel
<1>2. \A x, y \in Nat : y < x <=> <<y, x>> \in R
  BY DEF OpToRel
<1> HIDE DEF R
<1>3. PICK x \in I : \A y \in I : ~(<<y, x>> \in R)
  BY <1>1, WFMin, Zenon
<1>4. ASSUME NEW y \in I PROVE x <= y
  <2>1. ~(<<y, x>> \in R) /\ x \in Nat /\ y \in Nat
    BY <1>3
  <2>2. ~(y < x)
    BY <1>2, <2>1
  <2> QED BY <2>1, <2>2
<1> QED BY <1>3, <1>4, Zenon DEF Min

(* The commands of a CH32V2/V3 are in no other tree. *)
LEMMA TreeNames ==
  /\ Names(ch32vxx_command_tree) = CustomNames
  /\ None \notin CustomNames
  /\ Names(main_command_tree) \cap CustomNames = {}
  /\ Names(v_command_tree) \cap CustomNames = {}
  /\ Names(vflash_command_tree) \cap CustomNames = {}
  /\ Names(q_command_tree) \cap CustomNames = {}
  /\ Names(mon_command_tree) \cap CustomNames = {}
  /\ Names(rtt_command_tree) \cap CustomNames = {}
<1>1. Names(ch32vxx_command_tree) = CustomNames
  BY DEF Names, ch32vxx_command_tree, CustomNames
<1>2. \A x \in Names(main_command_tree) : x \notin CustomNames
  BY DEF Names, main_command_tree, CustomNames
<1>3. \A x \in Names(v_command_tree) : x \notin CustomNames
  BY DEF Names, v_command_tree, CustomNames
<1>4. \A x \in Names(vflash_command_tree) : x \notin CustomNames
  BY DEF Names, vflash_command_tree, CustomNames
<1>5. \A x \in Names(q_command_tree) : x \notin CustomNames
  BY DEF Names, q_command_tree, CustomNames
<1>6. \A x \in Names(mon_command_tree) : x \notin CustomNames
  BY DEF Names, mon_command_tree, CustomNames
<1>7. \A x \in Names(rtt_command_tree) : x \notin CustomNames
  BY DEF Names, rtt_command_tree, CustomNames
<1> QED BY <1>1, <1>2, <1>3, <1>4, <1>5, <1>6, <1>7 DEF None, CustomNames

(* A tree finds one of its own rows, or none. *)
LEMMA RowOfTree ==
  ASSUME NEW tree, NEW n \in Nat, DOMAIN tree = 1..n, NEW command
  PROVE  Row(tree, command) \in Names(tree) \cup {None}
<1> DEFINE rows == {i \in DOMAIN tree : starts_with(command, tree[i])}
<1>1. CASE rows = {}
  BY <1>1 DEF Row
<1>2. CASE rows # {}
  <2>1. Min(rows) \in rows
    <3>1. rows \subseteq Nat
      OBVIOUS
    <3> QED BY <1>2, <3>1, LeastRow, Zenon
  <2>2. Row(tree, command) = tree[Min(rows)]
    BY <1>2 DEF Row
  <2> QED BY <2>1, <2>2 DEF Names
<1> QED BY <1>1, <1>2

(* All trees are sequences of names. *)
LEMMA TreeDomains ==
  /\ DOMAIN main_command_tree = 1..23
  /\ DOMAIN v_command_tree = 1..3
  /\ DOMAIN vflash_command_tree = 1..3
  /\ DOMAIN q_command_tree = 1..18
  /\ DOMAIN mon_command_tree = 1..38
  /\ DOMAIN rtt_command_tree = 1..4
<1>1. DOMAIN main_command_tree = 1..23
  BY DEF main_command_tree
<1>2. DOMAIN v_command_tree = 1..3 /\ DOMAIN vflash_command_tree = 1..3
  BY DEF v_command_tree, vflash_command_tree
<1>3. DOMAIN q_command_tree = 1..18
  BY DEF q_command_tree
<1>4. DOMAIN mon_command_tree = 1..38
  BY DEF mon_command_tree
<1>5. DOMAIN rtt_command_tree = 1..4
  BY DEF rtt_command_tree
<1> QED BY <1>1, <1>2, <1>3, <1>4, <1>5

(* No tree but that of the target has its commands. *)
LEMMA OtherRows ==
  ASSUME NEW command
  PROVE  /\ Row(main_command_tree, command) \notin CustomNames
         /\ Row(v_command_tree, command) \notin CustomNames
         /\ Row(vflash_command_tree, command) \notin CustomNames
         /\ Row(q_command_tree, command) \notin CustomNames
         /\ Row(mon_command_tree, command) \notin CustomNames
         /\ Row(rtt_command_tree, command) \notin CustomNames
<1>1. ASSUME NEW tree, NEW n \in Nat, DOMAIN tree = 1..n, Names(tree) \cap CustomNames = {}
      PROVE  Row(tree, command) \notin CustomNames
  BY <1>1, RowOfTree, TreeNames
<1>2. 23 \in Nat /\ 3 \in Nat /\ 18 \in Nat /\ 38 \in Nat /\ 4 \in Nat
  OBVIOUS
<1> QED BY <1>1, <1>2, TreeDomains, TreeNames, Zenon

(* What a sequence with one more ends with. *)
LEMMA OneMore ==
  ASSUME NEW S, NEW s \in Seq(S), NEW x \in S
  PROVE  LET t == s \o <<x>>
         IN  /\ t \in Seq(S) /\ Len(t) \in DOMAIN t /\ t[Len(t)] = x
             /\ s \o <<>> = s
<1> DEFINE t == s \o <<x>>
<1>1. <<x>> \in Seq(S)
  OBVIOUS
<1>2. t \in Seq(S) /\ Len(t) = Len(s) + 1 /\ t[Len(s) + 1] = x
  BY <1>1
<1>3. s \o <<>> = s
  BY ConcatEmptySeq
<1>4. Len(s) \in Nat /\ DOMAIN t = 1..Len(t)
  BY <1>2
<1> QED BY <1>2, <1>3, <1>4

(* Only the tree of the target has its commands, and only for a connected  *)
(* target does it run them.                                                *)
LEMMA DispatchCustom ==
  ASSUME NEW request, NEW connected \in BOOLEAN, NEW tree \in BOOLEAN,
         Dispatch(request, connected, tree).handler \in CustomNames
  PROVE  connected /\ tree
<1> DEFINE words == request.words
           rows  == Rows(request, tree)
           a == Row(main_command_tree, words[1])
           b == IF a \in DOMAIN Subtree THEN <<Row(Subtree[a], words[1])>> ELSE <<>>
           c == IF b = <<"qRcmd">> /\ Len(words) > 1
                THEN <<Row(MonTree(words[2], tree), words[2])>> ELSE <<>>
           d == IF c = <<"rtt">> /\ Len(words) > 2 THEN <<Row(rtt_command_tree, words[3])>> ELSE <<>>
           stopped == {i \in DOMAIN rows : exec_one(request, connected, rows, i) # "run"}
<1>1. rows = <<a>> \o b \o c \o d
  BY DEF Rows
<1>2. a \notin CustomNames
  BY OtherRows
<1>3. b = <<>> \/ \E x : b = <<x>> /\ x \notin CustomNames
  <2>1. CASE a \in DOMAIN Subtree
    <3>1. a \in {"v", "q", "vFlash"}
      BY <2>1 DEF Subtree
    <3>2. Subtree[a] \in {v_command_tree, q_command_tree, vflash_command_tree}
      BY <3>1 DEF Subtree
    <3>3. Row(Subtree[a], words[1]) \notin CustomNames
      BY <3>2, OtherRows
    <3> QED BY <2>1, <3>3
  <2> QED BY <2>1
<1>4. c = <<>> \/ \E x : c = <<x>> /\ (x \in CustomNames => tree)
  <2>1. CASE b = <<"qRcmd">> /\ Len(words) > 1
    <3>1. Row(MonTree(words[2], tree), words[2]) \in CustomNames => tree
      BY OtherRows DEF MonTree
    <3> QED BY <2>1, <3>1
  <2> QED BY <2>1
<1>5. d = <<>> \/ \E x : d = <<x>> /\ x \notin CustomNames
  BY OtherRows
<1> HIDE DEF a, b, c, d
<1>6. Len(rows) \in DOMAIN rows /\ (rows[Len(rows)] \in CustomNames => tree)
  <2> DEFINE S == {a, b[1], c[1], d[1]}
             u == <<a>> \o b
             v == u \o c
  <2>1. <<a>> \in Seq(S) /\ Len(<<a>>) \in DOMAIN <<a>> /\ <<a>>[Len(<<a>>)] = a
    OBVIOUS
  <2>2. u \in Seq(S) /\ Len(u) \in DOMAIN u /\ u[Len(u)] \notin CustomNames
    <3>1. CASE b = <<>>
      BY <1>2, <2>1, <3>1, OneMore
    <3>2. CASE \E x : b = <<x>> /\ x \notin CustomNames
      <4>1. PICK x : b = <<x>> /\ x \notin CustomNames
        BY <3>2
      <4>2. x \in S
        BY <4>1
      <4> QED BY <2>1, <4>1, <4>2, OneMore
    <3> QED BY <1>3, <3>1, <3>2
  <2>3. v \in Seq(S) /\ Len(v) \in DOMAIN v /\ (v[Len(v)] \in CustomNames => tree)
    <3>1. CASE c = <<>>
      <4>1. a \in S
        OBVIOUS
      <4>2. v = u
        BY <2>2, <3>1, <4>1, OneMore
      <4> QED BY <2>2, <4>2
    <3>2. CASE \E x : c = <<x>> /\ (x \in CustomNames => tree)
      <4>1. PICK x : c = <<x>> /\ (x \in CustomNames => tree)
        BY <3>2
      <4>2. x \in S
        BY <4>1
      <4> QED BY <2>2, <4>1, <4>2, OneMore
    <3> QED BY <1>4, <3>1, <3>2
  <2>4. rows = v \o d
    BY <1>1
  <2> HIDE DEF v
  <2>5. CASE d = <<>>
    <3>1. a \in S
      OBVIOUS
    <3>2. rows = v
      BY <2>3, <2>4, <2>5, <3>1, OneMore
    <3> QED BY <2>3, <3>2
  <2>6. CASE \E x : d = <<x>> /\ x \notin CustomNames
    <3>1. PICK x : d = <<x>> /\ x \notin CustomNames
      BY <2>6
    <3>2. x \in S
      BY <3>1
    <3> QED BY <2>3, <2>4, <3>1, <3>2, OneMore
  <2> QED BY <1>5, <2>5, <2>6
<1>7. stopped = {} /\ rows[Len(rows)] \in CustomNames
  <2>1. Dispatch(request, connected, tree)
          = IF stopped = {} THEN [handler |-> rows[Len(rows)], why |-> "run"]
            ELSE [handler |-> None, why |-> exec_one(request, connected, rows, Min(stopped))]
    BY DEF Dispatch
  <2> QED BY <2>1, TreeNames
<1>8. connected
  <2>1. exec_one(request, connected, rows, Len(rows)) = "run"
    BY <1>6, <1>7
  <2>2. rows[Len(rows)] \in require_connected
    BY <1>7, TreeNames DEF require_connected
  <2> QED BY <2>1, <2>2 DEF exec_one
<1> QED BY <1>6, <1>7, <1>8

-----------------------------------------------------------------------------
(* The answers.                                                            *)

\* The packets that hold one answer, the last of them
OneShape == {<<"OK">>, <<"E01">>, <<"empty">>, <<"data">>, <<"stop">>, <<"O", "OK">>, <<"O", "E01">>, <<"O", "empty">>}

\* What a handler may send
Sound(h, packets) ==
  \/ h \notin NeverAnswers /\ packets \in OneShape
  \/ h \in NeverAnswers /\ packets = <<>>
  \/ h \in PrintsLate /\ packets = <<"OK", "O">>
  \/ h \in AnswersTwice /\ packets \in {<<"O", "E01", "empty">>, <<"E01", "empty">>}

\* The places of the answers among the packets
Places(packets) == {i \in DOMAIN packets : packets[i] # "O"}

(* One packet, two and three. *)
LEMMA Tuples ==
  /\ \A x : DOMAIN <<x>> = 1..1 /\ Len(<<x>>) = 1 /\ <<x>>[1] = x
  /\ \A x, y : /\ DOMAIN <<x, y>> = 1..2 /\ Len(<<x, y>>) = 2
               /\ <<x, y>>[1] = x /\ <<x, y>>[2] = y
  /\ \A x, y, z : /\ DOMAIN <<x, y, z>> = 1..3 /\ Len(<<x, y, z>>) = 3
                  /\ <<x, y, z>>[1] = x /\ <<x, y, z>>[2] = y /\ <<x, y, z>>[3] = z
<1>1. ASSUME NEW x PROVE DOMAIN <<x>> = 1..1 /\ Len(<<x>>) = 1 /\ <<x>>[1] = x
  OBVIOUS
<1>2. ASSUME NEW x, NEW y
      PROVE  DOMAIN <<x, y>> = 1..2 /\ Len(<<x, y>>) = 2 /\ <<x, y>>[1] = x /\ <<x, y>>[2] = y
  <2>1. DOMAIN <<x, y>> = 1..2 /\ Len(<<x, y>>) = 2
    OBVIOUS
  <2>2. <<x, y>>[1] = x /\ <<x, y>>[2] = y
    OBVIOUS
  <2> QED BY <2>1, <2>2
<1>3. ASSUME NEW x, NEW y, NEW z
      PROVE  /\ DOMAIN <<x, y, z>> = 1..3 /\ Len(<<x, y, z>>) = 3
             /\ <<x, y, z>>[1] = x /\ <<x, y, z>>[2] = y /\ <<x, y, z>>[3] = z
  <2>1. DOMAIN <<x, y, z>> = 1..3 /\ Len(<<x, y, z>>) = 3
    OBVIOUS
  <2>2. <<x, y, z>>[1] = x /\ <<x, y, z>>[2] = y /\ <<x, y, z>>[3] = z
    OBVIOUS
  <2> QED BY <2>1, <2>2
<1> QED BY <1>1, <1>2, <1>3, Zenon

(* Where the answers are, and how many. *)
LEMMA Counted ==
  ASSUME NEW s
  PROVE  /\ s \in {<<"OK">>, <<"E01">>, <<"empty">>, <<"data">>, <<"stop">>} =>
              Places(s) = {1} /\ s[Len(s)] # "O"
         /\ s \in {<<"O", "OK">>, <<"O", "E01">>, <<"O", "empty">>} =>
              Places(s) = {2} /\ s[Len(s)] # "O"
         /\ s = <<>> => Places(s) = {}
         /\ s = <<"OK", "O">> => Places(s) = {1}
         /\ s = <<"O", "E01", "empty">> => Places(s) = {2, 3} /\ s[2] = "E01" /\ s[3] = "empty" /\ Len(s) = 3
         /\ s = <<"E01", "empty">> => Places(s) = {1, 2} /\ s[1] = "E01" /\ s[2] = "empty" /\ Len(s) = 2
<1>1. ASSUME NEW x \in {"OK", "E01", "empty", "data", "stop"}, s = <<x>>
      PROVE  Places(s) = {1} /\ s[Len(s)] # "O"
  <2>1. DOMAIN s = 1..1 /\ Len(s) = 1 /\ s[1] = x /\ x # "O"
    BY <1>1, Tuples
  <2> QED BY <2>1 DEF Places
<1>2. ASSUME NEW x \in {"OK", "E01", "empty"}, s = <<"O", x>>
      PROVE  Places(s) = {2} /\ s[Len(s)] # "O"
  <2>1. DOMAIN s = 1..2 /\ Len(s) = 2 /\ s[1] = "O" /\ s[2] = x /\ x # "O"
    BY <1>2, Tuples
  <2> QED BY <2>1 DEF Places
<1>3. ASSUME s = <<>> PROVE Places(s) = {}
  BY <1>3 DEF Places
<1>4. ASSUME s = <<"OK", "O">> PROVE Places(s) = {1}
  <2>1. DOMAIN s = 1..2 /\ s[1] = "OK" /\ s[2] = "O"
    BY <1>4, Tuples
  <2> QED BY <2>1 DEF Places
<1>5. ASSUME s = <<"O", "E01", "empty">>
      PROVE  Places(s) = {2, 3} /\ s[2] = "E01" /\ s[3] = "empty" /\ Len(s) = 3
  <2>1. DOMAIN s = 1..3 /\ Len(s) = 3 /\ s[1] = "O" /\ s[2] = "E01" /\ s[3] = "empty"
    BY <1>5, Tuples
  <2> QED BY <2>1 DEF Places
<1>6. ASSUME s = <<"E01", "empty">>
      PROVE  Places(s) = {1, 2} /\ s[1] = "E01" /\ s[2] = "empty" /\ Len(s) = 2
  <2>1. DOMAIN s = 1..2 /\ Len(s) = 2 /\ s[1] = "E01" /\ s[2] = "empty"
    BY <1>6, Tuples
  <2> QED BY <2>1 DEF Places
<1> QED BY <1>1, <1>2, <1>3, <1>4, <1>5, <1>6, Zenon

(* A handler that sends what it may is answered as OneReply has it. *)
LEMMA SoundReply ==
  ASSUME NEW h, NEW s, Sound(h, s)
  PROVE  Answered(h, s)
<1> DEFINE fails == \E i, j \in Places(s) : s[i] = "E01" /\ s[j] = "empty"
           n == CASE h \in NeverAnswers -> 0
                  [] h \in AnswersTwice /\ fails -> 2
                  [] OTHER -> 1
<1>1. SUFFICES Cardinality(Places(s)) = n
               /\ (Places(s) # {} /\ h \notin PrintsLate => s[Len(s)] # "O")
  BY Zenon DEF Answered, Places
<1>2. h \notin NeverAnswers \/ h \notin AnswersTwice \cup PrintsLate
  BY DEF NeverAnswers, AnswersTwice, PrintsLate
<1>3. CASE h \notin NeverAnswers /\ s \in OneShape
  <2>1. \E i : Places(s) = {i} /\ s[Len(s)] # "O"
    BY <1>3, Counted DEF OneShape
  <2>2. Cardinality(Places(s)) = 1
    BY <2>1, FS_Singleton
  <2>3. ~fails
    BY <2>1
  <2> QED BY <1>3, <2>1, <2>2, <2>3
<1>4. CASE h \in NeverAnswers /\ s = <<>>
  <2>1. Places(s) = {}
    BY <1>4, Counted
  <2>2. Cardinality(Places(s)) = 0
    BY <2>1, FS_EmptySet
  <2> QED BY <1>4, <2>1, <2>2
<1>5. CASE h \in PrintsLate /\ s = <<"OK", "O">>
  <2>1. Places(s) = {1}
    BY <1>5, Counted
  <2>2. Cardinality(Places(s)) = 1
    BY <2>1, FS_Singleton
  <2>3. ~fails
    BY <2>1
  <2>4. h \notin NeverAnswers
    BY <1>5 DEF PrintsLate, NeverAnswers
  <2> QED BY <1>5, <2>2, <2>3, <2>4
<1>6. CASE h \in AnswersTwice /\ s \in {<<"O", "E01", "empty">>, <<"E01", "empty">>}
  <2>1. \E i \in Nat : /\ Places(s) = {i, i + 1} /\ s[i] = "E01" /\ s[i + 1] = "empty"
                      /\ Len(s) = i + 1
    <3>1. CASE s = <<"O", "E01", "empty">>
      <4>1. Places(s) = {2, 2 + 1} /\ s[2] = "E01" /\ s[2 + 1] = "empty" /\ Len(s) = 2 + 1
        BY <3>1, Counted
      <4> QED BY <4>1
    <3>2. CASE s = <<"E01", "empty">>
      <4>1. Places(s) = {1, 1 + 1} /\ s[1] = "E01" /\ s[1 + 1] = "empty" /\ Len(s) = 1 + 1
        BY <3>2, Counted
      <4> QED BY <4>1
    <3> QED BY <1>6, <3>1, <3>2
  <2>2. PICK i \in Nat : /\ Places(s) = {i, i + 1} /\ s[i] = "E01" /\ s[i + 1] = "empty"
                        /\ Len(s) = i + 1
    BY <2>1
  <2>3. Cardinality(Places(s)) = 2
    <3>1. Cardinality({i}) = 1 /\ IsFiniteSet({i}) /\ i + 1 \notin {i}
      BY FS_Singleton
    <3>2. Cardinality({i} \cup {i + 1}) = Cardinality({i}) + 1
      BY <3>1, FS_AddElement
    <3>3. Places(s) = {i} \cup {i + 1}
      BY <2>2
    <3> QED BY <3>1, <3>2, <3>3
  <2>4. fails
    BY <2>2
  <2>5. h \notin NeverAnswers
    BY <1>6 DEF AnswersTwice, NeverAnswers
  <2> QED BY <1>6, <2>2, <2>3, <2>4, <2>5
<1> QED BY <1>3, <1>4, <1>5, <1>6 DEF Sound

\* The handlers of Answers that are given as sets
Groups == Succeeds \cup Prints \cup Tries \cup Benchmarks \cup Tells \cup SaysNothing

\* The names of all of them
GroupNames ==
  /\ Succeeds = {"QStartNoAckMode", "!", "redirect", "test2", "reset", "enable", "disable"}
  /\ Prints = {"os_info", "fos", "freertos", "ram", "arena", "stacks", "riscv_stream", "riscv_confirm",
               "help", "boards", "voltage", "version", "ws", "memlog", "map", "breakpoint_info", "status"}
  /\ Tells = {"qLaunchGDBServer", "qHostInfo", "qRegisterInfo", "qAttached", "qOffsets", "qSupported",
              "g", "m", "?", "qfThreadInfo", "qsThreadInfo", "qC"}

(* Handlers without a state of their own send what they may.               *)
LEMMA AnswersSound ==
  ASSUME NEW h, NEW args, NEW packets \in Answers(h, args)
  PROVE  Sound(h, packets)
<1> USE DEF NeverAnswers, PrintsLate, AnswersTwice, Sound, OneShape
<1>1. GroupNames
  BY DEF GroupNames, Succeeds, Prints, Reports, RiscvReports, BuildReports, WireReports, TargetReports,
         Tells, HostTells, TargetTells
<1>2. CASE h \in Groups
  <2>1. h \notin NeverAnswers
    BY <1>1, <1>2 DEF Groups, GroupNames, Tries, Benchmarks, SaysNothing
  <2>2. packets \in OneShape
    BY <1>1, <1>2 DEF Answers, GroupNames, Groups, Tries, Benchmarks, SaysNothing
  <2> QED BY <2>1, <2>2
<1>3. CASE h \notin Groups
  <2> DEFINE answers ==
        CASE h = "qTStatus"        -> {<<"empty">>}
          [] h \in {"Hc", "qP"}    -> {<<"E01">>}
          [] h = "qThreadExtraInfo" -> {<<"data">>, <<"E01">>}
          [] h = "X"           -> IF args = <<"bad">> THEN {<<"empty">>} ELSE {<<"OK">>, <<"E01">>}
          [] h = "vFlashWrite" -> IF args = <<"bad">> THEN {<<"E01">>} ELSE {<<"OK">>, <<"E01">>}
          [] h = "csr"         -> _csr(args)
          [] h \in {"fq", "frequency"} -> _fq(args)
          [] h = "delay"       -> _delay(args)
          [] h = "qCRC"        -> _qCRC(args)
          [] h = "ch32v3_obr"  -> _ch32v3_obr(args)
          [] h = "ch32v3_option_byte" -> _ch32v3_option_byte(args)
          [] h = "set_reset_pin" -> {<<"OK", "O">>}
          [] h = "k"           -> IF autoreset THEN {<<"OK">>, <<"E01">>} ELSE {<<"O", "OK">>}
          [] h = "test"        -> {<<>>}
          [] h = "qXfer"       -> _qXfer(args)
          [] OTHER             -> {}
  <2>1. packets \in answers
    BY <1>3 DEF Answers, Groups
  <2>2. _fq(args) \cup _delay(args) \cup _ch32v3_obr(args) \cup _ch32v3_option_byte(args)
          \cup _qXfer(args) \subseteq OneShape
    BY DEF _fq, _delay, _ch32v3_obr, _ch32v3_option_byte, _qXfer
  <2>3. _csr(args) \subseteq OneShape \cup {<<"O", "E01", "empty">>}
    BY DEF _csr
  <2>4. _qCRC(args) \subseteq OneShape \cup {<<"E01", "empty">>}
    BY DEF _qCRC
  <2> QED BY <2>1, <2>2, <2>3, <2>4
<1> QED BY <1>2, <1>3

-----------------------------------------------------------------------------
(* The settings.                                                           *)

(* A key that is set or removed keeps the map to what the host means, and  *)
(* so do the steps that leave it alone.                                    *)
LEMMA SettingsStep ==
  ASSUME Told, SettingsKept,
         \/ \E k, v : SetKey(k, v)
         \/ \E k : RemoveKey(k)
         \/ UNCHANGED <<settings, told, refused>>
  PROVE  Told' /\ SettingsKept'
<1>1. CASE UNCHANGED <<settings, told, refused>>
  BY <1>1 DEF Told, SettingsKept
<1>2. ASSUME NEW k, NEW v, SetKey(k, v) PROVE Told' /\ SettingsKept'
  <2>1. Told' /\ \A x \in Keys : told'[x] = IF x = k THEN v ELSE told[x]
    BY <1>2 DEF SetKey, Told
  <2>2. ASSUME NEW x \in Keys, x \notin refused', x # k PROVE get_or_default(settings', x) = told[x]
    <3>1. x \notin refused
      BY <1>2, <2>2 DEF SetKey
    <3>2. (x \in DOMAIN settings' <=> x \in DOMAIN settings)
            /\ (x \in DOMAIN settings => settings'[x] = settings[x])
      BY <1>2, <2>2 DEF SetKey, set
    <3> QED BY <3>1, <3>2 DEF SettingsKept, get_or_default
  <2>3. ASSUME k \in Keys, k \notin refused' PROVE get_or_default(settings', k) = v
    <3>1. k \in DOMAIN settings'
      BY <1>2, <2>3 DEF SetKey
    <3>2. settings'[k] = v
      BY <1>2, <3>1 DEF SetKey, set
    <3> QED BY <3>1, <3>2 DEF get_or_default
  <2> QED BY <2>1, <2>2, <2>3 DEF SettingsKept
<1>3. ASSUME NEW k, RemoveKey(k) PROVE Told' /\ SettingsKept'
  <2>1. Told' /\ \A x \in Keys : told'[x] = IF x = k THEN "0" ELSE told[x]
    BY <1>3 DEF RemoveKey, Told
  <2>2. DOMAIN settings' = DOMAIN settings \ {k}
        /\ \A x \in DOMAIN settings' : settings'[x] = settings[x]
    BY <1>3 DEF RemoveKey, remove
  <2>3. refused' = refused \ {k}
    BY <1>3 DEF RemoveKey
  <2> QED BY <2>1, <2>2, <2>3 DEF SettingsKept, get_or_default
<1> QED BY <1>1, <1>2, <1>3

-----------------------------------------------------------------------------
(* The handlers.                                                           *)

(* What one answer keeps.                                                  *)
LEMMA Plain ==
  ASSUME NEW h, h # "test", NEW packets \in OneShape
  PROVE  Sound(h, packets)
BY DEF Sound, NeverAnswers

(* No target runs between two requests.                                    *)
LEMMA IdleIsStopped ==
  ASSUME IInv, last = Idle
  PROVE  ~running
BY DEF IInv, NoneWhileRunning, Idle, None

(* A request that is answered, or lets the target run.                     *)
LEMMA HandlerStep ==
  ASSUME Told', SettingsKept', CustomFits', NEW r, NEW h, NEW packets, Reply(r, h, packets),
         h \in CustomNames => has_commands(target'),
         \/ ~running' /\ Sound(h, packets)
         \/ running' /\ h \in {"vCont", "c", "s"} /\ packets = <<>>
  PROVE  IInv'
<1>1. last'.handler = h /\ last'.sent = packets
  BY DEF Reply
<1>2. CustomOnTarget'
  BY <1>1, TreeNames DEF CustomOnTarget
<1>3. NoneWhileRunning'
  BY <1>1 DEF NoneWhileRunning
<1>4. OneReply'
  BY <1>1, SoundReply DEF OneReply
<1>5. Executes'
  BY DEF Reply, Executes
<1> QED BY <1>2, <1>3, <1>4, <1>5 DEF IInv

(* Handlers that leave the target, its commands and the settings alone.    *)
LEMMA QuietStep ==
  ASSUME IInv, last = Idle, UNCHANGED <<target, custom, settings, told, refused>>,
         NEW r, NEW h, NEW packets, Reply(r, h, packets), h \notin CustomNames,
         \/ (running' => running) /\ Sound(h, packets)
         \/ running' /\ h \in {"vCont", "c", "s"} /\ packets = <<>>
  PROVE  IInv'
<1>1. Told' /\ SettingsKept'
  BY SettingsStep DEF IInv
<1>2. CustomFits'
  BY DEF IInv, CustomFits
<1>3. ~running
  BY IdleIsStopped
<1> QED BY <1>1, <1>2, <1>3, HandlerStep

(* vAttach: a target that is attached brings its own commands, or none.    *)
LEMMA AttachStep ==
  ASSUME IInv, last = Idle, NEW r, NEW h, NEW args, _vAttach(r, h, args)
  PROVE  IInv'
<1>1. ~running
  BY IdleIsStopped
<1>2. CASE Len(args) # 1 /\ Reply(r, h, <<"empty">>) /\ UNCHANGED <<stub, told, refused, reading>>
  <2>1. h = "vAttach" /\ UNCHANGED <<target, custom, settings, told, refused, running>>
    BY <1>2 DEF _vAttach, stub
  <2>2. Sound(h, <<"empty">>) /\ h \notin CustomNames
    BY <2>1, Plain DEF OneShape, CustomNames
  <2> QED BY <1>2, <2>1, <2>2, QuietStep
<1>3. CASE AttachSucceeds(r)
  <2>1. Told' /\ SettingsKept'
    BY <1>3, SettingsStep DEF AttachSucceeds, IInv
  <2>2. CustomFits'
    <3>1. target' = found /\ custom' = has_commands(found)
      BY <1>3 DEF AttachSucceeds, add_target_commands
    <3>2. has_commands(found) \in BOOLEAN
      BY DEF has_commands
    <3>3. custom' \in BOOLEAN /\ (custom' => has_commands(target'))
      BY <3>1, <3>2, Zenon
    <3> QED BY <3>3, Zenon DEF CustomFits
  <2>3. Sound("vAttach", <<"stop">>) /\ "vAttach" \notin CustomNames
    BY Plain DEF OneShape, CustomNames
  <2>4. Reply(r, "vAttach", <<"stop">>) /\ ~running'
    BY <1>1, <1>3 DEF AttachSucceeds
  <2> QED BY <2>1, <2>2, <2>3, <2>4, HandlerStep
<1>4. CASE AttachFails(r)
  <2>1. Told' /\ SettingsKept'
    BY <1>4, SettingsStep DEF AttachFails, IInv
  <2>2. CustomFits'
    BY <1>4 DEF AttachFails, CustomFits
  <2>3. Sound("vAttach", <<"E01">>) /\ "vAttach" \notin CustomNames
    BY Plain DEF OneShape, CustomNames
  <2>4. Reply(r, "vAttach", <<"E01">>) /\ ~running'
    BY <1>1, <1>4 DEF AttachFails
  <2> QED BY <2>1, <2>2, <2>3, <2>4, HandlerStep
<1> QED BY <1>2, <1>3, <1>4 DEF _vAttach

(* Scans and D detach the target; a scan leaves its commands behind.       *)
LEMMA DetachStep ==
  ASSUME IInv, last = Idle, NEW r, NEW h, _scan(r, h) \/ _D(r, h)
  PROVE  IInv'
<1>1. ~running'
  BY IdleIsStopped DEF _scan, _D
<1>2. Told' /\ SettingsKept'
  BY SettingsStep DEF _scan, _D, IInv
<1>3. CustomFits'
  BY DEF _scan, _D, CustomFits, IInv
<1>4. h \in {"swdp_scan", "rvswdp_scan", "sdi_scan", "D"}
  BY DEF _scan, _D
<1>5. \E packets \in OneShape : Reply(r, h, packets)
  BY DEF _scan, _D, OneShape
<1>6. PICK packets \in OneShape : Reply(r, h, packets)
  BY <1>5
<1>7. Sound(h, packets) /\ h \notin CustomNames
  BY <1>4, Plain DEF CustomNames
<1> QED BY <1>1, <1>2, <1>3, <1>6, <1>7, HandlerStep

(* vRun, vCont, c and s: who lets the target run is answered when it stops. *)
LEMMA RunStep ==
  ASSUME IInv, last = Idle, NEW r, NEW h, NEW args, vRun(r, h) \/ _vCont(r, h, args)
  PROVE  IInv'
<1>1. CASE vRun(r, h)
  <2>1. h = "vRun" /\ ~running' /\ Reply(r, h, <<"stop">>)
          /\ UNCHANGED <<target, custom, settings, told, refused>>
    BY <1>1 DEF vRun
  <2>2. Sound(h, <<"stop">>) /\ h \notin CustomNames
    BY <2>1, Plain DEF OneShape, CustomNames
  <2> QED BY <2>1, <2>2, QuietStep
<1>2. CASE _vCont(r, h, args)
  <2>1. h \in {"vCont", "c", "s"} /\ UNCHANGED <<target, custom, settings, told, refused>>
          /\ running' = Resumes(h, args)
    BY <1>2 DEF _vCont
  <2>2. h \notin CustomNames
    BY <2>1 DEF CustomNames
  <2>3. CASE Resumes(h, args)
    <3>1. Reply(r, h, <<>>)
      BY <1>2, <2>3 DEF _vCont
    <3> QED BY <2>1, <2>2, <2>3, <3>1, QuietStep
  <2>4. CASE ~Resumes(h, args)
    <3> DEFINE packets == _vContRefuses(args)
    <3>1. Reply(r, h, packets)
      BY <1>2, <2>4 DEF _vCont
    <3>2. packets \in {<<"data">>, <<"E01">>, <<"empty">>}
      BY DEF _vContRefuses
    <3> HIDE DEF packets
    <3>3. Sound(h, packets)
      BY <2>1, <3>2, Plain DEF OneShape
    <3>4. ~running'
      BY <2>1, <2>4
    <3> QED BY <2>1, <2>2, <3>1, <3>3, <3>4, QuietStep
  <2> QED BY <2>3, <2>4
<1> QED BY <1>1, <1>2


(* mon set and mon unset change the settings as the host means them.       *)
LEMMA SetStep ==
  ASSUME IInv, last = Idle, NEW r, NEW h, NEW args, _set(r, h, args) \/ _unset(r, h, args)
  PROVE  IInv'
<1>1. ~running' /\ UNCHANGED <<target, custom>>
  BY IdleIsStopped DEF _set, _unset
<1>2. Told' /\ SettingsKept'
  BY SettingsStep DEF _set, _unset, IInv
<1>3. CustomFits'
  BY <1>1 DEF CustomFits, IInv
<1>4. h \in {"set", "unset"}
  BY DEF _set, _unset
<1>5. PICK packets \in OneShape : Reply(r, h, packets)
  BY DEF _set, _unset, OneShape
<1>6. Sound(h, packets) /\ h \notin CustomNames
  BY <1>4, Plain DEF CustomNames
<1> QED BY <1>1, <1>2, <1>3, <1>5, <1>6, HandlerStep

(* The switch of the reset pin and the timing of the wire.                 *)
LEMMA SwitchStep ==
  ASSUME IInv, last = Idle, NEW r, NEW h, NEW args, _enable_reset_pin(r, h, args) \/ _sdi_wire(r, h, args)
  PROVE  IInv'
<1>1. UNCHANGED <<target, running, custom, settings, told, refused>>
  BY DEF _enable_reset_pin, _sdi_wire
<1>2. CASE _enable_reset_pin(r, h, args)
  <2>1. h = "enable_reset_pin" /\ Reply(r, h, <<"OK", "O">>)
    BY <1>2 DEF _enable_reset_pin
  <2>2. Sound(h, <<"OK", "O">>) /\ h \notin CustomNames
    BY <2>1 DEF Sound, PrintsLate, CustomNames
  <2> QED BY <1>1, <2>1, <2>2, QuietStep
<1>3. CASE _sdi_wire(r, h, args)
  <2>1. h = "sdi_wire" /\ Reply(r, h, <<"O", "OK">>)
    BY <1>3 DEF _sdi_wire
  <2>2. Sound(h, <<"O", "OK">>) /\ h \notin CustomNames
    BY <2>1, Plain DEF OneShape, CustomNames
  <2> QED BY <1>1, <2>1, <2>2, QuietStep
<1> QED BY <1>2, <1>3

(* The probe that restarts has no target, no settings and nothing to say.  *)
LEMMA Restarted ==
  /\ target = None /\ running = FALSE /\ custom = FALSE /\ settings = <<>>
  /\ told = [k \in Keys |-> "0"] /\ refused = {} /\ last = Idle
  => IInv
<1> SUFFICES ASSUME target = None, running = FALSE, custom = FALSE, settings = <<>>,
                    told = [k \in Keys |-> "0"], refused = {}, last = Idle
             PROVE  IInv
  OBVIOUS
<1>1. Told
  BY DEF Told
<1>2. SettingsKept
  <2>1. DOMAIN settings = {}
    OBVIOUS
  <2> QED BY <2>1 DEF SettingsKept, get_or_default
<1>3. CustomFits
  BY DEF CustomFits
<1>4. last.handler = None
  BY DEF Idle
<1>5. CustomOnTarget
  BY <1>4, TreeNames DEF CustomOnTarget
<1>6. Executes /\ NoneWhileRunning /\ OneReply
  BY DEF Idle, Executes, NoneWhileRunning, OneReply
<1> QED BY <1>1, <1>2, <1>3, <1>5, <1>6 DEF IInv

(* The same, of the state a restart leads to.                              *)
LEMMA RestartedNext ==
  ( /\ target = None /\ running = FALSE /\ custom = FALSE /\ settings = <<>>
    /\ told = [k \in Keys |-> "0"] /\ refused = {} /\ last = Idle)'
  => IInv'
BY Restarted, PTL

(* A new search for symbols forgets where RTT was.                         *)
LEMMA SymbolStep ==
  ASSUME IInv, last = Idle, NEW r, NEW h, NEW args, _qSymbol(r, h, args)
  PROVE  IInv'
<1>1. h = "qSymbol" /\ ~running' /\ UNCHANGED <<target, custom>>
  BY IdleIsStopped DEF _qSymbol
<1>2. Told' /\ SettingsKept'
  BY SettingsStep DEF _qSymbol, StartSymbols, IInv
<1>3. CustomFits'
  BY <1>1 DEF CustomFits, IInv
<1>4. PICK packets \in OneShape : Reply(r, h, packets)
  BY <1>1 DEF _qSymbol, StartSymbols, OneShape
<1>5. Sound(h, packets) /\ h \notin CustomNames
  BY <1>1, Plain DEF CustomNames
<1> QED BY <1>1, <1>2, <1>3, <1>4, <1>5, HandlerStep

(* The handlers without a state of their own: those of a CH32V2/V3 are     *)
(* reached only when such a target is attached.                            *)
LEMMA AnswerStep ==
  ASSUME IInv, last = Idle, NEW r, NEW h, NEW args, Answer(r, h, args),
         h \in CustomNames => target # None /\ custom
  PROVE  IInv'
<1>1. ~running' /\ UNCHANGED <<target, custom, settings, told, refused>>
  BY IdleIsStopped DEF Answer, stub
<1>2. PICK packets \in Answers(h, args) : Reply(r, h, packets)
  BY DEF Answer
<1>3. Sound(h, packets)
  BY AnswersSound
<1>4. Told' /\ SettingsKept'
  BY <1>1, SettingsStep DEF IInv
<1>5. CustomFits' /\ (h \in CustomNames => has_commands(target'))
  BY <1>1 DEF CustomFits, IInv
<1> QED BY <1>1, <1>2, <1>3, <1>4, <1>5, HandlerStep

(* A request, whatever becomes of it.                                      *)
LEMMA RequestStep ==
  ASSUME IInv, Request
  PROVE  IInv'
<1>1. last = Idle
  BY DEF Request
<1>2. custom \in BOOLEAN /\ (target # None) \in BOOLEAN
  BY DEF IInv, CustomFits
<1>3. PICK r \in Requests : exec(r, Dispatch(r, target # None, custom))
  <2>1. PICK x \in Dispatched[target # None][custom] : exec(x[1], x[2])
    BY DEF Request
  <2>2. Dispatched[target # None][custom] = {<<r, Dispatch(r, target # None, custom)>> : r \in Requests}
    <3>1. \A p, q \in BOOLEAN : Dispatched[p][q] = {<<r, Dispatch(r, p, q)>> : r \in Requests}
      BY Zenon DEF Dispatched
    <3> QED BY <1>2, <3>1, Zenon
  <2>3. PICK r \in Requests : x = <<r, Dispatch(r, target # None, custom)>>
    BY <2>1, <2>2
  <2>4. \A e, f : <<e, f>>[1] = e /\ <<e, f>>[2] = f
    OBVIOUS
  <2> QED BY <2>1, <2>3, <2>4, Zenon
<1> DEFINE d    == Dispatch(r, target # None, custom)
           h    == d.handler
           args == conf(h, r.args)
<1>4. h \in CustomNames => target # None /\ custom
  BY <1>2, DispatchCustom
<1>5. d.why # "run" => h = None
  BY DEF Dispatch
<1>6. \/ /\ d.why # "run"
         /\ Reply(r, h, IF d.why = "not connected" THEN <<"O", "E01">> ELSE <<"empty">>)
         /\ UNCHANGED <<stub, told, refused, reading>>
      \/ \/ Answer(r, h, args)
         \/ _scan(r, h) \/ _vAttach(r, h, args) \/ _D(r, h) \/ vRun(r, h) \/ _vCont(r, h, args)
         \/ _set(r, h, args) \/ _unset(r, h, args) \/ _enable_reset_pin(r, h, args)
         \/ _sdi_wire(r, h, args) \/ _reboot(h) \/ _qSymbol(r, h, args)
  BY <1>3 DEF exec
<1> HIDE DEF d, args
<1>7. ASSUME d.why # "run",
             Reply(r, h, IF d.why = "not connected" THEN <<"O", "E01">> ELSE <<"empty">>),
             UNCHANGED <<stub, told, refused, reading>>
      PROVE  IInv'
  <2>1. UNCHANGED <<target, running, custom, settings, told, refused>>
    BY <1>7 DEF stub
  <2>2. PICK packets \in OneShape : Reply(r, h, packets)
    BY <1>7 DEF OneShape
  <2>3. Sound(h, packets) /\ h \notin CustomNames
    BY <1>5, <1>7, TreeNames, Plain DEF None
  <2> QED BY <1>1, <2>1, <2>2, <2>3, QuietStep
<1>8. CASE _reboot(h)
  <2>1. (target = None)' /\ (running = FALSE)' /\ (custom = FALSE)' /\ (settings = <<>>)'
          /\ (told = [k \in Keys |-> "0"])' /\ (refused = {})' /\ (last = Idle)'
    BY <1>8 DEF _reboot
  <2> QED BY <2>1, RestartedNext
<1>9. CASE Answer(r, h, args)
  BY <1>1, <1>4, <1>9, AnswerStep
<1> HIDE DEF h
<1>10. CASE _scan(r, h) \/ _D(r, h)
  BY <1>1, <1>10, DetachStep
<1>11. CASE _vAttach(r, h, args)
  BY <1>1, <1>11, AttachStep
<1>12. CASE vRun(r, h) \/ _vCont(r, h, args)
  BY <1>1, <1>12, RunStep
<1>13. CASE _set(r, h, args) \/ _unset(r, h, args)
  BY <1>1, <1>13, SetStep
<1>14. CASE _enable_reset_pin(r, h, args) \/ _sdi_wire(r, h, args)
  BY <1>1, <1>14, SwitchStep
<1>15. CASE _qSymbol(r, h, args)
  BY <1>1, <1>15, SymbolStep
<1> QED BY <1>6, <1>7, <1>8, <1>9, <1>10, <1>11, <1>12, <1>13, <1>14, <1>15


-----------------------------------------------------------------------------
(* The host.                                                               *)

(* The value of a symbol, and the question for the next.                   *)
LEMMA AnswerSymbolStep ==
  ASSUME IInv, AnswerSymbol
  PROVE  IInv'
<1>1. last.handler = "qSymbol" /\ UNCHANGED <<target, running, custom>>
  BY DEF AnswerSymbol, Asks
<1>2. ~running'
  BY <1>1 DEF IInv, NoneWhileRunning
<1>3. PICK v : q_symbols([words |-> <<"qSymbol">>, args |-> <<v, "name">>], <<v, "name">>)
  BY DEF AnswerSymbol
<1> DEFINE r == [words |-> <<"qSymbol">>, args |-> <<v, "name">>]
<1>4. Told' /\ SettingsKept'
  BY <1>3, SettingsStep DEF q_symbols, IInv
<1>5. CustomFits'
  BY <1>1 DEF CustomFits, IInv
<1>6. \E packets \in OneShape : Reply(r, "qSymbol", packets)
  BY <1>3 DEF q_symbols, OneShape
<1> HIDE DEF r
<1>7. PICK packets \in OneShape : Reply(r, "qSymbol", packets)
  BY <1>6
<1>8. Sound("qSymbol", packets) /\ "qSymbol" \notin CustomNames
  BY Plain DEF CustomNames
<1> QED BY <1>2, <1>4, <1>5, <1>7, <1>8, HandlerStep

(* The host has its answer; nothing is left to be answered.                *)
LEMMA ReceiveStep ==
  ASSUME IInv, Receive
  PROVE  IInv'
<1>1. last' = Idle /\ ~running' /\ UNCHANGED <<target, custom, settings, told, refused>>
  BY DEF Receive, stub
<1>2. Told' /\ SettingsKept'
  BY <1>1, SettingsStep DEF IInv
<1>3. CustomFits'
  BY <1>1 DEF CustomFits, IInv
<1>4. last'.handler = None
  BY <1>1 DEF Idle
<1>5. CustomOnTarget' /\ NoneWhileRunning' /\ OneReply'
  BY <1>1, <1>4, TreeNames DEF CustomOnTarget, NoneWhileRunning, OneReply
<1>6. Executes'
  BY <1>1 DEF Idle, Executes
<1> QED BY <1>2, <1>3, <1>5, <1>6 DEF IInv

(* The target stops, which is the answer to the request that let it run.   *)
LEMMA StopsStep ==
  ASSUME IInv, Stops
  PROVE  IInv'
<1>1. ~running' /\ UNCHANGED <<target, custom, settings, told, refused>>
  BY DEF Stops
<1>2. Told' /\ SettingsKept'
  BY <1>1, SettingsStep DEF IInv
<1>3. CustomFits'
  BY <1>1 DEF CustomFits, IInv
<1>4. last.sent = <<>> /\ last.handler \in {"vCont", "c", "s"}
  BY DEF Stops, IInv, NoneWhileRunning
<1>5. last' = [last EXCEPT !.sent = Append(@, "stop")]
  BY DEF Stops
<1>6. last'.handler = last.handler /\ last'.sent = <<"stop">> /\ Executes'
  <2>1. Append(<<>>, "stop") = <<"stop">>
    OBVIOUS
  <2>2. {"handler", "sent"} \subseteq DOMAIN last
    BY DEF IInv, Executes
  <2> QED BY <1>4, <1>5, <2>1, <2>2 DEF Executes
<1>7. Sound(last'.handler, last'.sent) /\ last'.handler \notin CustomNames
  BY <1>4, <1>6, Plain DEF OneShape, CustomNames
<1>8. CustomOnTarget' /\ NoneWhileRunning' /\ OneReply'
  BY <1>1, <1>7, TreeNames, SoundReply DEF CustomOnTarget, NoneWhileRunning, OneReply
<1> QED BY <1>2, <1>3, <1>6, <1>8 DEF IInv

(* A window of a document.                                                 *)
LEMMA DocumentStep ==
  ASSUME IInv, NEW length, ReadDocument(length)
  PROVE  IInv'
<1>1. last = Idle /\ UNCHANGED <<target, running, custom, settings, told, refused>>
  BY DEF ReadDocument, stub
<1>2. PICK r : Reply(r, "qXfer", <<"data">>)
  BY DEF ReadDocument
<1>3. Sound("qXfer", <<"data">>) /\ "qXfer" \notin CustomNames
  BY Plain DEF OneShape, CustomNames
<1> QED BY <1>1, <1>2, <1>3, QuietStep

(* A register is read or written.                                          *)
LEMMA RegisterStep ==
  ASSUME IInv, AccessRegister
  PROVE  IInv'
<1>1. ~running' /\ UNCHANGED <<target, custom, settings, told, refused>>
  BY IdleIsStopped DEF AccessRegister, stub
<1>2. Told' /\ SettingsKept'
  BY <1>1, SettingsStep DEF IInv
<1>3. CustomFits'
  BY <1>1 DEF CustomFits, IInv
<1>4. last'.handler \in {"p", "P"} /\ last'.sent \in OneShape
  BY DEF AccessRegister, OneShape
<1>5. Sound(last'.handler, last'.sent) /\ last'.handler \notin CustomNames
  BY <1>4, Plain DEF CustomNames
<1>6. CustomOnTarget' /\ NoneWhileRunning' /\ OneReply'
  BY <1>1, <1>5, TreeNames, SoundReply DEF CustomOnTarget, NoneWhileRunning, OneReply
<1>7. Executes'
  BY DEF AccessRegister, Executes
<1> QED BY <1>2, <1>3, <1>6, <1>7 DEF IInv

(* The probe starts with no target and no settings.                        *)
LEMMA InitOk == Init => IInv
BY Restarted DEF Init

(* Every step keeps the invariant.                                         *)
LEMMA NextOk == IInv /\ [Next]_vars => IInv'
<1> SUFFICES ASSUME IInv, [Next]_vars PROVE IInv'
  OBVIOUS
<1>1. CASE UNCHANGED vars
  BY <1>1 DEF vars, stub, IInv, Told, SettingsKept, CustomFits, CustomOnTarget, Executes, NoneWhileRunning, OneReply
<1>2. CASE Next
  BY <1>2, RequestStep, AnswerSymbolStep, ReceiveStep, StopsStep, DocumentStep, RegisterStep DEF Next
<1> QED BY <1>1, <1>2

(* The invariant behind the theorems below holds of every state.           *)
THEOREM Invariant == Spec => []IInv
BY InitOk, NextOk, PTL DEF Spec

(* GDB gets one answer to every request, whatever the trees and the        *)
(* handlers make of it, with whatever parameters: but for the handlers     *)
(* named in Commands, exec_one() and its handler never both answer, and    *)
(* never leave the answer to each other.                                   *)
THEOREM RepliesOnce == Spec => []OneReply
<1>1. IInv => OneReply
  BY DEF IInv
<1> QED BY <1>1, Invariant, PTL

(* A handler of the tree of a CH32V2/V3 only runs with such a target       *)
(* attached, whatever was scanned, attached and detached before.           *)
THEOREM CustomCommands == Spec => []CustomOnTarget
<1>1. IInv => CustomOnTarget
  BY DEF IInv
<1> QED BY <1>1, Invariant, PTL

(* Whatever keys and values the host uses, and however few of them the map *)
(* has room for, the stub reads back what the host set last, unless it was *)
(* refused.                                                                *)
THEOREM SettingsMeant == Spec => []SettingsKept
<1>1. IInv => SettingsKept
  BY DEF IInv
<1> QED BY <1>1, Invariant, PTL

=============================================================================
