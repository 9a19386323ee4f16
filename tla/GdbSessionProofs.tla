-------------------------- MODULE GdbSessionProofs --------------------------
(***************************************************************************)
(* For any set of requests, FIFOs of any size and any mishaps: a stub that *)
(* does not think the target runs works on a halted core; host, task and   *)
(* stub agree on the session; and the host is sent no reply it does not    *)
(* wait for.  The first is about the RTT poller, the second about the      *)
(* events of the task, the third about where the one request of the host   *)
(* is: in the FIFO, in the buffer being parsed, being run, or answered.    *)
(***************************************************************************)
EXTENDS GdbSession, SequenceTheorems, TLAPS

(* RTT has chosen to halt the core, or has: the core ran when it looked,   *)
(* and the stub knows of that.                                             *)
BorrowedWasRunning ==
  "wire" \notin mishaps /\ pc \in {"rtt_halt", "rtt_release"} /\ attached => running

-----------------------------------------------------------------------------
\* The stages of the loop an end, or a start, collected in ev still has to pass
BeforeEnd   == {"poll", "rtt", "rtt_halt", "rtt_release", "start", "end"}
BeforeStart == BeforeEnd \ {"end"}

EndPending   == "end" \in events \/ ("end" \in ev /\ pc \in BeforeEnd)
StartPending == "start" \in events \/ ("start" \in ev /\ pc \in BeforeStart)

(* Once the end of a session has been handled nothing is left of it, and   *)
(* no start that came before that end is still to be handled.              *)
ClosedIsSettled ==
  ~conn => /\ "start" \in events => "end" \in events
           /\ EndPending \/ (~StartPending /\ ~attached /\ ~connected /\ stream # "Ready")

(* Without a reopen that overtakes its close, an open session has no end   *)
(* ahead, and its start is handled or pending.                             *)
OpenIsSettled ==
  conn /\ "reconnect" \notin mishaps =>
    ~EndPending /\ (StartPending \/ (connected /\ stream = "Ready"))

SessionInv == in_session = conn /\ ClosedIsSettled /\ OpenIsSettled /\ (pc = "parse" => stream = "Ready")

-----------------------------------------------------------------------------
(* What waits in the FIFO has an event, and what a closed session leaves   *)
(* there is read before the task sleeps.                                   *)
InputHasEvent ==
  /\ rx # <<>> => "data" \in events \/ ("data" \in ev /\ pc # "wait")
  /\ ~conn /\ "end" \notin events /\ rx # <<>> => "data" \in ev /\ pc # "wait"
  /\ chunk # <<>> => pc = "parse"
  /\ ~conn => tx = <<>> /\ wait = "none"

OnlyBreaks(s) == \A i \in 1..Len(s) : s[i] = Break

\* One request that waits for w, with breaks around it
OneRequest(s, w) ==
  \E k \in 1..Len(s) :
    /\ s[k] # Break /\ WaitsFor(s[k]) = w
    /\ \A i \in 1..Len(s) : i # k => s[i] = Break

(* The one request of the host is nowhere, in the FIFO or being parsed.  A *)
(* stub that does not parse because it thinks its target runs has none.    *)
RequestSomewhere ==
  \/ OnlyBreaks(rx) /\ OnlyBreaks(chunk)
  \/ /\ OneRequest(rx, wait) /\ OnlyBreaks(chunk) /\ tx = <<>>
     /\ running => ~attached /\ chunk = <<>> /\ rx[1] # Break
  \/ OnlyBreaks(rx) /\ OneRequest(chunk, wait) /\ tx = <<>> /\ ~running

(* A reply is there only when the request is nowhere. *)
ReplyIsAwaited ==
  tx # <<>> => /\ Len(tx) = 1 /\ Head(tx) \in {wait, "error"} /\ wait # "none" /\ ~running
               /\ OnlyBreaks(rx) /\ OnlyBreaks(chunk)

(* A stub still deaf from a session that ended while its target ran has no *)
(* target, and hears a ^C only of a host that waits for a stop.            *)
DeafHasNoTarget ==
  running /\ wait # "stop" =>
    ~attached /\ chunk = <<>> /\ \A i \in 1..Len(rx) : rx[i] # Break

Exchange ==
  /\ RequestSomewhere /\ ReplyIsAwaited /\ DeafHasNoTarget
  /\ wait = "none" => OnlyBreaks(rx) /\ OnlyBreaks(chunk)

ExchangeInv == "reconnect" \notin mishaps => ~mismatch /\ (conn => Exchange)

\* No request to resume among the tokens
NoResume(s) == \A i \in 1..Len(s) : s[i] = Break \/ WaitsFor(s[i]) = "answer"

(* A stub that thinks its target runs has one, and no host leaves it like  *)
(* that; the host that waits for a stop has its request, or its reply, on  *)
(* the way, or the target runs; and no session starts but with an idle     *)
(* task, which handles the start before it reads.                          *)
Watched ==
  /\ running => attached
  /\ ~conn => ~running /\ NoResume(rx) /\ NoResume(chunk)
  /\ conn /\ "start" \in events => pc = "wait"
  /\ conn /\ wait = "stop" =>
       tx # <<>> \/ OneRequest(rx, "stop") \/ OneRequest(chunk, "stop") \/ running

WatchedInv == {"vanish", "reconnect"} \cap mishaps = {} => Watched

-----------------------------------------------------------------------------
(* The sequence operations of the FIFOs: a read cuts one in two, a parser  *)
(* takes the first, a request is appended.                                 *)
Token == Request \cup {Break}
Reply == {"answer", "error", "stop"}

LEMMA Cut ==
  ASSUME NEW S, NEW s \in Seq(S), NEW n \in 1..Len(s)
  PROVE  /\ SubSeq(s, 1, n) \in Seq(S) /\ Len(SubSeq(s, 1, n)) = n
         /\ SubSeq(s, 1, n) # <<>>
         /\ \A i \in 1..n : SubSeq(s, 1, n)[i] = s[i]
         /\ SubSeq(s, n + 1, Len(s)) \in Seq(S)
         /\ Len(SubSeq(s, n + 1, Len(s))) = Len(s) - n
         /\ \A i \in 1..(Len(s) - n) : SubSeq(s, n + 1, Len(s))[i] = s[n + i]
<1>1. Len(s) \in Nat /\ n \in Nat /\ n <= Len(s) /\ \A i \in 1..Len(s) : s[i] \in S
  BY ElementOfSeq
<1>2. /\ SubSeq(s, 1, n) \in Seq(S) /\ Len(SubSeq(s, 1, n)) = n
      /\ \A i \in 1..n : SubSeq(s, 1, n)[i] = s[i]
  BY <1>1, SubSeqProperties
<1>3. /\ SubSeq(s, n + 1, Len(s)) \in Seq(S) /\ Len(SubSeq(s, n + 1, Len(s))) = Len(s) - n
      /\ \A i \in 1..(Len(s) - n) : SubSeq(s, n + 1, Len(s))[i] = s[n + i]
  BY <1>1, SubSeqProperties
<1>4. SubSeq(s, 1, n) # <<>>
  BY <1>1, <1>2, EmptySeq
<1> QED BY <1>2, <1>3, <1>4

LEMMA Behead ==
  ASSUME NEW S, NEW s \in Seq(S), s # <<>>
  PROVE  /\ Len(s) \in Nat /\ Len(s) > 0 /\ Head(s) = s[1] /\ Head(s) \in S
         /\ Tail(s) \in Seq(S) /\ Len(Tail(s)) = Len(s) - 1
         /\ \A i \in 1..(Len(s) - 1) : Tail(s)[i] = s[i + 1]
BY HeadTailProperties, EmptySeq, LenProperties

LEMMA Extend ==
  ASSUME NEW S, NEW s \in Seq(S), NEW e \in S
  PROVE  /\ Append(s, e) \in Seq(S) /\ Len(Append(s, e)) = Len(s) + 1
         /\ Append(s, e) # <<>>
         /\ \A i \in 1..Len(s) : Append(s, e)[i] = s[i]
         /\ Append(s, e)[Len(s) + 1] = e
OBVIOUS

LEMMA Lengths ==
  ASSUME NEW S
  PROVE  /\ <<>> \in Seq(S) /\ Len(<<>>) = 0
         /\ \A s \in Seq(S) : Len(s) \in Nat /\ (Len(s) = 0 <=> s = <<>>)
BY EmptySeq, LenProperties

-----------------------------------------------------------------------------
(* Type correctness, in three groups: a step seldom disturbs more than one. *)
Flags == /\ conn \in BOOLEAN /\ broke \in BOOLEAN /\ mismatch \in BOOLEAN
         /\ in_session \in BOOLEAN /\ connected \in BOOLEAN /\ running \in BOOLEAN
         /\ attached \in BOOLEAN /\ rtt \in BOOLEAN
Stages == /\ mishaps \subseteq Mishaps /\ wait \in {"none", "answer", "stop"}
          /\ events \subseteq {"start", "end", "data"} /\ ev \subseteq {"start", "end", "data"}
          /\ pc \in {"wait", "poll", "rtt", "rtt_halt", "rtt_release", "start", "end", "data", "parse"}
          /\ stream \in {"None", "Ready", "Cleaning"}
          /\ core \in Executing \cup Halted
Queues == rx \in Seq(Token) /\ chunk \in Seq(Token) /\ tx \in Seq(Reply)

LEMMA TypeParts ==
  /\ TypeOK <=> Flags /\ Stages /\ Queues
  /\ TypeOK' <=> Flags' /\ Stages' /\ Queues'
<1>1. TypeOK <=> Flags /\ Stages /\ Queues
  BY Zenon DEF TypeOK, Flags, Stages, Queues, Token, Reply
<1>2. TypeOK' <=> Flags' /\ Stages' /\ Queues'
  BY Zenon DEF TypeOK, Flags, Stages, Queues, Token, Reply
<1> QED BY <1>1, <1>2

LEMMA SendTyped ==
  ASSUME Queues, NEW msg \in Reply, Send(msg)
  PROVE  tx' \in Seq(Reply)
<1>1. Append(tx, msg) \in Seq(Reply)
  BY Extend DEF Queues
<1> QED BY <1>1 DEF Send, Queues

USE DEF vars, host, usb, stub

LEMMA TypeInit == Init => TypeOK
BY Lengths DEF Init, TypeOK, Executing

LEMMA HostTyped == ASSUME TypeOK, Host PROVE TypeOK'
<1>0. Flags /\ Stages /\ Queues
  BY TypeParts
<1>1. CASE HostOpen
  BY <1>0, <1>1, TypeParts DEF HostOpen, HappensIf, Happens, Flags, Stages, Queues
<1>2. CASE HostClose
  <2>1. <<>> \in Seq(Reply)
    BY Lengths
  <2> QED BY <1>0, <1>2, <2>1, TypeParts DEF HostClose, HappensIf, Happens, Flags, Stages, Queues
<1>3. CASE HostBreak
  <2>1. Append(rx, Break) \in Seq(Token)
    BY <1>0, Extend DEF Queues, Token
  <2>2. Flags'
    BY <1>0, <1>3 DEF HostBreak, Flags
  <2>3. Stages'
    BY <1>0, <1>3 DEF HostBreak, HappensIf, Happens, Stages
  <2>4. Queues'
    BY <1>0, <1>3, <2>1 DEF HostBreak, Queues
  <2> QED BY <2>2, <2>3, <2>4, TypeParts
<1>4. CASE HostReceive
  <2>1. Tail(tx) \in Seq(Reply)
    BY <1>0, <1>4, Behead DEF Queues, HostReceive
  <2> QED BY <1>0, <1>4, <2>1, TypeParts DEF HostReceive, Flags, Stages, Queues
<1>5. ASSUME NEW req \in Requests, HostRequest(req) PROVE TypeOK'
  <2>1. Append(rx, req) \in Seq(Token)
    BY <1>0, Extend, SessionAssumption DEF Queues, Token, SessionAssumption
  <2>2. Flags'
    BY <1>0, <1>5 DEF HostRequest, Flags
  <2>3. Stages'
    BY <1>0, <1>5 DEF HostRequest, WaitsFor, Stages
  <2>4. Queues'
    BY <1>0, <1>5, <2>1 DEF HostRequest, Queues
  <2> QED BY <2>2, <2>3, <2>4, TypeParts
<1> QED BY <1>1, <1>2, <1>3, <1>4, <1>5 DEF Host

\* What the task's actions leave of the groups
LEMMA CoreTyped ==
  ASSUME Stages
  PROVE  /\ HaltRequest => core' \in Executing \cup Halted /\ mishaps' \subseteq Mishaps
         /\ \A step \in BOOLEAN, swallows \in BOOLEAN :
              HaltResume(step, swallows) => core' \in Executing \cup Halted /\ mishaps' \subseteq Mishaps
         /\ TargetHalt => core' \in Executing \cup Halted /\ mishaps' \subseteq Mishaps
BY DEF Stages, HaltRequest, HaltResume, TargetHalt, Happens, HappensIf, Executing, Halted

LEMMA ExecuteTyped ==
  ASSUME TypeOK, NEW req \in Token, Execute(req) \/ Attach
  PROVE  /\ running' \in BOOLEAN /\ attached' \in BOOLEAN /\ rtt' \in BOOLEAN
         /\ core' \in Executing \cup Halted /\ mishaps' \subseteq Mishaps
         /\ tx' \in Seq(Reply)
<1>0. Flags /\ Stages /\ Queues
  BY TypeParts
<1>1. Send("answer") \/ Send("error") \/ Send("stop") => tx' \in Seq(Reply)
  BY <1>0, SendTyped DEF Reply
<1>2. ASSUME NEW step \in BOOLEAN, Resume(step)
      PROVE  /\ running' \in BOOLEAN /\ attached' \in BOOLEAN /\ rtt' \in BOOLEAN
             /\ core' \in Executing \cup Halted /\ mishaps' \subseteq Mishaps
             /\ tx' \in Seq(Reply)
  BY <1>0, <1>2, CoreTyped DEF Resume, Flags, Queues
<1>3. CASE (req = "vRun" \/ req = "restart") /\ Execute(req)
  BY <1>0, <1>1, <1>3 DEF Execute, Reset, Flags, Stages, Halted
<1>4. CASE req \in {"read", "rtt", "D"} /\ Execute(req)
  BY <1>0, <1>1, <1>4 DEF Execute, Detach, Flags, Stages, Executing
<1>5. CASE Attach
  BY <1>0, <1>1, <1>5 DEF Attach, Flags, Stages, Halted
<1>6. CASE req \in {"c", "s", "vCont_s"} /\ Execute(req)
  BY <1>2, <1>6 DEF Execute
<1> QED BY <1>3, <1>4, <1>5, <1>6 DEF Execute

LEMMA TaskTyped == ASSUME TypeOK, Task PROVE TypeOK'
<1>0. Flags /\ Stages /\ Queues
  BY TypeParts
<1>1. CASE TaskWait
  BY <1>0, <1>1, TypeParts DEF TaskWait, Flags, Stages, Queues
<1>2. CASE TaskPoll
  <2>1. tx' \in Seq(Reply)
    BY <1>0, <1>2, SendTyped DEF TaskPoll, Queues, Reply
  <2> QED BY <1>0, <1>2, <2>1, TypeParts DEF TaskPoll, StopSeen, HappensIf, Happens, Flags, Stages, Queues
<1>3. CASE RttPoll
  BY <1>0, <1>3, TypeParts DEF RttPoll, Flags, Stages, Queues
<1>4. CASE RttHalt
  BY <1>0, <1>4, CoreTyped, TypeParts DEF RttHalt, Flags, Stages, Queues
<1>5. CASE RttRelease
  <2>1. core' \in Executing \cup Halted /\ mishaps' \subseteq Mishaps
    BY <1>0, <1>5 DEF RttRelease, HaltResume, HappensIf, Happens, Stages, Executing
  <2> QED BY <1>0, <1>5, <2>1, TypeParts DEF RttRelease, Flags, Stages, Queues
<1>6. CASE TaskStart
  BY <1>0, <1>6, TypeParts DEF TaskStart, Flags, Stages, Queues
<1>7. CASE TaskEnd
  BY <1>0, <1>7, TypeParts DEF TaskEnd, Detach, Flags, Stages, Queues, Executing
<1>8. CASE TaskNoData
  BY <1>0, <1>8, TypeParts DEF TaskNoData, Flags, Stages, Queues
<1>9. CASE TaskRead
  <2>1. PICK n \in 1..Len(rx) :
          /\ rx' = SubSeq(rx, n + 1, Len(rx))
          /\ chunk' \in {chunk, SubSeq(rx, 1, n)}
          /\ TargetHalt \/ UNCHANGED <<tx, running, core, mishaps>>
          /\ pc' \in {pc, "parse"}
    BY <1>9 DEF TaskRead
  <2>2. rx' \in Seq(Token) /\ chunk' \in Seq(Token)
    <3>1. rx \in Seq(Token) /\ chunk \in Seq(Token)
      BY <1>0 DEF Queues
    <3>2. SubSeq(rx, 1, n) \in Seq(Token) /\ SubSeq(rx, n + 1, Len(rx)) \in Seq(Token)
      BY <3>1, Cut, Zenon
    <3> QED BY <2>1, <3>1, <3>2
  <2>3. tx' \in Seq(Reply) /\ running' \in BOOLEAN
    BY <1>0, <2>1, SendTyped DEF TargetHalt, Queues, Flags, Reply
  <2>4. core' \in Executing \cup Halted /\ mishaps' \subseteq Mishaps
    BY <1>0, <2>1, CoreTyped DEF Stages
  <2> QED BY <1>0, <1>9, <2>1, <2>2, <2>3, <2>4, TypeParts DEF TaskRead, Flags, Stages, Queues
<1>10. CASE TaskParse
  <2>1. Head(chunk) \in Token /\ Tail(chunk) \in Seq(Token)
    BY <1>0, <1>10, Behead DEF TaskParse, Queues
  <2>2. /\ running' \in BOOLEAN /\ attached' \in BOOLEAN /\ rtt' \in BOOLEAN
        /\ core' \in Executing \cup Halted /\ mishaps' \subseteq Mishaps
        /\ tx' \in Seq(Reply)
    BY <1>0, <1>10, <2>1, ExecuteTyped, SendTyped DEF TaskParse, Flags, Stages, Queues, Reply
  <2> QED BY <1>0, <1>10, <2>1, <2>2, TypeParts DEF TaskParse, Flags, Stages, Queues
<1>11. CASE TaskParsed
  BY <1>0, <1>11, TypeParts DEF TaskParsed, Flags, Stages, Queues
<1> QED BY <1>1, <1>2, <1>3, <1>4, <1>5, <1>6, <1>7, <1>8, <1>9, <1>10, <1>11 DEF Task

LEMMA TypeStep == ASSUME TypeOK, [Next]_vars PROVE TypeOK'
<1>1. CASE Host
  BY <1>1, HostTyped
<1>2. CASE Task
  BY <1>2, TaskTyped
<1>3. CASE CoreStops
  BY <1>3 DEF CoreStops, TypeOK, Executing, Halted
<1>4. CASE UNCHANGED vars
  BY <1>4 DEF TypeOK
<1> QED BY <1>1, <1>2, <1>3, <1>4 DEF Next

(* Every variable keeps its type. *)
THEOREM Typed == Spec => []TypeOK
<1>1. Init => TypeOK
  BY TypeInit
<1>2. TypeOK /\ [Next]_vars => TypeOK'
  BY TypeStep
<1> QED BY <1>1, <1>2, PTL DEF Spec

-----------------------------------------------------------------------------
(* The stub and the core.  The host moves neither.                         *)
HaltedInv == TypeOK /\ StoppedUnlessRunning /\ BorrowedWasRunning

LEMMA HostLeavesTarget ==
  ASSUME Host
  PROVE  UNCHANGED <<pc, connected, stream, running, attached, rtt, core, chunk, ev>> /\ mishaps \subseteq mishaps'
BY DEF Host, HostOpen, HostClose, HostBreak, HostReceive, HostRequest, HappensIf, Happens

LEMMA HaltedStep ==
  ASSUME HaltedInv, [Next]_vars
  PROVE  StoppedUnlessRunning' /\ BorrowedWasRunning'
<1>0. StoppedUnlessRunning /\ BorrowedWasRunning /\ Flags /\ Stages
  BY TypeParts DEF HaltedInv
<1>1. CASE Host
  BY <1>0, <1>1, HostLeavesTarget DEF StoppedUnlessRunning, BorrowedWasRunning
<1>2. CASE CoreStops
  BY <1>0, <1>2 DEF CoreStops, StoppedUnlessRunning, BorrowedWasRunning, Halted
<1>3. CASE UNCHANGED vars
  BY <1>0, <1>3 DEF StoppedUnlessRunning, BorrowedWasRunning
<1>4. CASE TaskWait
  BY <1>0, <1>4 DEF TaskWait, StoppedUnlessRunning, BorrowedWasRunning
<1>5. CASE TaskPoll
  BY <1>0, <1>5 DEF TaskPoll, StopSeen, HappensIf, Happens, StoppedUnlessRunning, BorrowedWasRunning
\* The poll that decides finds the core running: attached, the stub knows
<1>6. CASE RttPoll
  BY <1>0, <1>6 DEF RttPoll, StoppedUnlessRunning, BorrowedWasRunning, Executing, Halted
<1>7. CASE RttHalt
  BY <1>0, <1>7 DEF RttHalt, HaltRequest, Happens, StoppedUnlessRunning, BorrowedWasRunning
<1>8. CASE RttRelease
  BY <1>0, <1>8 DEF RttRelease, HaltResume, HappensIf, Happens, StoppedUnlessRunning, BorrowedWasRunning
<1>9. CASE TaskStart
  BY <1>0, <1>9 DEF TaskStart, StoppedUnlessRunning, BorrowedWasRunning
<1>10. CASE TaskEnd
  BY <1>0, <1>10 DEF TaskEnd, Detach, StoppedUnlessRunning, BorrowedWasRunning
<1>11. CASE TaskNoData \/ TaskParsed
  BY <1>0, <1>11 DEF TaskNoData, TaskParsed, StoppedUnlessRunning, BorrowedWasRunning
<1>12. CASE TaskRead
  <2>1. /\ pc' \notin {"rtt_halt", "rtt_release"} /\ attached' = attached
        /\ TargetHalt \/ UNCHANGED <<tx, running, core, mishaps>>
    BY <1>12 DEF TaskRead
  <2>2. CASE TargetHalt
    BY <1>0, <2>1, <2>2 DEF TargetHalt, HaltRequest, Happens, StoppedUnlessRunning, BorrowedWasRunning,
                            Stages, Executing, Halted
  <2> QED BY <1>0, <2>1, <2>2 DEF StoppedUnlessRunning, BorrowedWasRunning
<1>13. CASE TaskParse
  <2>1. pc' \notin {"rtt_halt", "rtt_release"}
    BY <1>13 DEF TaskParse
  <2>2. ASSUME NEW step \in BOOLEAN, Resume(step) PROVE StoppedUnlessRunning'
    BY <2>2 DEF Resume, StoppedUnlessRunning
  <2>3. CASE Attach
    <3>1. ~attached' \/ core' = "request"
      BY <2>3, Zenon DEF Attach
    <3> QED BY <2>1, <3>1 DEF StoppedUnlessRunning, BorrowedWasRunning, Halted
  <2>4. ASSUME NEW req, Execute(req) PROVE StoppedUnlessRunning'
    <3>1. CASE Reset
      BY <3>1 DEF Reset, StoppedUnlessRunning, Halted
    <3>2. CASE Detach
      BY <3>2 DEF Detach, StoppedUnlessRunning
    <3>3. Resume(TRUE) \/ Resume(FALSE) \/ Reset \/ Detach
            \/ UNCHANGED <<running, attached, core, mishaps>>
      BY <2>4, Zenon DEF Execute
    <3>4. CASE UNCHANGED <<running, attached, core, mishaps>>
      BY <1>0, <3>4 DEF StoppedUnlessRunning
    <3> QED BY <2>2, <3>1, <3>2, <3>3, <3>4
  <2>5. UNCHANGED <<running, attached, core, mishaps>> => StoppedUnlessRunning'
    BY <1>0 DEF StoppedUnlessRunning
  <2>6. StoppedUnlessRunning'
    BY <1>13, <2>3, <2>4, <2>5 DEF TaskParse
  <2> QED BY <2>1, <2>6 DEF BorrowedWasRunning
<1> QED BY <1>1, <1>2, <1>3, <1>4, <1>5, <1>6, <1>7, <1>8, <1>9, <1>10, <1>11, <1>12, <1>13 DEF Next, Task

(* run.rs:53 "Halt the target and send a stop reply": as long as no halt,  *)
(* resume or poll failed on the wire, a stub that does not think its       *)
(* target runs works on a halted core, however breakpoints, ^C and the     *)
(* accesses of RTT interleave.                                             *)
THEOREM StoppedTheorem == Spec => []StoppedUnlessRunning
<1>1. Init => HaltedInv
  BY TypeInit DEF Init, HaltedInv, StoppedUnlessRunning, BorrowedWasRunning
<1>2. HaltedInv /\ [Next]_vars => HaltedInv'
  BY HaltedStep, TypeStep DEF HaltedInv
<1>3. HaltedInv => StoppedUnlessRunning
  BY DEF HaltedInv
<1> QED BY <1>1, <1>2, <1>3, PTL DEF Spec

-----------------------------------------------------------------------------
(* Session events.  Where the task is decides which of those it collected  *)
(* still count.                                                            *)
LEMMA SessionInit == Init => SessionInv
BY DEF Init, SessionInv, ClosedIsSettled, OpenIsSettled, EndPending, StartPending

LEMMA ExecuteKeepsSession ==
  ASSUME TaskParse
  PROVE  UNCHANGED <<conn, in_session, events, ev, pc, connected, stream, rx, wait, mismatch>>
BY Zenon DEF TaskParse

LEMMA ParseAddsMishaps == ASSUME TaskParse PROVE mishaps \subseteq mishaps'
<1>1. ASSUME NEW step \in BOOLEAN, Resume(step) PROVE mishaps \subseteq mishaps'
  BY <1>1 DEF Resume, HaltResume, HappensIf, Happens
<1>2. ASSUME NEW req, Execute(req) PROVE mishaps \subseteq mishaps'
  <2>1. \/ Resume(TRUE) \/ Resume(FALSE) \/ Reset
        \/ UNCHANGED <<running, attached, rtt, core, mishaps>> \/ UNCHANGED <<running, attached, core, mishaps>>
        \/ UNCHANGED <<running, mishaps>>
    BY <1>2, Zenon DEF Execute
  <2>2. CASE Reset
    BY <2>2 DEF Reset
  <2> QED BY <1>1, <2>1, <2>2
<1>3. Attach => mishaps' = mishaps
  BY DEF Attach
<1> QED BY <1>2, <1>3 DEF TaskParse

LEMMA SessionStep ==
  ASSUME TypeOK, SessionInv, [Next]_vars
  PROVE  SessionInv'
<1> USE DEF SessionInv, ClosedIsSettled, OpenIsSettled, EndPending, StartPending, BeforeEnd, BeforeStart
<1>0. Flags /\ Stages
  BY TypeParts
<1>1. CASE HostOpen
  BY <1>0, <1>1 DEF HostOpen, TaskIsIdle, HappensIf, Happens, Stages
<1>2. CASE HostClose
  BY <1>0, <1>2 DEF HostClose, HappensIf, Happens
<1>3. CASE HostBreak \/ HostReceive \/ \E req \in Requests : HostRequest(req)
  <2>1. /\ UNCHANGED <<conn, in_session, ev, pc, attached, connected, stream>>
        /\ events' \in {events, events \cup {"data"}} /\ mishaps \subseteq mishaps'
    BY <1>3 DEF HostBreak, HostReceive, HostRequest, HappensIf, Happens
  <2> QED BY <2>1
<1>4. CASE CoreStops \/ UNCHANGED vars
  BY <1>4 DEF CoreStops
<1>5. CASE TaskWait
  BY <1>0, <1>5 DEF TaskWait
<1>6. CASE TaskPoll
  <2>1. /\ UNCHANGED <<conn, in_session, events, ev, attached, connected, stream>>
        /\ pc = "poll" /\ pc' \in {"rtt", "start"} /\ mishaps \subseteq mishaps'
    BY <1>6 DEF TaskPoll, StopSeen, HappensIf, Happens
  <2> QED BY <2>1
<1>7. CASE RttPoll \/ RttHalt \/ RttRelease
  <2>1. /\ UNCHANGED <<conn, in_session, events, ev, attached, connected, stream>>
        /\ pc \in {"rtt", "rtt_halt", "rtt_release"}
        /\ pc' \in {"rtt_halt", "rtt_release", "start"} /\ mishaps \subseteq mishaps'
    BY <1>7 DEF RttPoll, RttHalt, RttRelease, HaltRequest, HaltResume, HappensIf, Happens
  <2> QED BY <2>1
<1>8. CASE TaskStart
  BY <1>0, <1>8 DEF TaskStart
<1>9. CASE TaskEnd
  BY <1>0, <1>9 DEF TaskEnd, Detach
<1>10. CASE TaskNoData \/ TaskParsed
  BY <1>10 DEF TaskNoData, TaskParsed
<1>11. CASE TaskRead
  <2>1. /\ UNCHANGED <<conn, in_session, events, ev, attached, connected, stream>>
        /\ pc = "data" /\ (pc' = "data" \/ (pc' = "parse" /\ stream = "Ready"))
        /\ TargetHalt \/ mishaps' = mishaps
    BY <1>11 DEF TaskRead
  <2>2. mishaps \subseteq mishaps'
    BY <2>1 DEF TargetHalt, HaltRequest, Happens
  <2> QED BY <2>1, <2>2
\* A target is attached only while packets are parsed, and then the session is not settled as closed
<1>12. CASE TaskParse
  <2>1. UNCHANGED <<conn, in_session, events, ev, pc, connected, stream>> /\ pc = "parse"
    BY <1>12, ExecuteKeepsSession DEF TaskParse
  <2>2. mishaps \subseteq mishaps'
    BY <1>12, ParseAddsMishaps
  <2> QED BY <2>1, <2>2
<1> QED BY <1>1, <1>2, <1>3, <1>4, <1>5, <1>6, <1>7, <1>8, <1>9, <1>10, <1>11, <1>12 DEF Next, Host, Task

LEMMA SessionIsInvariant == Spec => [](TypeOK /\ SessionInv)
<1>1. Init => TypeOK /\ SessionInv
  BY TypeInit, SessionInit
<1>2. TypeOK /\ SessionInv /\ [Next]_vars => (TypeOK /\ SessionInv)'
  BY TypeStep, SessionStep
<1> QED BY <1>1, <1>2, PTL DEF Spec

(* Whenever the task has handled every event, no target stays attached to  *)
(* a probe whose host is gone, and, unless a reopen overtook its close,    *)
(* the task and its stream agree with the host on whether it is open.      *)
THEOREM AgreementTheorem == Spec => []SessionAgreement
<1>1. TypeOK /\ SessionInv => SessionAgreement
  BY DEF SessionAgreement, Quiescent, SessionInv, ClosedIsSettled, OpenIsSettled, EndPending, StartPending,
         BeforeEnd, BeforeStart, TypeOK
<1> QED BY <1>1, SessionIsInvariant, PTL

-----------------------------------------------------------------------------
(* Where breaks and the request go when a FIFO is read, extended, parsed.  *)
LEMMA NotBreak == Break \notin Request
BY DEF Break, Request

LEMMA EmptyHasOnlyBreaks == OnlyBreaks(<<>>)
BY Lengths DEF OnlyBreaks

LEMMA CutBreaks ==
  ASSUME NEW s \in Seq(Token), NEW n \in 1..Len(s), OnlyBreaks(s)
  PROVE  OnlyBreaks(SubSeq(s, 1, n)) /\ OnlyBreaks(SubSeq(s, n + 1, Len(s)))
<1>1. Len(s) \in Nat
  BY Lengths
<1>2. /\ Len(SubSeq(s, 1, n)) = n /\ \A i \in 1..n : SubSeq(s, 1, n)[i] = s[i]
      /\ Len(SubSeq(s, n + 1, Len(s))) = Len(s) - n
      /\ \A i \in 1..(Len(s) - n) : SubSeq(s, n + 1, Len(s))[i] = s[n + i]
  BY Cut, Zenon
<1> QED BY <1>1, <1>2 DEF OnlyBreaks

LEMMA CutRequest ==
  ASSUME NEW s \in Seq(Token), NEW n \in 1..Len(s), NEW w, OneRequest(s, w)
  PROVE  /\ \/ OneRequest(SubSeq(s, 1, n), w) /\ OnlyBreaks(SubSeq(s, n + 1, Len(s)))
            \/ OnlyBreaks(SubSeq(s, 1, n)) /\ OneRequest(SubSeq(s, n + 1, Len(s)), w)
         /\ s[1] # Break => OnlyBreaks(SubSeq(s, n + 1, Len(s)))
<1>1. Len(s) \in Nat
  BY Lengths
<1>2. /\ Len(SubSeq(s, 1, n)) = n /\ \A i \in 1..n : SubSeq(s, 1, n)[i] = s[i]
      /\ Len(SubSeq(s, n + 1, Len(s))) = Len(s) - n
      /\ \A i \in 1..(Len(s) - n) : SubSeq(s, n + 1, Len(s))[i] = s[n + i]
  BY Cut, Zenon
<1>3. PICK k \in 1..Len(s) : /\ s[k] # Break /\ WaitsFor(s[k]) = w
                             /\ \A i \in 1..Len(s) : i # k => s[i] = Break
  BY DEF OneRequest
<1>4. CASE k <= n
  <2>1. OnlyBreaks(SubSeq(s, n + 1, Len(s)))
    BY <1>1, <1>2, <1>3, <1>4 DEF OnlyBreaks
  <2>2. OneRequest(SubSeq(s, 1, n), w)
    <3>1. k \in 1..n /\ SubSeq(s, 1, n)[k] = s[k]
      BY <1>1, <1>2, <1>4
    <3>2. \A i \in 1..n : i # k => SubSeq(s, 1, n)[i] = Break
      BY <1>1, <1>2, <1>3
    <3> QED BY <1>2, <1>3, <3>1, <3>2 DEF OneRequest
  <2> QED BY <2>1, <2>2
<1>5. CASE k > n
  <2>1. OnlyBreaks(SubSeq(s, 1, n)) /\ s[1] = Break
    BY <1>1, <1>2, <1>3, <1>5 DEF OnlyBreaks
  <2>2. OneRequest(SubSeq(s, n + 1, Len(s)), w)
    <3>1. k - n \in 1..(Len(s) - n) /\ SubSeq(s, n + 1, Len(s))[k - n] = s[k]
      BY <1>1, <1>2, <1>5
    <3>2. \A i \in 1..(Len(s) - n) : i # k - n => SubSeq(s, n + 1, Len(s))[i] = Break
      BY <1>1, <1>2, <1>3
    <3> QED BY <1>2, <1>3, <3>1, <3>2 DEF OneRequest
  <2> QED BY <2>1, <2>2
<1> QED BY <1>1, <1>4, <1>5

LEMMA BeheadBreaks ==
  ASSUME NEW s \in Seq(Token), s # <<>>, OnlyBreaks(s)
  PROVE  Head(s) = Break /\ OnlyBreaks(Tail(s))
<1>1. /\ Len(s) \in Nat /\ Len(s) > 0 /\ Head(s) = s[1]
      /\ Len(Tail(s)) = Len(s) - 1
      /\ \A i \in 1..(Len(s) - 1) : Tail(s)[i] = s[i + 1]
  BY Behead, Zenon
<1> QED BY <1>1 DEF OnlyBreaks

LEMMA BeheadRequest ==
  ASSUME NEW s \in Seq(Token), s # <<>>, NEW w, OneRequest(s, w)
  PROVE  \/ Head(s) = Break /\ OneRequest(Tail(s), w)
         \/ Head(s) # Break /\ WaitsFor(Head(s)) = w /\ OnlyBreaks(Tail(s))
<1>1. /\ Len(s) \in Nat /\ Len(s) > 0 /\ Head(s) = s[1]
      /\ Len(Tail(s)) = Len(s) - 1
      /\ \A i \in 1..(Len(s) - 1) : Tail(s)[i] = s[i + 1]
  BY Behead, Zenon
<1>2. PICK k \in 1..Len(s) : /\ s[k] # Break /\ WaitsFor(s[k]) = w
                             /\ \A i \in 1..Len(s) : i # k => s[i] = Break
  BY DEF OneRequest
<1>3. CASE k = 1
  <2>1. OnlyBreaks(Tail(s))
    BY <1>1, <1>2, <1>3 DEF OnlyBreaks
  <2> QED BY <1>1, <1>2, <1>3, <2>1
<1>4. CASE k # 1
  <2>1. k - 1 \in 1..(Len(s) - 1) /\ Tail(s)[k - 1] = s[k] /\ Head(s) = Break
    BY <1>1, <1>2, <1>4
  <2>2. \A i \in 1..(Len(s) - 1) : i # k - 1 => Tail(s)[i] = Break
    BY <1>1, <1>2
  <2> QED BY <1>1, <1>2, <2>1, <2>2 DEF OneRequest
<1> QED BY <1>3, <1>4

LEMMA ExtendByBreak ==
  ASSUME NEW s \in Seq(Token), NEW w
  PROVE  /\ OnlyBreaks(s) => OnlyBreaks(Append(s, Break))
         /\ OneRequest(s, w) => OneRequest(Append(s, Break), w)
<1>1. Len(s) \in Nat
  BY Lengths
<1>2. /\ Len(Append(s, Break)) = Len(s) + 1
      /\ \A i \in 1..Len(s) : Append(s, Break)[i] = s[i]
      /\ Append(s, Break)[Len(s) + 1] = Break
  BY Extend DEF Token
<1>3. OnlyBreaks(s) => OnlyBreaks(Append(s, Break))
  BY <1>1, <1>2 DEF OnlyBreaks
<1>4. ASSUME OneRequest(s, w) PROVE OneRequest(Append(s, Break), w)
  <2>1. PICK k \in 1..Len(s) : /\ s[k] # Break /\ WaitsFor(s[k]) = w
                               /\ \A i \in 1..Len(s) : i # k => s[i] = Break
    BY <1>4 DEF OneRequest
  <2>2. k \in 1..(Len(s) + 1) /\ Append(s, Break)[k] = s[k]
    BY <1>1, <1>2
  <2>3. \A i \in 1..(Len(s) + 1) : i # k => Append(s, Break)[i] = Break
    BY <1>1, <1>2, <2>1
  <2> QED BY <1>2, <2>1, <2>2, <2>3 DEF OneRequest
<1> QED BY <1>3, <1>4

LEMMA ExtendByRequest ==
  ASSUME NEW s \in Seq(Token), NEW req \in Request, OnlyBreaks(s)
  PROVE  OneRequest(Append(s, req), WaitsFor(req))
<1>1. Len(s) \in Nat
  BY Lengths
<1>2. /\ Len(Append(s, req)) = Len(s) + 1
      /\ \A i \in 1..Len(s) : Append(s, req)[i] = s[i]
      /\ Append(s, req)[Len(s) + 1] = req
  BY Extend DEF Token
<1>3. Len(s) + 1 \in 1..Len(Append(s, req)) /\ req # Break
  BY <1>1, <1>2, NotBreak
<1>4. \A i \in 1..Len(Append(s, req)) : i # Len(s) + 1 => Append(s, req)[i] = Break
  BY <1>1, <1>2 DEF OnlyBreaks
<1> QED BY <1>2, <1>3, <1>4 DEF OneRequest

LEMMA SendOne ==
  ASSUME NEW msg, Send(msg), in_session, tx = <<>>
  PROVE  tx' # <<>> /\ Len(tx') = 1 /\ Head(tx') = msg
BY DEF Send

-----------------------------------------------------------------------------
(* What a step that moves no token, sends nothing and takes no request does *)
(* to the exchange.                                                         *)
LEMMA Idles ==
  ASSUME ExchangeInv, UNCHANGED <<conn, wait, mismatch, rx, tx, chunk, running>>,
         mishaps \subseteq mishaps', attached' = attached \/ ~attached'
  PROVE  ExchangeInv'
<1>1. Exchange => Exchange'
  BY DEF Exchange, RequestSomewhere, ReplyIsAwaited, DeafHasNoTarget, OnlyBreaks, OneRequest
<1> QED BY <1>1 DEF ExchangeInv

LEMMA InputInit == Init => InputHasEvent /\ ExchangeInv
BY DEF Init, InputHasEvent, ExchangeInv

LEMMA InputStep ==
  ASSUME TypeOK, SessionInv, InputHasEvent, [Next]_vars
  PROVE  InputHasEvent'
<1> USE DEF InputHasEvent
<1>0. Flags /\ Stages /\ Queues /\ in_session = conn
  BY TypeParts DEF SessionInv
<1>1. CASE HostOpen
  BY <1>1 DEF HostOpen
<1>2. CASE HostClose
  BY <1>2 DEF HostClose
<1>3. CASE HostBreak \/ \E req \in Requests : HostRequest(req)
  <2>1. /\ UNCHANGED <<conn, pc, ev, chunk>> /\ conn
        /\ events' = events \cup {"data"}
    BY <1>3 DEF HostBreak, HostRequest
  <2> QED BY <2>1
<1>4. CASE HostReceive
  BY <1>4 DEF HostReceive
<1>5. CASE CoreStops \/ UNCHANGED vars
  BY <1>5 DEF CoreStops
<1>6. CASE TaskWait
  BY <1>0, <1>6 DEF TaskWait
<1>7. CASE TaskPoll \/ RttPoll \/ RttHalt \/ RttRelease \/ TaskStart \/ TaskEnd
  <2>1. /\ UNCHANGED <<conn, wait, rx, events, ev, chunk>> /\ pc # "wait" /\ pc # "parse" /\ pc' # "wait"
        /\ tx' = tx \/ Send("stop")
    BY <1>7 DEF TaskPoll, RttPoll, RttHalt, RttRelease, TaskStart, TaskEnd
  <2> QED BY <1>0, <2>1 DEF Send
<1>8. CASE TaskNoData \/ TaskParsed
  BY <1>8 DEF TaskNoData, TaskParsed
<1>9. CASE TaskRead
  <2>1. /\ UNCHANGED <<conn, wait, events, ev>> /\ rx # <<>> /\ "data" \in ev /\ pc = "data"
        /\ (pc' = "data" /\ chunk' = chunk) \/ pc' = "parse"
        /\ tx' = tx \/ Send("stop")
    <3>1. PICK n \in 1..Len(rx) : TRUE
      BY <1>9 DEF TaskRead
    <3>2. rx # <<>>
      BY <3>1, Lengths
    <3> QED BY <1>9, <3>2 DEF TaskRead, TargetHalt
  <2> QED BY <1>0, <2>1 DEF Send
<1>10. CASE TaskParse
  <2>1. UNCHANGED <<conn, wait, events, ev, pc, rx>> /\ pc = "parse"
    BY <1>10, ExecuteKeepsSession DEF TaskParse
  <2>2. tx' = tx \/ Send("answer") \/ Send("error") \/ Send("stop")
    <3>1. ASSUME NEW req, Execute(req) PROVE tx' = tx \/ Send("answer") \/ Send("error") \/ Send("stop")
      BY <3>1 DEF Execute, Resume
    <3>2. Attach => Send("answer") \/ Send("error")
      BY DEF Attach
    <3> QED BY <1>10, <3>1, <3>2 DEF TaskParse
  <2> QED BY <1>0, <2>1, <2>2 DEF Send
<1> QED BY <1>1, <1>2, <1>3, <1>4, <1>5, <1>6, <1>7, <1>8, <1>9, <1>10 DEF Next, Host, Task

-----------------------------------------------------------------------------
(* The host's side of the exchange.                                        *)
LEMMA HostExchanges ==
  ASSUME TypeOK, SessionInv, InputHasEvent, ExchangeInv, Host
  PROVE  ExchangeInv'
<1>0. Flags /\ Stages /\ Queues
  BY TypeParts
<1>a. SUFFICES ASSUME "reconnect" \notin mishaps' PROVE ~mismatch' /\ (conn' => Exchange')
  BY DEF ExchangeInv
<1>b. "reconnect" \notin mishaps /\ ~mismatch /\ (conn => Exchange)
  BY <1>a, HostLeavesTarget DEF ExchangeInv
\* The task is idle: nothing of the session before is left
<1>1. CASE HostOpen
  <2>1. TaskIsIdle /\ ~conn /\ wait' = "none" /\ UNCHANGED <<mismatch, rx, tx, chunk, running, attached>>
    BY <1>1, <1>a DEF HostOpen, HappensIf, Happens
  <2>2. rx = <<>> /\ chunk = <<>> /\ tx = <<>> /\ ~attached
    BY <2>1 DEF TaskIsIdle, InputHasEvent, SessionInv, ClosedIsSettled, EndPending, BeforeEnd
  <2>3. OnlyBreaks(rx') /\ OnlyBreaks(chunk') /\ \A i \in 1..Len(rx') : rx'[i] # Break
    BY <2>1, <2>2, EmptyHasOnlyBreaks, Lengths
  <2> QED BY <1>b, <2>1, <2>2, <2>3 DEF Exchange, RequestSomewhere, ReplyIsAwaited, DeafHasNoTarget
<1>2. CASE HostClose
  BY <1>2, <1>b DEF HostClose
<1>3. ASSUME NEW req \in Requests, HostRequest(req) PROVE ~mismatch' /\ (conn' => Exchange')
  <2>1. /\ conn /\ wait = "none" /\ rx' = Append(rx, req) /\ wait' = WaitsFor(req)
        /\ UNCHANGED <<conn, mismatch, tx, chunk, running, attached>>
    BY <1>3 DEF HostRequest
  <2>2. req \in Request /\ rx \in Seq(Token) /\ req \in Token /\ req # Break
    BY <1>0, SessionAssumption, NotBreak DEF SessionAssumption, Queues, Token
  <2>3. OnlyBreaks(rx) /\ OnlyBreaks(chunk) /\ tx = <<>>
    BY <1>b, <2>1 DEF Exchange, ReplyIsAwaited
  <2>4. OneRequest(rx', wait') /\ OnlyBreaks(chunk') /\ tx' = <<>>
    BY <2>1, <2>2, <2>3, ExtendByRequest
  <2>5. ASSUME running PROVE ~attached /\ chunk = <<>> /\ rx = <<>>
    <3>1. ~attached /\ chunk = <<>> /\ \A i \in 1..Len(rx) : rx[i] # Break
      BY <1>b, <2>1, <2>5 DEF Exchange, DeafHasNoTarget
    <3>2. Len(rx) = 0
      BY <2>2, <2>3, <3>1, Lengths DEF OnlyBreaks
    <3> QED BY <2>2, <3>1, <3>2, Lengths
  <2>6. rx = <<>> => Len(rx') = 1 /\ rx'[1] # Break
    BY <2>1, <2>2, Extend, Lengths
  <2>7. RequestSomewhere'
    BY <2>1, <2>4, <2>5, <2>6 DEF RequestSomewhere
  <2>8. DeafHasNoTarget'
    BY <2>1, <2>5, <2>6 DEF DeafHasNoTarget
  <2>9. wait' # "none"
    BY <2>1 DEF WaitsFor
  <2> QED BY <1>b, <2>1, <2>4, <2>7, <2>8, <2>9 DEF Exchange, ReplyIsAwaited
<1>4. CASE HostBreak
  <2>1. /\ conn /\ wait = "stop" /\ rx' = Append(rx, Break)
        /\ UNCHANGED <<conn, wait, mismatch, tx, chunk, running, attached>>
    BY <1>4 DEF HostBreak
  <2>2. rx \in Seq(Token) /\ Exchange
    BY <1>0, <1>b, <2>1 DEF Queues
  <2>3. /\ OnlyBreaks(rx) => OnlyBreaks(rx')
        /\ OneRequest(rx, wait) => OneRequest(rx', wait')
    BY <2>1, <2>2, ExtendByBreak
  <2>4. OneRequest(rx, wait) => rx'[1] = rx[1]
    <3>1. Break \in Token
      BY DEF Token
    <3>2. \A i \in 1..Len(rx) : rx'[i] = rx[i]
      BY <2>1, <2>2, <3>1, Extend, Zenon
    <3>3. OneRequest(rx, wait) => 1 \in 1..Len(rx)
      BY <2>2, Lengths DEF OneRequest
    <3> QED BY <3>2, <3>3
  <2>5. /\ OnlyBreaks(chunk') <=> OnlyBreaks(chunk)
        /\ OneRequest(chunk', wait') <=> OneRequest(chunk, wait)
    BY <2>1
  <2>6. RequestSomewhere'
    BY <2>1, <2>2, <2>3, <2>4, <2>5 DEF Exchange, RequestSomewhere
  <2>7. ReplyIsAwaited'
    BY <2>1, <2>2, <2>3, <2>5 DEF Exchange, ReplyIsAwaited
  <2> QED BY <1>b, <2>1, <2>6, <2>7 DEF Exchange, DeafHasNoTarget
<1>5. CASE HostReceive
  <2>1. conn /\ tx # <<>> /\ tx' = Tail(tx) /\ UNCHANGED <<conn, rx, chunk, running, attached>>
    BY <1>5 DEF HostReceive
  <2>2. /\ Len(tx) = 1 /\ Head(tx) \in {wait, "error"} /\ wait # "none" /\ ~running
        /\ OnlyBreaks(rx) /\ OnlyBreaks(chunk)
    BY <1>b, <2>1 DEF Exchange, ReplyIsAwaited
  <2>3. wait' = "none" /\ mismatch' = mismatch
    BY <1>5, <2>2 DEF HostReceive
  <2>4. tx' = <<>>
    BY <1>0, <2>1, <2>2, Behead, Lengths DEF Queues
  <2>5. OnlyBreaks(rx') /\ OnlyBreaks(chunk') /\ ~running'
    BY <2>1, <2>2
  <2> QED BY <1>b, <2>3, <2>4, <2>5 DEF Exchange, RequestSomewhere, ReplyIsAwaited, DeafHasNoTarget
<1> QED BY <1>1, <1>2, <1>3, <1>4, <1>5 DEF Host

-----------------------------------------------------------------------------
(* The task's side.  A stop is sent when the stub stops thinking that its   *)
(* target runs, and then the request for it is nowhere any more.            *)
LEMMA StopIsAwaited ==
  ASSUME TypeOK, SessionInv, Exchange, conn, running,
         OnlyBreaks(rx), OnlyBreaks(chunk), wait = "stop", Send("stop"), ~running',
         UNCHANGED <<wait, attached>>, OnlyBreaks(rx'), OnlyBreaks(chunk')
  PROVE  Exchange'
<1>1. tx = <<>> /\ in_session
  BY DEF Exchange, ReplyIsAwaited, SessionInv
<1>2. tx' # <<>> /\ Len(tx') = 1 /\ Head(tx') = "stop"
  BY <1>1, SendOne
<1> QED BY <1>2 DEF Exchange, RequestSomewhere, ReplyIsAwaited, DeafHasNoTarget

LEMMA PollExchanges ==
  ASSUME TypeOK, SessionInv, ExchangeInv, TaskPoll
  PROVE  ExchangeInv'
<1>1. UNCHANGED <<conn, wait, mismatch, rx, chunk, attached>> /\ mishaps \subseteq mishaps'
  BY DEF TaskPoll, StopSeen, HappensIf, Happens
<1>2. CASE UNCHANGED <<tx, running>>
  BY <1>1, <1>2, Idles
<1>3. CASE attached /\ running /\ Send("stop") /\ running' = FALSE
  <2> SUFFICES ASSUME "reconnect" \notin mishaps, conn, Exchange PROVE Exchange'
    BY <1>1 DEF ExchangeInv
  <2>1. OnlyBreaks(rx) /\ OnlyBreaks(chunk) /\ wait = "stop"
    BY <1>3 DEF Exchange, RequestSomewhere, DeafHasNoTarget
  <2>2. OnlyBreaks(rx') /\ OnlyBreaks(chunk') /\ ~running'
    BY <1>1, <1>3, <2>1
  <2> QED BY <1>1, <1>3, <2>1, <2>2, StopIsAwaited
<1> QED BY <1>2, <1>3 DEF TaskPoll

LEMMA ReadExchanges ==
  ASSUME TypeOK, SessionInv, InputHasEvent, ExchangeInv, TaskRead
  PROVE  ExchangeInv'
<1>0. rx \in Seq(Token) /\ chunk = <<>>
  BY TypeParts DEF Queues, InputHasEvent, TaskRead
<1>1. UNCHANGED <<conn, wait, mismatch, attached>>
  BY DEF TaskRead
<1>2. PICK n \in 1..Len(rx) :
        /\ rx' = SubSeq(rx, n + 1, Len(rx))
        /\ \/ running /\ SubSeq(rx, 1, n) = <<Break>> /\ TargetHalt /\ chunk' = chunk
           \/ running /\ UNCHANGED <<chunk, tx, running, mishaps>>
           \/ ~running /\ UNCHANGED <<chunk, tx, running, mishaps>>
           \/ ~running /\ chunk' = SubSeq(rx, 1, n) /\ UNCHANGED <<tx, running, mishaps>>
  BY DEF TaskRead
<1>3. mishaps \subseteq mishaps'
  BY <1>2 DEF TargetHalt, HaltRequest, Happens
<1> DEFINE head == SubSeq(rx, 1, n)
           rest == SubSeq(rx, n + 1, Len(rx))
<1>4. /\ Len(head) = n /\ \A i \in 1..n : head[i] = rx[i]
      /\ Len(rest) = Len(rx) - n /\ \A i \in 1..(Len(rx) - n) : rest[i] = rx[n + i]
      /\ Len(rx) \in Nat
  BY <1>0, Cut, Lengths, Zenon
<1>5. OnlyBreaks(rx) => OnlyBreaks(head) /\ OnlyBreaks(rest)
  BY <1>0, CutBreaks, Zenon
<1>6. OneRequest(rx, wait) =>
        /\ (OneRequest(head, wait) /\ OnlyBreaks(rest)) \/ (OnlyBreaks(head) /\ OneRequest(rest, wait))
        /\ rx[1] # Break => OnlyBreaks(rest)
  BY <1>0, CutRequest, Zenon
<1>7. (\A i \in 1..Len(rx) : rx[i] # Break) => \A i \in 1..Len(rest) : rest[i] # Break
  BY <1>4
<1>8. OnlyBreaks(chunk)
  BY <1>0, EmptyHasOnlyBreaks
<1>9. rx' = rest
  BY <1>2
<1> HIDE DEF head, rest
<1>10. SUFFICES ASSUME "reconnect" \notin mishaps, conn, Exchange PROVE Exchange'
  BY <1>1, <1>3 DEF ExchangeInv
\* A lone ^C: it was not sent by a host that does not wait for a stop
<1>11. CASE running /\ head = <<Break>> /\ TargetHalt /\ chunk' = chunk
  <2>1. rx[1] = Break /\ 1 \in 1..Len(rx)
    BY <1>4, <1>11
  <2>2. wait = "stop" /\ OnlyBreaks(rx)
    BY <1>0, <1>8, <1>10, <1>11, <2>1, EmptyHasOnlyBreaks DEF Exchange, RequestSomewhere, DeafHasNoTarget
  <2>3. OnlyBreaks(rx') /\ OnlyBreaks(chunk')
    BY <1>5, <1>8, <1>9, <1>11, <2>2
  <2>4. ~running' /\ Send("stop")
    BY <1>11 DEF TargetHalt
  <2> QED BY <1>1, <1>8, <1>10, <1>11, <2>2, <2>3, <2>4, StopIsAwaited
\* The deaf stub throws away what it reads, the request first
<1>12. CASE running /\ UNCHANGED <<chunk, tx, running, mishaps>>
  <2>1. OnlyBreaks(rx) \/ (OneRequest(rx, wait) /\ rx[1] # Break)
    BY <1>10, <1>12 DEF Exchange, RequestSomewhere
  <2>2. OnlyBreaks(rx') /\ OnlyBreaks(chunk')
    BY <1>5, <1>6, <1>8, <1>9, <1>12, <2>1
  <2>3. DeafHasNoTarget'
    BY <1>1, <1>7, <1>9, <1>10, <1>12 DEF Exchange, DeafHasNoTarget
  <2>4. ReplyIsAwaited'
    BY <1>1, <1>10, <1>12, <2>2 DEF Exchange, ReplyIsAwaited
  <2> QED BY <2>2, <2>3, <2>4 DEF Exchange, RequestSomewhere
\* A closing stream throws away, a ready one parses, what is read
<1>13. CASE ~running /\ chunk' \in {chunk, head} /\ UNCHANGED <<tx, running>>
  <2>1. OnlyBreaks(rx) \/ (OneRequest(rx, wait) /\ tx = <<>>)
    BY <1>8, <1>10 DEF Exchange, RequestSomewhere
  <2>2. \/ OnlyBreaks(rx') /\ OnlyBreaks(chunk')
        \/ tx = <<>> /\ OneRequest(rx', wait) /\ OnlyBreaks(chunk')
        \/ tx = <<>> /\ OnlyBreaks(rx') /\ OneRequest(chunk', wait)
    BY <1>5, <1>6, <1>8, <1>9, <1>13, <2>1
  <2>3. OnlyBreaks(rx) => OnlyBreaks(rx') /\ OnlyBreaks(chunk')
    BY <1>5, <1>8, <1>9, <1>13
  <2>4. RequestSomewhere'
    BY <1>1, <1>13, <2>2 DEF RequestSomewhere
  <2>5. ReplyIsAwaited'
    BY <1>1, <1>10, <1>13, <2>3 DEF Exchange, ReplyIsAwaited
  <2> QED BY <1>1, <1>10, <1>13, <2>3, <2>4, <2>5 DEF Exchange, DeafHasNoTarget
<1> QED BY <1>2, <1>11, <1>12, <1>13 DEF head

LEMMA ParseExchanges ==
  ASSUME TypeOK, SessionInv, InputHasEvent, ExchangeInv, TaskParse
  PROVE  ExchangeInv'
<1>0. Flags /\ rx \in Seq(Token) /\ chunk \in Seq(Token) /\ chunk # <<>> /\ chunk' = Tail(chunk)
  BY TypeParts DEF Queues, TaskParse
<1>1. UNCHANGED <<conn, wait, mismatch, rx, in_session>>
  BY ExecuteKeepsSession
<1>2. mishaps \subseteq mishaps'
  BY ParseAddsMishaps
<1>3. SUFFICES ASSUME "reconnect" \notin mishaps, conn, Exchange PROVE Exchange'
  BY <1>1, <1>2 DEF ExchangeInv
<1>4. /\ OnlyBreaks(chunk) => Head(chunk) = Break /\ OnlyBreaks(chunk')
      /\ OneRequest(chunk, wait) =>
           \/ Head(chunk) = Break /\ OneRequest(chunk', wait)
           \/ Head(chunk) # Break /\ WaitsFor(Head(chunk)) = wait /\ OnlyBreaks(chunk')
  BY <1>0, BeheadBreaks, BeheadRequest, Zenon
<1>5. (OnlyBreaks(rx') <=> OnlyBreaks(rx)) /\ (OneRequest(rx', wait') <=> OneRequest(rx, wait))
  BY <1>1
<1>6. running => wait = "stop"
  BY <1>0, <1>3 DEF Exchange, DeafHasNoTarget
<1>7. CASE Head(chunk) = Break
  <2>1. UNCHANGED <<running, attached, tx>>
    <3>1. Head(chunk) # "vAttach"
      BY <1>7, NotBreak DEF Request
    <3> QED BY <1>7, <3>1 DEF TaskParse
  <2>2. RequestSomewhere'
    BY <1>0, <1>1, <1>3, <1>4, <1>5, <1>7, <2>1 DEF Exchange, RequestSomewhere
  <2>3. ReplyIsAwaited'
    BY <1>1, <1>3, <1>4, <1>5, <2>1 DEF Exchange, ReplyIsAwaited
  <2> QED BY <1>1, <1>3, <1>4, <1>5, <1>6, <2>1, <2>2, <2>3 DEF Exchange, DeafHasNoTarget
\* The request: it is the one the host waits for, and it is nowhere else
<1>8. CASE Head(chunk) # Break
  <2>1. /\ OnlyBreaks(rx') /\ OnlyBreaks(chunk') /\ tx = <<>> /\ ~running
        /\ WaitsFor(Head(chunk)) = wait /\ in_session
    BY <1>3, <1>4, <1>5, <1>8 DEF Exchange, RequestSomewhere, SessionInv
  <2>2. /\ wait \in {"answer", "stop"}
        /\ wait = "stop" <=> Head(chunk) \in {"c", "s", "vCont_s", "vRun"}
    BY <2>1 DEF WaitsFor
  <2>3. \/ tx' = tx /\ running' = TRUE /\ wait = "stop"
        \/ Send(wait) /\ ~running'
        \/ Send("error") /\ ~running'
    <3>1. CASE Head(chunk) = "vAttach" /\ Attach
      BY <2>1, <2>2, <3>1 DEF Attach
    <3>2. ASSUME Execute(Head(chunk)) PROVE (tx' = tx /\ running' = TRUE /\ wait = "stop") \/ (Send(wait) /\ ~running')
      BY <2>1, <2>2, <3>2 DEF Execute, Resume
    <3>3. CASE Send("error") /\ running' = running
      BY <2>1, <3>3
    <3>4. \/ Head(chunk) = "vAttach" /\ Attach
          \/ Execute(Head(chunk))
          \/ Send("error") /\ running' = running
      BY <1>8 DEF TaskParse
    <3> QED BY <3>1, <3>2, <3>3, <3>4
  <2>4. \/ tx' = <<>> /\ wait = "stop"
        \/ Len(tx') = 1 /\ Head(tx') \in {wait, "error"} /\ ~running'
    BY <2>1, <2>3, SendOne
  <2>5. RequestSomewhere'
    BY <2>1 DEF RequestSomewhere
  <2>6. ReplyIsAwaited'
    BY <1>1, <2>1, <2>2, <2>4 DEF ReplyIsAwaited
  <2> QED BY <1>1, <2>1, <2>4, <2>5, <2>6 DEF Exchange, DeafHasNoTarget
<1> QED BY <1>7, <1>8

LEMMA ExchangeStep ==
  ASSUME TypeOK, SessionInv, InputHasEvent, ExchangeInv, [Next]_vars
  PROVE  ExchangeInv'
<1>1. CASE Host
  BY <1>1, HostExchanges
<1>2. CASE CoreStops \/ UNCHANGED vars \/ TaskWait \/ TaskStart \/ TaskNoData \/ TaskParsed
  <2>1. UNCHANGED <<conn, wait, mismatch, rx, tx, chunk, running, attached, mishaps>>
    BY <1>2 DEF CoreStops, TaskWait, TaskStart, TaskNoData, TaskParsed
  <2> QED BY <2>1, Idles
<1>3. CASE TaskEnd
  <2>1. UNCHANGED <<conn, wait, mismatch, rx, tx, chunk, running, mishaps>> /\ (attached' = attached \/ ~attached')
    BY <1>3 DEF TaskEnd, Detach
  <2> QED BY <2>1, Idles
<1>4. CASE RttPoll \/ RttHalt \/ RttRelease
  <2>1. UNCHANGED <<conn, wait, mismatch, rx, tx, chunk, running, attached>> /\ mishaps \subseteq mishaps'
    BY <1>4 DEF RttPoll, RttHalt, RttRelease, HaltRequest, HaltResume, HappensIf, Happens
  <2> QED BY <2>1, Idles
<1>5. CASE TaskPoll
  BY <1>5, PollExchanges
<1>6. CASE TaskRead
  BY <1>6, ReadExchanges
<1>7. CASE TaskParse
  BY <1>7, ParseExchanges
<1> QED BY <1>1, <1>2, <1>3, <1>4, <1>5, <1>6, <1>7 DEF Next, Task

(* No reply, and in particular no stop, is sent twice or to a host that is *)
(* not waiting for it, unless a reopen overtook its close.                 *)
THEOREM AwaitedTheorem == Spec => []RepliesAreAwaited
<1> DEFINE IInv == TypeOK /\ SessionInv /\ InputHasEvent /\ ExchangeInv
<1>1. Init => IInv
  BY TypeInit, SessionInit, InputInit
<1>2. IInv /\ [Next]_vars => IInv'
  BY TypeStep, SessionStep, InputStep, ExchangeStep
<1>3. IInv => RepliesAreAwaited
  <2> SUFFICES ASSUME IInv, "reconnect" \notin mishaps
               PROVE  /\ ~mismatch /\ Len(tx) <= 1
                      /\ tx # <<>> => Head(tx) \in {wait, "error"} /\ wait # "none"
    BY DEF RepliesAreAwaited
  <2>1. tx # <<>> => conn
    BY DEF InputHasEvent
  <2>2. Len(<<>>) = 0
    BY Lengths
  <2>3. ~mismatch
    BY DEF ExchangeInv
  <2>4. CASE tx = <<>>
    BY <2>2, <2>3, <2>4
  <2>5. CASE tx # <<>>
    <3>1. Len(tx) = 1 /\ Head(tx) \in {wait, "error"} /\ wait # "none"
      BY <2>1, <2>5 DEF ExchangeInv, Exchange, ReplyIsAwaited
    <3> QED BY <2>3, <3>1
  <2> QED BY <2>4, <2>5
<1> QED BY <1>1, <1>2, <1>3, PTL DEF Spec

-----------------------------------------------------------------------------
(* A host that waits for a stop.                                           *)
LEMMA CutNoResume ==
  ASSUME NEW s \in Seq(Token), NEW n \in 1..Len(s), NoResume(s)
  PROVE  NoResume(SubSeq(s, 1, n)) /\ NoResume(SubSeq(s, n + 1, Len(s)))
<1>1. Len(s) \in Nat
  BY Lengths
<1>2. /\ Len(SubSeq(s, 1, n)) = n /\ \A i \in 1..n : SubSeq(s, 1, n)[i] = s[i]
      /\ Len(SubSeq(s, n + 1, Len(s))) = Len(s) - n
      /\ \A i \in 1..(Len(s) - n) : SubSeq(s, n + 1, Len(s))[i] = s[n + i]
  BY Cut, Zenon
<1> QED BY <1>1, <1>2 DEF NoResume

LEMMA BeheadNoResume ==
  ASSUME NEW s \in Seq(Token), s # <<>>, NoResume(s)
  PROVE  (Head(s) = Break \/ WaitsFor(Head(s)) = "answer") /\ NoResume(Tail(s))
<1>1. /\ Len(s) \in Nat /\ Len(s) > 0 /\ Head(s) = s[1]
      /\ Len(Tail(s)) = Len(s) - 1
      /\ \A i \in 1..(Len(s) - 1) : Tail(s)[i] = s[i + 1]
  BY Behead, Zenon
<1> QED BY <1>1 DEF NoResume

LEMMA TokensOfAnAnswer ==
  ASSUME NEW s, NEW w, w # "stop", OnlyBreaks(s) \/ OneRequest(s, w)
  PROVE  NoResume(s)
BY DEF OnlyBreaks, OneRequest, NoResume, WaitsFor

\* A step that moves no token and leaves stub and target alone
LEMMA WatchIdles ==
  ASSUME Watched, UNCHANGED <<conn, wait, rx, tx, chunk, running, attached>>,
         "start" \in events' => "start" \in events, pc' = pc \/ "start" \notin events'
  PROVE  Watched'
BY DEF Watched, NoResume, OneRequest

LEMMA WatchedInit == Init => WatchedInv
BY Lengths DEF Init, WatchedInv, Watched, NoResume

LEMMA HostWatched ==
  ASSUME TypeOK, SessionInv, InputHasEvent, ExchangeInv, Watched, Host,
         {"vanish", "reconnect"} \cap mishaps' = {}
  PROVE  Watched'
<1>0. Flags /\ Stages /\ Queues /\ UNCHANGED <<pc, running, attached, chunk>>
  BY TypeParts, HostLeavesTarget
<1>1. "reconnect" \notin mishaps /\ "vanish" \notin mishaps' /\ "reconnect" \notin mishaps'
  BY HostLeavesTarget
<1>2. conn => Exchange
  BY <1>1 DEF ExchangeInv
<1>3. CASE HostOpen
  BY <1>0, <1>1, <1>3 DEF HostOpen, HappensIf, Happens, TaskIsIdle, Watched
<1>4. CASE HostClose
  <2>1. conn /\ wait # "stop" /\ UNCHANGED rx /\ ~conn'
    BY <1>1, <1>4 DEF HostClose, HappensIf, Happens
  <2>2. ~running
    BY <1>2, <2>1 DEF Exchange, DeafHasNoTarget, Watched
  <2>3. NoResume(rx) /\ NoResume(chunk)
    BY <1>2, <2>1, TokensOfAnAnswer DEF Exchange, RequestSomewhere
  <2>4. NoResume(rx') /\ NoResume(chunk')
    BY <1>0, <2>1, <2>3
  <2> QED BY <1>0, <2>1, <2>2, <2>4 DEF Watched
<1>5. ASSUME NEW req \in Requests, HostRequest(req) PROVE Watched'
  <2>1. /\ conn /\ wait = "none" /\ rx' = Append(rx, req) /\ wait' = WaitsFor(req)
        /\ conn' = conn /\ events' = events \cup {"data"}
    BY <1>5 DEF HostRequest
  <2>2. req \in Request /\ rx \in Seq(Token)
    BY <1>0, SessionAssumption DEF SessionAssumption, Queues
  <2>3. OnlyBreaks(rx)
    BY <1>2, <2>1 DEF Exchange
  <2>4. OneRequest(rx', wait')
    BY <2>1, <2>2, <2>3, ExtendByRequest
  <2> QED BY <1>0, <2>1, <2>4 DEF Watched
<1>6. CASE HostBreak
  <2>1. /\ conn /\ wait = "stop" /\ rx' = Append(rx, Break)
        /\ UNCHANGED <<conn, wait, tx>> /\ events' = events \cup {"data"}
    BY <1>6 DEF HostBreak
  <2>2. OneRequest(rx, "stop") => OneRequest(rx', "stop")
    BY <1>0, <2>1, ExtendByBreak DEF Queues
  <2>3. OneRequest(chunk', "stop") <=> OneRequest(chunk, "stop")
    BY <1>0
  <2> QED BY <1>0, <2>1, <2>2, <2>3 DEF Watched
<1>7. CASE HostReceive
  <2>1. conn /\ tx # <<>> /\ UNCHANGED <<conn, events>>
    BY <1>7 DEF HostReceive
  <2>2. wait' = "none"
    BY <1>2, <1>7, <2>1 DEF HostReceive, Exchange, ReplyIsAwaited
  <2> QED BY <1>0, <2>1, <2>2 DEF Watched
<1> QED BY <1>3, <1>4, <1>5, <1>6, <1>7 DEF Host

LEMMA ReadWatched ==
  ASSUME TypeOK, SessionInv, InputHasEvent, ExchangeInv, Watched, TaskRead,
         "reconnect" \notin mishaps
  PROVE  Watched'
<1>0. rx \in Seq(Token) /\ chunk = <<>> /\ Len(<<>>) = 0 /\ Stages
  BY TypeParts, Lengths DEF Queues, InputHasEvent, TaskRead
<1>1. UNCHANGED <<conn, wait, attached, events>> /\ pc = "data"
  BY DEF TaskRead
<1>2. "start" \notin events \/ ~conn
  BY <1>1 DEF Watched
<1>3. PICK n \in 1..Len(rx) :
        /\ rx' = SubSeq(rx, n + 1, Len(rx))
        /\ \/ running /\ TargetHalt /\ chunk' = chunk
           \/ running /\ UNCHANGED <<chunk, tx, running>>
           \/ ~running /\ stream # "Ready" /\ UNCHANGED <<chunk, tx, running>>
           \/ ~running /\ chunk' = SubSeq(rx, 1, n) /\ UNCHANGED <<tx, running>>
  BY DEF TaskRead
<1>4. CASE conn
  <2>1. stream = "Ready" /\ in_session /\ Exchange
    BY <1>1, <1>2, <1>4 DEF SessionInv, OpenIsSettled, StartPending, BeforeStart, BeforeEnd, ExchangeInv
  <2>2. CASE running /\ TargetHalt /\ chunk' = chunk
    <3>1. tx' # <<>> /\ ~running'
      <4>1. tx \in Seq(Reply) /\ tx' = Append(tx, "stop") /\ "stop" \in Reply
        BY <2>1, <2>2, TypeParts DEF TargetHalt, Send, Queues, Reply
      <4>2. tx' # <<>>
        BY <4>1, Extend
      <4> QED BY <2>2, <4>2 DEF TargetHalt
    <3> QED BY <1>1, <1>2, <1>4, <3>1 DEF Watched
  <2>3. CASE running /\ UNCHANGED <<chunk, tx, running>>
    BY <1>1, <1>2, <1>4, <2>3 DEF Watched
  <2>4. CASE ~running /\ chunk' = SubSeq(rx, 1, n) /\ UNCHANGED <<tx, running>>
    <3>1. ~OneRequest(chunk, "stop")
      BY <1>0 DEF OneRequest
    <3>2. OneRequest(rx, "stop") => OneRequest(rx', "stop") \/ OneRequest(chunk', "stop")
      <4>1. OneRequest(rx, "stop") => OneRequest(SubSeq(rx, 1, n), "stop") \/ OneRequest(SubSeq(rx, n + 1, Len(rx)), "stop")
        BY <1>0, CutRequest, Zenon
      <4> QED BY <1>3, <2>4, <4>1
    <3> QED BY <1>1, <1>2, <1>4, <2>4, <3>1, <3>2 DEF Watched
  <2> QED BY <1>3, <2>1, <2>2, <2>3, <2>4
<1>5. CASE ~conn
  <2>1. ~running /\ NoResume(rx) /\ NoResume(chunk)
    BY <1>5 DEF Watched
  <2>2. NoResume(SubSeq(rx, 1, n)) /\ NoResume(SubSeq(rx, n + 1, Len(rx)))
    BY <1>0, <2>1, CutNoResume, Zenon
  <2>3. NoResume(rx') /\ NoResume(chunk') /\ ~running'
    <3>1. ~running' /\ (chunk' = chunk \/ chunk' = SubSeq(rx, 1, n))
      BY <1>3, <2>1
    <3> QED BY <1>3, <2>1, <2>2, <3>1, Zenon
  <2> QED BY <1>1, <1>5, <2>3 DEF Watched
<1> QED BY <1>4, <1>5

LEMMA ParseWatched ==
  ASSUME TypeOK, SessionInv, InputHasEvent, ExchangeInv, Watched, TaskParse,
         "reconnect" \notin mishaps
  PROVE  Watched'
<1>0. Flags /\ Queues /\ chunk # <<>> /\ chunk' = Tail(chunk)
  BY TypeParts DEF TaskParse
<1>1. UNCHANGED <<conn, wait, rx, in_session, events, pc>>
  BY ExecuteKeepsSession
<1>2. (OneRequest(rx', "stop") <=> OneRequest(rx, "stop")) /\ (NoResume(rx') <=> NoResume(rx))
  BY <1>1
<1>3. CASE Head(chunk) = Break
  <2>1. UNCHANGED <<running, attached, tx>>
    <3>1. Head(chunk) # "vAttach"
      BY <1>3, NotBreak DEF Request
    <3> QED BY <1>3, <3>1 DEF TaskParse
  <2>2. NoResume(chunk) => NoResume(chunk')
    BY <1>0, BeheadNoResume DEF Queues
  <2>3. OneRequest(chunk, "stop") => OneRequest(chunk', "stop")
    <3>1. chunk \in Seq(Token)
      BY <1>0 DEF Queues
    <3> QED BY <1>0, <1>3, <3>1, BeheadRequest
  <2> QED BY <1>1, <1>2, <2>1, <2>2, <2>3 DEF Watched
<1>4. CASE Head(chunk) # Break
  <2>1. ~running
    <3>1. CASE conn
      BY <1>0, <1>4, <3>1, BeheadBreaks DEF ExchangeInv, Exchange, RequestSomewhere, Queues
    <3> QED BY <3>1 DEF Watched
  \* Only a resume makes the stub think that the target runs
  <2>2. \/ running' = TRUE /\ attached' = attached /\ attached /\ WaitsFor(Head(chunk)) = "stop"
        \/ ~running' /\ (Send("answer") \/ Send("error") \/ Send("stop"))
    <3>1. Attach => ~running' /\ (Send("answer") \/ Send("error") \/ Send("stop"))
      BY <2>1 DEF Attach
    <3>2. ASSUME Execute(Head(chunk))
          PROVE  \/ running' = TRUE /\ attached' = attached /\ WaitsFor(Head(chunk)) = "stop"
                 \/ ~running' /\ (Send("answer") \/ Send("error") \/ Send("stop"))
      BY <2>1, <3>2 DEF Execute, Resume, WaitsFor
    <3> QED BY <1>4, <2>1, <3>1, <3>2 DEF TaskParse
  <2>3. CASE conn
    <3>1. "start" \notin events \/ pc = "wait"
      BY <2>3 DEF Watched
    <3>2. running' => attached'
      BY <2>2
    <3>3. running' \/ tx' # <<>>
      <4>1. \A msg \in Reply : Append(tx, msg) # <<>>
        BY <1>0, Extend DEF Queues
      <4>2. in_session
        BY <2>3 DEF SessionInv
      <4> QED BY <2>2, <4>1, <4>2 DEF Send, Reply
    <3> QED BY <1>1, <2>3, <3>1, <3>2, <3>3 DEF Watched
  <2>4. CASE ~conn
    <3>1. WaitsFor(Head(chunk)) # "stop" /\ NoResume(chunk')
      <4>1. (Head(chunk) = Break \/ WaitsFor(Head(chunk)) = "answer") /\ NoResume(Tail(chunk))
        BY <1>0, <2>4, BeheadNoResume DEF Queues, Watched
      <4> QED BY <1>0, <1>4, <4>1
    <3>2. ~running'
      BY <2>2, <3>1
    <3> QED BY <1>1, <1>2, <2>4, <3>1, <3>2 DEF Watched
  <2> QED BY <2>3, <2>4
<1> QED BY <1>3, <1>4

LEMMA PollWatched ==
  ASSUME TypeOK, SessionInv, Watched, TaskPoll
  PROVE  Watched'
<1>1. UNCHANGED <<conn, wait, rx, chunk, attached, events>> /\ pc = "poll"
  BY DEF TaskPoll
<1>2. "start" \notin events \/ ~conn
  BY <1>1 DEF Watched
<1>3. CASE UNCHANGED <<tx, running>>
  BY <1>1, <1>2, <1>3 DEF Watched, NoResume, OneRequest
<1>4. CASE attached /\ running /\ Send("stop") /\ running' = FALSE
  <2>1. conn /\ in_session
    BY <1>4 DEF Watched, SessionInv
  <2>2. tx' # <<>>
    <3>1. tx \in Seq(Reply) /\ "stop" \in Reply
      BY TypeParts DEF Queues, Reply
    <3>2. Append(tx, "stop") # <<>>
      BY <3>1, Extend
    <3> QED BY <1>4, <2>1, <3>2 DEF Send
  <2> QED BY <1>1, <1>2, <1>4, <2>1, <2>2 DEF Watched
<1> QED BY <1>3, <1>4 DEF TaskPoll

LEMMA WatchedStep ==
  ASSUME TypeOK, SessionInv, InputHasEvent, ExchangeInv, WatchedInv, [Next]_vars
  PROVE  WatchedInv'
<1>a. SUFFICES ASSUME {"vanish", "reconnect"} \cap mishaps' = {} PROVE Watched'
  BY DEF WatchedInv
<1>b. mishaps \subseteq mishaps'
  <2>1. CASE Host
    BY <2>1, HostLeavesTarget
  <2>2. CASE TaskParse
    BY <2>2, ParseAddsMishaps
  <2>3. CASE TaskRead
    <3>1. TargetHalt \/ mishaps' = mishaps
      BY <2>3 DEF TaskRead
    <3> QED BY <3>1 DEF TargetHalt, HaltRequest, Happens
  <2>4. CASE CoreStops \/ UNCHANGED vars \/ TaskWait \/ TaskPoll \/ TaskStart \/ TaskEnd
             \/ RttPoll \/ RttHalt \/ RttRelease \/ TaskNoData \/ TaskParsed
    BY <2>4 DEF CoreStops, TaskWait, TaskPoll, StopSeen, TaskStart, TaskEnd, RttPoll, RttHalt, RttRelease,
                TaskNoData, TaskParsed, HaltRequest, HaltResume, HappensIf, Happens
  <2> QED BY <2>1, <2>2, <2>3, <2>4 DEF Next, Task
<1>c. Watched /\ "reconnect" \notin mishaps /\ "vanish" \notin mishaps
  BY <1>a, <1>b DEF WatchedInv
<1>1. CASE Host
  BY <1>1, <1>a, <1>c, HostWatched
<1>2. CASE TaskWait
  BY <1>2, <1>c, WatchIdles DEF TaskWait
<1>3. CASE CoreStops \/ UNCHANGED vars \/ TaskNoData \/ TaskParsed \/ TaskStart \/ RttPoll \/ RttHalt \/ RttRelease
  <2>1. /\ UNCHANGED <<conn, wait, rx, tx, chunk, running, attached, events>>
        /\ pc' = pc \/ pc # "wait"
    BY <1>3 DEF CoreStops, TaskNoData, TaskParsed, TaskStart, RttPoll, RttHalt, RttRelease
  <2>2. CASE conn
    BY <1>c, <2>1, <2>2, WatchIdles DEF Watched
  <2>3. CASE ~conn
    BY <1>c, <2>1, <2>3 DEF Watched, NoResume
  <2> QED BY <2>2, <2>3
\* The end of a session finds no host: nothing runs any more
<1>4. CASE TaskEnd
  <2>1. /\ UNCHANGED <<conn, wait, rx, tx, chunk, running, events>> /\ pc = "end"
        /\ "end" \notin ev => attached' = attached
    BY <1>4 DEF TaskEnd
  <2>2. "end" \in ev => ~conn
    BY <1>c, <2>1 DEF SessionInv, OpenIsSettled, EndPending, BeforeEnd
  <2> QED BY <1>c, <2>1, <2>2 DEF Watched, NoResume, OneRequest
<1>5. CASE TaskPoll
  BY <1>5, <1>c, PollWatched
<1>6. CASE TaskRead
  BY <1>6, <1>c, ReadWatched
<1>7. CASE TaskParse
  BY <1>7, <1>c, ParseWatched
<1> QED BY <1>1, <1>2, <1>3, <1>4, <1>5, <1>6, <1>7 DEF Next, Task

(* A host that waits for a stop, with nothing on its way in either         *)
(* direction and the task asleep, waits for a target that the poller       *)
(* watches: no stop is lost, unless a host vanished from a running target  *)
(* or a reopen overtook its close.                                         *)
THEOREM NoStopIsLostTheorem == Spec => []NoStopIsLost
<1> DEFINE IInv == TypeOK /\ SessionInv /\ InputHasEvent /\ ExchangeInv /\ WatchedInv
<1>1. Init => IInv
  BY TypeInit, SessionInit, InputInit, WatchedInit
<1>2. IInv /\ [Next]_vars => IInv'
  BY TypeStep, SessionStep, InputStep, ExchangeStep, WatchedStep
<1>3. IInv => NoStopIsLost
  <2> SUFFICES ASSUME IInv, mishaps \cap {"vanish", "reconnect"} = {}, Quiescent, conn, wait = "stop",
                      rx = <<>>, tx = <<>>
               PROVE  running /\ attached
    BY DEF NoStopIsLost
  <2>1. chunk = <<>> /\ Len(<<>>) = 0
    BY Lengths DEF InputHasEvent, Quiescent
  <2>2. ~OneRequest(rx, "stop") /\ ~OneRequest(chunk, "stop")
    BY <2>1 DEF OneRequest
  <2>3. Watched
    BY DEF WatchedInv
  <2> QED BY <2>2, <2>3 DEF Watched
<1> QED BY <1>1, <1>2, <1>3, PTL DEF Spec

=============================================================================
