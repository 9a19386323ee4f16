----------------------------- MODULE GdbSession -----------------------------
(***************************************************************************)
(* One GDB connection of the probe: a host that opens and closes the USB   *)
(* serial port and speaks the remote protocol, the USB stack's event       *)
(* handler (usb_gdb.rs, GdbCdcHandler), the probe's GDB task and its stub  *)
(* (usb_gdb.rs, swindle.rs, commands/run.rs), the RTT poller that borrows  *)
(* the target between two packets (rtt.rs), and the target's core, which   *)
(* stops when it pleases.                                                  *)
(*                                                                         *)
(* The host is a conforming GDB: one request outstanding, a ^C only while  *)
(* it waits for a stop.  A packet is one token: framing and checksums are  *)
(* the business of the packet decoder.                                     *)
(***************************************************************************)
EXTENDS Naturals, Sequences, FiniteSets

CONSTANTS
  Requests,         \* the requests this host uses, a subset of Request
  MaxQueue,         \* bound on the bytes (tokens) waiting in each direction
  Mishaps           \* what may go wrong, a subset of Mishap

\* read: any request answered from the halted target (g, m, p, X, Z, ...)
\* restart: R, r and k;  rtt: "mon rtt enable"
Request == {"vAttach", "read", "D", "c", "s", "vCont_s", "vRun", "restart", "rtt"}
Break   == "break"      \* a ^C

\* vanish: the port closes while the host waits for a stop
\* reconnect: it reopens before the task has settled after the close
\* early_break: the ^C is sent before the stub has read the resume
\* wire: a halt, resume or poll of the core fails
\* rtt: an RTT access resumes a core that stopped by itself meanwhile
Mishap == {"vanish", "reconnect", "early_break", "wire", "rtt"}

ASSUME SessionAssumption ==
  /\ Requests \subseteq Request
  /\ MaxQueue \in Nat \ {0}
  /\ Mishaps \subseteq Mishap

\* What the host waits for after a request
WaitsFor(req) == IF req \in {"c", "s", "vCont_s", "vRun"} THEN "stop" ELSE "answer"

\* The core executes (stepping: to the next instruction only), or it has
\* halted and says why (HaltReason of target/driver.rs).
Executing == {"running", "stepping"}
Halted    == {"request", "step", "breakpoint"}

VARIABLES
  conn,       \* host: the port is open
  wait,       \* host: what it waits for: "none", "answer" or "stop"
  broke,      \* host: ^C already sent for this wait
  mismatch,   \* host: it was sent something it did not wait for
  mishaps,    \* the kinds of mishap seen so far
  rx, tx,     \* the CDC FIFOs, host to probe and probe to host
  events,     \* the event group of the GDB task
  in_session, \* GdbCdc.in_session
  pc, ev,     \* the task: where its loop is, and the events it woke up with
  connected,  \* the task: local variable of rngdb_gdb_task()
  chunk,      \* the task: what is left of the buffer being parsed
  stream,     \* gdb_stream.state: "None", "Ready" or "Cleaning"
  running,    \* the static of commands/run.rs
  attached,   \* bmp_attached()
  rtt,        \* SeggerRTT.enabled, on a target that must halt for RTT
  core        \* the target's core

host == <<conn, wait, broke, mismatch, mishaps>>
usb  == <<rx, events, in_session>>
stub == <<connected, stream, running, attached, rtt>>
vars == <<host, usb, tx, pc, ev, chunk, stub, core>>

TypeOK ==
  /\ conn \in BOOLEAN /\ broke \in BOOLEAN /\ mismatch \in BOOLEAN
  /\ mishaps \subseteq Mishaps
  /\ wait \in {"none", "answer", "stop"}
  /\ rx \in Seq(Request \cup {Break}) /\ chunk \in Seq(Request \cup {Break})
  /\ tx \in Seq({"answer", "error", "stop"})
  /\ events \subseteq {"start", "end", "data"} /\ ev \subseteq {"start", "end", "data"}
  /\ in_session \in BOOLEAN /\ connected \in BOOLEAN /\ running \in BOOLEAN
  /\ attached \in BOOLEAN /\ rtt \in BOOLEAN
  /\ pc \in {"wait", "poll", "rtt", "rtt_halt", "rtt_release", "start", "end", "data", "parse"}
  /\ stream \in {"None", "Ready", "Cleaning"}
  /\ core \in Executing \cup Halted

Init ==
  /\ conn = FALSE /\ wait = "none" /\ broke = FALSE /\ mismatch = FALSE
  /\ mishaps = {}
  /\ rx = <<>> /\ tx = <<>> /\ chunk = <<>>
  /\ events = {} /\ ev = {} /\ pc = "wait"
  /\ in_session = FALSE /\ connected = FALSE
  /\ stream = "None" /\ running = FALSE /\ attached = FALSE /\ rtt = FALSE
  /\ core = "running"

Happens(mishap) ==
  /\ mishap \in Mishaps
  /\ mishaps' = mishaps \cup {mishap}

\* If the condition holds the mishap has happened
HappensIf(condition, mishap) ==
  IF condition THEN Happens(mishap) ELSE UNCHANGED mishaps

-----------------------------------------------------------------------------
(* The host and the USB event handler.                                     *)

\* The task has seen the last close and sleeps.
TaskIsIdle == pc = "wait" /\ "end" \notin events /\ ~connected

HostOpen ==
  /\ ~conn
  /\ HappensIf(~TaskIsIdle, "reconnect")
  /\ conn' = TRUE /\ wait' = "none" /\ broke' = FALSE
  /\ in_session' = TRUE
  /\ events' = events \cup {"start"}
  /\ UNCHANGED <<mismatch, rx, tx, pc, ev, chunk, stub, core>>

\* What the probe had queued for the host is lost with the port.
HostClose ==
  /\ conn
  /\ HappensIf(wait = "stop", "vanish")
  /\ conn' = FALSE /\ wait' = "none" /\ broke' = FALSE
  /\ in_session' = FALSE
  /\ events' = events \cup {"end"}
  /\ tx' = <<>>
  /\ UNCHANGED <<mismatch, rx, pc, ev, chunk, stub, core>>

HostRequest(req) ==
  /\ conn /\ wait = "none"
  /\ Len(rx) < MaxQueue
  /\ rx' = Append(rx, req)
  /\ events' = events \cup {"data"}
  /\ wait' = WaitsFor(req) /\ broke' = FALSE
  /\ UNCHANGED <<conn, mismatch, mishaps, in_session, tx, pc, ev, chunk, stub, core>>

HostBreak ==
  /\ conn /\ wait = "stop" /\ ~broke
  /\ HappensIf(~running, "early_break")
  /\ Len(rx) < MaxQueue
  /\ rx' = Append(rx, Break)
  /\ events' = events \cup {"data"}
  /\ broke' = TRUE
  /\ UNCHANGED <<conn, wait, mismatch, in_session, tx, pc, ev, chunk, stub, core>>

HostReceive ==
  /\ conn /\ tx # <<>>
  /\ tx' = Tail(tx)
  /\ IF Head(tx) \in {wait, "error"} /\ wait # "none"
     THEN wait' = "none" /\ mismatch' = mismatch
     ELSE wait' = wait /\ mismatch' = TRUE
  /\ UNCHANGED <<conn, broke, mishaps, usb, pc, ev, chunk, stub, core>>

-----------------------------------------------------------------------------
(* The target's core, left to itself, runs into a breakpoint, a watchpoint *)
(* or a fault, or completes its step.                                      *)
CoreStops ==
  /\ attached
  /\ \/ core = "running"  /\ core' = "breakpoint"
     \/ core = "stepping" /\ core' \in {"step", "breakpoint"}
  /\ UNCHANGED <<host, usb, tx, pc, ev, chunk, stub>>

\* halt_request(): a core that has stopped by itself keeps its reason
HaltRequest ==
  \/ core' = (IF core \in Executing THEN "request" ELSE core) /\ UNCHANGED mishaps
  \/ core' = core /\ Happens("wire")

\* halt_resume(step); swallows: nobody was told of the stop it ends
HaltResume(step, swallows) ==
  \/ core' = (IF step THEN "stepping" ELSE "running") /\ HappensIf(swallows, "rtt")
  \/ core' = core /\ Happens("wire")

\* rngdb_send_data_c(): output without a session is dropped
Send(msg) == tx' = IF in_session THEN Append(tx, msg) ELSE tx

-----------------------------------------------------------------------------
(* rngdb_gdb_task(), one action per stage of its loop.                     *)

\* wait_events(): all pending events, or none after 20 ms
TaskWait ==
  /\ pc = "wait"
  /\ connected \/ events # {}
  /\ ev' = events /\ events' = {}
  /\ pc' = IF connected THEN "poll" ELSE "start"
  /\ UNCHANGED <<host, rx, in_session, tx, chunk, stub, core>>

\* rngdbstub_poll() reports a stop once: the flag it tests is then cleared.
StopSeen == HappensIf(core \notin Halted, "wire")
PollLeavesRunning ==                                           \* a mutation
  /\ pc = "poll"
  /\ \/ attached /\ running /\ core \in Halted /\ Send("stop")
     \/ ~(attached /\ running /\ core \in Halted) /\ tx' = tx
  /\ pc' = IF attached /\ rtt THEN "rtt" ELSE "start"
  /\ UNCHANGED <<host, usb, ev, chunk, stub, core>>
PollForgetsStop ==                                             \* a mutation
  /\ pc = "poll"
  /\ running' = (running /\ ~(attached /\ core \in Halted))
  /\ pc' = IF attached /\ rtt THEN "rtt" ELSE "start"
  /\ UNCHANGED <<host, usb, tx, ev, chunk, connected, stream, attached, rtt, core>>
TaskPoll ==
  /\ pc = "poll"
  /\ \/ attached /\ running /\ StopSeen /\ Send("stop") /\ running' = FALSE
     \/ ~(attached /\ running /\ core \in Halted) /\ UNCHANGED <<tx, running, mishaps>>
  /\ pc' = IF attached /\ rtt THEN "rtt" ELSE "start"
  /\ UNCHANGED <<conn, wait, broke, mismatch, usb, ev, chunk, connected, stream, attached, rtt, core>>

\* swindle_rtt_access_to_target(): the poll that decides
RttPoll ==
  /\ pc = "rtt"
  /\ pc' = IF core \in Executing THEN "rtt_halt" ELSE "start"
  /\ UNCHANGED <<host, usb, tx, ev, chunk, stub, core>>

\* ... its halt; the memory is then read and the read pointer written back
RttHalt ==
  /\ pc = "rtt_halt"
  /\ HaltRequest
  /\ pc' = "rtt_release"
  /\ UNCHANGED <<conn, wait, broke, mismatch, usb, tx, ev, chunk, stub>>

\* swindle_rtt_release_target(Halted)
RttRelease ==
  /\ pc = "rtt_release"
  /\ HaltResume(FALSE, core \in {"step", "breakpoint"})
  /\ pc' = "start"
  /\ UNCHANGED <<conn, wait, broke, mismatch, usb, tx, ev, chunk, stub>>

\* rngdbstub_init()
StartForgetsReady ==                                           \* a mutation
  /\ pc = "start"
  /\ IF "start" \in ev THEN connected' = TRUE ELSE UNCHANGED connected
  /\ pc' = "end"
  /\ UNCHANGED <<host, usb, tx, ev, chunk, stream, running, attached, rtt, core>>
TaskStart ==
  /\ pc = "start"
  /\ IF "start" \in ev THEN connected' = TRUE /\ stream' = "Ready"
                       ELSE UNCHANGED <<connected, stream>>
  /\ pc' = "end"
  /\ UNCHANGED <<host, usb, tx, ev, chunk, running, attached, rtt, core>>

\* bmp_detach(): RTT off; an ARM core is let go, a RISC-V hart left as it is
Detach ==
  /\ attached' = FALSE /\ rtt' = FALSE
  /\ core' \in {core} \cup (IF attached THEN {"running"} ELSE {})

\* rngdbstub_shutdown()
EndKeepsTarget ==                                              \* a mutation
  /\ pc = "end"
  /\ IF "end" \in ev THEN connected' = FALSE /\ stream' = "Cleaning"
                     ELSE UNCHANGED <<connected, stream>>
  /\ pc' = "data"
  /\ UNCHANGED <<host, usb, tx, ev, chunk, running, attached, rtt, core>>
TaskEnd ==
  /\ pc = "end"
  /\ IF "end" \in ev THEN connected' = FALSE /\ stream' = "Cleaning" /\ Detach
                     ELSE UNCHANGED <<connected, stream, attached, rtt, core>>
  /\ pc' = "data"
  /\ UNCHANGED <<host, usb, tx, ev, chunk, running>>

-----------------------------------------------------------------------------
(* process_pending_data() and rngdbstub_run(): a read returns some prefix  *)
(* of what is waiting; while the target runs only a lone ^C gets through.  *)

TargetHaltSilent ==                                            \* a mutation
  /\ running' = FALSE
  /\ IF attached THEN HaltRequest ELSE UNCHANGED <<core, mishaps>>
  /\ UNCHANGED tx
\* target_halt()
TargetHalt ==
  /\ running' = FALSE
  /\ IF attached THEN HaltRequest ELSE UNCHANGED <<core, mishaps>>
  /\ Send("stop")

TaskNoData ==
  /\ pc = "data"
  /\ "data" \notin ev \/ rx = <<>>
  /\ pc' = "wait"
  /\ UNCHANGED <<host, usb, tx, ev, chunk, stub, core>>

TaskRead ==
  /\ pc = "data" /\ "data" \in ev
  /\ \E n \in 1..Len(rx) :
       LET data == SubSeq(rx, 1, n) IN
       /\ rx' = SubSeq(rx, n + 1, Len(rx))
       /\ \/ /\ running /\ data = <<Break>>
             /\ TargetHalt
             /\ UNCHANGED <<pc, chunk>>
          \/ /\ running /\ data # <<Break>>
             /\ UNCHANGED <<pc, chunk, tx, running, core, mishaps>>
          \/ /\ ~running /\ stream # "Ready"
             /\ UNCHANGED <<pc, chunk, tx, running, core, mishaps>>
          \/ /\ ~running /\ stream = "Ready"
             /\ chunk' = data /\ pc' = "parse"
             /\ UNCHANGED <<tx, running, core, mishaps>>
  /\ UNCHANGED <<conn, wait, broke, mismatch, events, in_session, ev, connected, stream, attached, rtt>>

\* _vCont, _c, _s: a bare "s" reaches _vCont without arguments and continues
ResumeUnflagged(step) ==                                       \* a mutation
  /\ HaltResume(step, FALSE)
  /\ UNCHANGED <<running, attached, rtt, tx>>
Resume(step) ==
  /\ running' = TRUE
  /\ HaltResume(step, FALSE)
  /\ UNCHANGED <<attached, rtt, tx>>

\* bmp_reset_target() leaves the core halted at its entry point.
Reset == core' = "request" /\ UNCHANGED mishaps

\* exec() of a request on the attached target
Execute(req) ==
  \/ req \in {"c", "s"} /\ Resume(FALSE)
  \/ req = "vCont_s" /\ Resume(TRUE)
  \/ req = "vRun" /\ Reset /\ running' = FALSE /\ Send("stop") /\ UNCHANGED <<attached, rtt>>
  \/ req = "restart" /\ Reset /\ Send("answer") /\ UNCHANGED <<running, attached, rtt>>
  \/ req = "read" /\ Send("answer") /\ UNCHANGED <<running, attached, rtt, core, mishaps>>
  \/ req = "rtt" /\ rtt' = TRUE /\ Send("answer") /\ UNCHANGED <<running, attached, core, mishaps>>
  \/ req = "D" /\ Detach /\ Send("answer") /\ UNCHANGED <<running, mishaps>>

\* _vAttach: the target is halted, or it cannot be attached
Attach ==
  /\ \/ attached' = TRUE /\ core' = "request" /\ Send("answer")
     \/ attached' = FALSE /\ core' = core /\ Send("error")
  /\ UNCHANGED <<running, rtt, mishaps>>

\* run_parser() executes the requests of one buffer one after the other; the
\* idle decoder skips a ^C.  Only vAttach is accepted without a target.
TaskParse ==
  /\ pc = "parse" /\ chunk # <<>>
  /\ chunk' = Tail(chunk)
  /\ \/ Head(chunk) = Break /\ UNCHANGED <<running, attached, rtt, core, tx, mishaps>>
     \/ Head(chunk) = "vAttach" /\ Attach
     \/ Head(chunk) \notin {Break, "vAttach"} /\ attached /\ Execute(Head(chunk))
     \/ Head(chunk) \notin {Break, "vAttach"} /\ ~attached /\ Send("error")
        /\ UNCHANGED <<running, attached, rtt, core, mishaps>>
  /\ UNCHANGED <<conn, wait, broke, mismatch, usb, pc, ev, connected, stream>>

TaskParsed ==
  /\ pc = "parse" /\ chunk = <<>>
  /\ pc' = "data"
  /\ UNCHANGED <<host, usb, tx, ev, chunk, stub, core>>

-----------------------------------------------------------------------------
Task == \/ TaskWait \/ TaskPoll \/ RttPoll \/ RttHalt \/ RttRelease
        \/ TaskStart \/ TaskEnd \/ TaskNoData \/ TaskRead \/ TaskParse \/ TaskParsed

Host == \/ HostOpen \/ HostClose \/ HostBreak \/ HostReceive
        \/ \E req \in Requests : HostRequest(req)

Next == Host \/ Task \/ CoreStops

Spec == Init /\ [][Next]_vars

\* The task is the only one at its priority and wakes at least every 20 ms;
\* an open host reads what it is sent; a step ends.
Fairness == WF_vars(Task) /\ WF_vars(HostReceive) /\ WF_vars(core = "stepping" /\ CoreStops)
FairSpec == Spec /\ Fairness

-----------------------------------------------------------------------------
(* No reply, and in particular no stop reply, is sent twice or to a host   *)
(* that is not waiting for one, however stops, ^C, polls and failures on   *)
(* the wire interleave.  Only a reopen that overtakes its close hears the  *)
(* replies of the session before.                                          *)
RepliesAreAwaited ==
  "reconnect" \notin mishaps =>
    /\ ~mismatch
    /\ Len(tx) <= 1
    /\ tx # <<>> => Head(tx) \in {wait, "error"} /\ wait # "none"

(* run.rs:53 "Halt the target and send a stop reply": a stub that does not *)
(* think the target runs works on a core that is really halted.            *)
StoppedUnlessRunning ==
  "wire" \in mishaps \/ (attached /\ ~running => core \in Halted)

\* The task sleeps and nothing is on its way to it
Quiescent == pc = "wait" /\ events = {}

(* Whenever all events have been handled, no target stays attached once    *)
(* the host is gone, and host, task and stub agree on the session: unless  *)
(* a reopen overtook its close, which shuts the new session down.          *)
SessionAgreement ==
  Quiescent =>
    /\ in_session = conn
    /\ attached => conn
    /\ \/ "reconnect" \in mishaps
       \/ connected = conn /\ (conn <=> stream = "Ready")

(* usb_gdb_data_flow.md:62 "If target is halted: Calls gdb_main:: ...": in *)
(* an open session a stub whose target is halted processes packets.        *)
PacketsProcessed ==
  Quiescent /\ in_session /\ ~(attached /\ core \in Executing) => stream = "Ready" /\ ~running

(* A host waiting for a stop waits for something: either the target is     *)
(* watched by the poller, or the request or its reply is still on its way; *)
(* only a stub left deaf, by a host that vanished or by a reopen that       *)
(* overtook its close, lets it wait for nothing.                           *)
NoStopIsLost ==
  mishaps \cap {"vanish", "reconnect"} = {} /\ Quiescent /\ conn /\ wait = "stop" /\ rx = <<>> /\ tx = <<>> => running /\ attached

-----------------------------------------------------------------------------
\* One of these mishaps has happened
After(kinds) == mishaps \cap kinds # {}

(* Every request is answered, or the host goes away.  Like the next two,   *)
(* this ends with a host that vanishes from a running target or a reopen   *)
(* that overtakes its close: the stub may stay deaf to the next one.       *)
RequestAnswered == wait = "answer" ~> wait # "answer" \/ After({"vanish", "reconnect"})

(* swindle.rs:95 "the only valid thing we are expecting is 3": a ^C ends   *)
(* the wait for a stop, if it came after the stub had seen the resume.     *)
BreakStops ==
  broke /\ wait = "stop" ~> wait # "stop" \/ 
    After({"vanish", "reconnect", "early_break"})

(* A core that stops by itself is reported to the host that waits for it,  *)
(* unless an RTT access resumes the core before the poller has seen it.    *)
StopReported ==
  core \in {"step", "breakpoint"} /\ running /\ wait = "stop"
    ~> wait # "stop" \/ After({"vanish", "reconnect", "rtt"})

(* A host that goes away gets its target released.                         *)
ClosedReleases == ~conn ~> conn \/ ~attached

=============================================================================
