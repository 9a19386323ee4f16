---------------------------- MODULE SerialBridge ----------------------------
(***************************************************************************)
(* The bridge between the second USB serial port of the probe and a UART   *)
(* (usb_serial_bridge.rs): one task that wakes on an event group and moves *)
(* bytes in two directions, each with a buffer and a state of its own.     *)
(* Beside it run the UART's interrupt and the USB stack, which fill and    *)
(* drain the rings and raise the events, and on probes with two ports the  *)
(* GDB task, which writes the target's RTT output to the same port.        *)
(*                                                                         *)
(* Bytes are numbered in the order they arrive.                            *)
(***************************************************************************)
EXTENDS Naturals, Sequences, FiniteSets

\* out: usb2serial, in: serial2usb
Direction == {"out", "in"}

CONSTANTS
  BufferSize,  \* BRIDGE_BUFFER_SIZE
  SourceSize,  \* room of a ring the task reads from
  SinkSize,    \* room of a ring the task writes to
  MaxBytes,    \* bound on the bytes that arrive in each direction
  MaxLogs      \* bound on the writes of the GDB task

ASSUME BridgeAssumption ==
  /\ BufferSize \in Nat \ {0} /\ SourceSize \in Nat \ {0} /\ SinkSize \in Nat \ {0}
  /\ MaxBytes \in [Direction -> Nat] /\ MaxLogs \in Nat


\* The event that tells of input, and the one that tells of room for output
Rx(d)    == IF d = "out" THEN "USB_RX" ELSE "UART_RX"
Ready(d) == IF d = "out" THEN "UART_TX_DONE" ELSE "USB_TX_READY"
Event    == {Rx(d) : d \in Direction} \cup {Ready(d) : d \in Direction}

Log == 0       \* what the GDB task writes
Byte == Nat \ {0}

VARIABLES
  source, sink,         \* per direction: the ring read from, the ring written to
  state, data,          \* per direction: DirectionChannel, data is slice()
  events, ev,           \* the event group, and what the task woke up with
  pc,                   \* where the task is
  rx_enabled, connected,
  offered, received,    \* history: bytes that arrived, bytes that left, per direction
  logs,                 \* history: writes of the GDB task
  spent, purged         \* history: directions whose input was passed over; input discarded

rings   == <<source, sink, offered, received>>
channel == <<state, data>>
session == <<rx_enabled, connected>>
vars == <<rings, channel, events, ev, pc, session, logs, spent, purged>>

TypeOK ==
  /\ source \in [Direction -> Seq(Byte)] /\ sink \in [Direction -> Seq(Nat)]
  /\ state \in [Direction -> {"Idle", "Transmitting", "Blocked"}]
  /\ data \in [Direction -> Seq(Byte)]
  /\ \A d \in Direction :
       /\ Len(source[d]) <= SourceSize /\ Len(sink[d]) <= SinkSize
       /\ Len(data[d]) <= BufferSize
       /\ state[d] = "Idle" <=> data[d] = <<>>
  /\ events \subseteq Event /\ ev \subseteq Event
  /\ pc \in {"wait", "out", "out_refused", "enter", "in", "in_refused", "purge"}
  /\ rx_enabled \in BOOLEAN /\ connected \in BOOLEAN /\ purged \in BOOLEAN
  /\ offered \in [Direction -> Nat] /\ received \in [Direction -> Nat]
  /\ logs \in Nat /\ spent \subseteq Direction

Init ==
  /\ source = [d \in Direction |-> <<>>] /\ sink = [d \in Direction |-> <<>>]
  /\ state = [d \in Direction |-> "Idle"] /\ data = [d \in Direction |-> <<>>]
  /\ events = {} /\ ev = {} /\ pc = "wait"
  /\ rx_enabled = FALSE /\ connected = FALSE
  /\ offered = [d \in Direction |-> 0] /\ received = [d \in Direction |-> 0]
  /\ logs = 0 /\ spent = {} /\ purged = FALSE

-----------------------------------------------------------------------------
(* Around the task: the handlers set events, the rings move by themselves. *)

Arrive(d) ==
  /\ d = "in" => rx_enabled
  /\ offered[d] < MaxBytes[d] /\ Len(source[d]) < SourceSize
  /\ offered' = [offered EXCEPT ![d] = @ + 1]
  /\ source' = [source EXCEPT ![d] = Append(@, offered[d] + 1)]
  /\ events' = events \cup {Rx(d)}
  /\ UNCHANGED <<sink, received, channel, ev, pc, session, logs, spent, purged>>

\* A ring that has run empty is always announced, one with some room may be.
Depart(d) ==
  /\ sink[d] # <<>>
  /\ sink' = [sink EXCEPT ![d] = Tail(@)]
  /\ received' = [received EXCEPT ![d] = IF Head(sink[d]) = Log THEN @ ELSE @ + 1]
  /\ \/ events' = events \cup {Ready(d)}
     \/ Tail(sink[d]) # <<>> /\ UNCHANGED events
  /\ UNCHANGED <<source, offered, channel, ev, pc, session, logs, spent, purged>>

\* SessionStart, in two steps; later ones change nothing.  SessionEnd is ignored.
EnableRx ==
  /\ ~connected /\ ~rx_enabled
  /\ rx_enabled' = TRUE
  /\ UNCHANGED <<rings, channel, events, ev, pc, connected, logs, spent, purged>>

Connect ==
  /\ rx_enabled /\ ~connected
  /\ connected' = TRUE
  /\ UNCHANGED <<rings, channel, events, ev, pc, rx_enabled, logs, spent, purged>>

\* rn_serial_bridge_write(): what finds no room is dropped
serial_bridge_write ==
  /\ logs < MaxLogs /\ Len(sink["in"]) < SinkSize
  /\ logs' = logs + 1
  /\ sink' = [sink EXCEPT !["in"] = Append(@, Log)]
  /\ UNCHANGED <<source, offered, received, channel, events, ev, pc, session, spent, purged>>

-----------------------------------------------------------------------------
(* The task: wait_events(), then a step in each direction.                 *)

UnblocksOnRx(d, woken) == state[d] = "Blocked" /\ Rx(d) \in woken \* a mutation
Unblocks(d, woken)    == state[d] = "Blocked" /\ Ready(d) \in woken

\* The entry of step_usb_to_serial() and step_serial_to_usb()
Enter(d, woken) ==
  state' = [state EXCEPT ![d] = IF Unblocks(d, woken) THEN "Transmitting" ELSE @]

\* All pending events, or none after 20 ms
Wake ==
  /\ pc = "wait"
  /\ ev' = events /\ events' = {}
  /\ Enter("out", events)
  /\ pc' = "out"
  /\ UNCHANGED <<rings, data, session, logs, spent, purged>>

EnterIn ==
  /\ pc = "enter"
  /\ \/ connected /\ Enter("in", ev) /\ pc' = "in"
     \/ ~connected /\ UNCHANGED state /\ pc' = "purge"
  /\ UNCHANGED <<rings, data, events, ev, session, logs, spent, purged>>

\* purge_rx(), decided by what connected was at the entry
Purge ==
  /\ pc = "purge"
  /\ source' = [source EXCEPT !["in"] = <<>>]
  /\ state' = [state EXCEPT !["in"] = "Idle"] /\ data' = [data EXCEPT !["in"] = <<>>]
  /\ purged' = (purged \/ source["in"] # <<>>)
  /\ pc' = "wait"
  /\ UNCHANGED <<sink, offered, received, events, ev, session, logs, spent>>

Leave(d) == pc' = IF d = "out" THEN "enter" ELSE "wait"

\* A read takes what is contiguous in the ring and fits the buffer.
Read(d) ==
  /\ pc = d /\ state[d] = "Idle" /\ Rx(d) \in ev
  /\ \E n \in 1..Len(source[d]) :
       /\ n <= BufferSize
       /\ data' = [data EXCEPT ![d] = SubSeq(source[d], 1, n)]
       /\ source' = [source EXCEPT ![d] = SubSeq(@, n + 1, Len(@))]
  /\ state' = [state EXCEPT ![d] = "Transmitting"]
  /\ UNCHANGED <<sink, offered, received, events, ev, pc, session, logs, spent, purged>>

RestsAfterSending(d) == state[d] # "Transmitting"              \* a mutation
Rested(d) == state[d] = "Blocked" \/ Rx(d) \notin ev \/ source[d] = <<>>

\* Left blocked, a direction passes over the input it was woken for.
PassesOver(d) == Rx(d) \in ev /\ source[d] # <<>>

\* The loop of a step ends: nothing to read, or still blocked.
Rest(d) ==
  /\ pc = d /\ state[d] # "Transmitting" /\ Rested(d)
  /\ spent' = IF state[d] = "Blocked" /\ PassesOver(d) THEN spent \cup {d}
              ELSE IF Rx(d) \in ev THEN spent \ {d} ELSE spent
  /\ Leave(d)
  /\ UNCHANGED <<rings, channel, events, ev, session, logs, purged>>

TransmitDropsRest(d) ==                                        \* a mutation
  /\ pc = d /\ state[d] = "Transmitting"
  /\ \E n \in 1..Len(data[d]) :
       /\ Len(sink[d]) + n <= SinkSize
       /\ sink' = [sink EXCEPT ![d] = @ \o SubSeq(data[d], 1, n)]
  /\ data' = [data EXCEPT ![d] = <<>>]
  /\ state' = [state EXCEPT ![d] = "Idle"]
  /\ UNCHANGED <<source, offered, received, events, ev, pc, session, logs, spent, purged>>
\* transmit_no_block(), write(): some of the slice is taken
Transmit(d) ==
  /\ pc = d /\ state[d] = "Transmitting"
  /\ \E n \in 1..Len(data[d]) :
       /\ Len(sink[d]) + n <= SinkSize
       /\ sink' = [sink EXCEPT ![d] = @ \o SubSeq(data[d], 1, n)]
       /\ data' = [data EXCEPT ![d] = SubSeq(@, n + 1, Len(@))]
       /\ state' = [state EXCEPT ![d] = IF n = Len(data[d]) THEN "Idle" ELSE @]
  /\ UNCHANGED <<source, offered, received, events, ev, pc, session, logs, spent, purged>>

\* None of it is; the ring may run empty before the task blocks on it.
Refusal(d) == IF d = "out" THEN "out_refused" ELSE "in_refused"
Refuse(d) ==
  /\ pc = d /\ state[d] = "Transmitting"
  /\ Len(sink[d]) = SinkSize
  /\ pc' = Refusal(d)
  /\ UNCHANGED <<rings, channel, events, ev, session, logs, spent, purged>>

BlockOn(d) ==
  /\ state' = [state EXCEPT ![d] = "Blocked"]
  /\ UNCHANGED events

Block(d) ==
  /\ pc = Refusal(d)
  /\ BlockOn(d)
  /\ spent' = IF PassesOver(d) THEN spent \cup {d} ELSE spent
  /\ Leave(d)
  /\ UNCHANGED <<rings, data, ev, session, logs, purged>>

-----------------------------------------------------------------------------
Task == \/ Wake \/ EnterIn \/ Purge
        \/ \E d \in Direction : Read(d) \/ Rest(d) \/ Transmit(d) \/ Refuse(d) \/ Block(d)

Next == \/ Task \/ EnableRx \/ Connect \/ serial_bridge_write
        \/ \E d \in Direction : Arrive(d) \/ Depart(d)

Spec == Init /\ [][Next]_vars

\* The task has a stack of its own and wakes every 20 ms; the UART sends what
\* it is given, an open host reads; the handler of SessionStart ends.
Fairness == WF_vars(Task) /\ WF_vars(Connect) /\ \A d \in Direction : WF_vars(Depart(d))
FairSpec == Spec /\ Fairness

-----------------------------------------------------------------------------
\* The bytes a sequence carries, but for what the GDB task wrote
Carried(s) == {s[i] : i \in DOMAIN s} \ {Log}
Ordered(s) == \A i, j \in DOMAIN s : i < j /\ s[i] # Log /\ s[j] # Log => s[i] < s[j]

(* Every byte is forwarded once and in its order, whatever is accepted in  *)
(* part, refused or blocked, and whatever the GDB task writes in between;  *)
(* only input purged while the port is being opened is lost.               *)
InOrder ==
  \A d \in Direction :
    LET moving == sink[d] \o data[d] \o source[d] IN
    \/ d = "in" /\ purged
    \/ Ordered(moving) /\ Carried(moving) = received[d] + 1 .. offered[d]

(* usb_serial_bridge.rs:108 "destination cannot accept more data; waiting  *)
(* for ready event": that event is still to come, is pending, or is about  *)
(* to be acted on, so no blocked direction has missed it.                  *)
NoMissedReady ==
  \A d \in Direction :
    state[d] = "Blocked" =>
      \/ sink[d] # <<>>
      \/ Ready(d) \in events
      \/ d = "in" /\ pc \in {"out", "out_refused", "enter"} /\ Ready(d) \in ev

(* usb_serial_bridge.rs:239 "progresses immediately until waiting for an   *)
(* event": no input waits without one, unless its event was spent while    *)
(* the direction was blocked.                                              *)
NoInputForgotten ==
  pc = "wait" /\ events = {} => \A d \in Direction \ spent : source[d] = <<>>

(* Every byte that arrives comes out at the other end, or is stranded with *)
(* a spent event until the next one arrives, or purged.                    *)
Delivered ==
  \A d \in Direction :
    received[d] < offered[d] ~> received[d] = offered[d] \/ d \in spent \/ (d = "in" /\ purged)
=============================================================================
