------------------------------- MODULE RttRing -------------------------------
(***************************************************************************)
(* The poll of the RTT rings (rtt.rs): every now and then the probe reads  *)
(* the control block in the target's memory and, channel by channel, what  *)
(* the target wrote since, sends it to the host and tells the target how   *)
(* far it read.  The target writes its rings, and may restart, meanwhile:  *)
(* whether it runs between two accesses or between any two transfers is a  *)
(* property of the debug link (bmp_mem_access_needs_halt()).               *)
(*                                                                         *)
(* Bytes are numbered, per channel, in the order the target writes them.   *)
(* Each restart begins with empty rings.  The halts an access takes are    *)
(* those of GdbSession.  The down channels carry nothing: their writer,    *)
(* swindle_write_rtt_channel(), is a stub.                                 *)
(***************************************************************************)
EXTENDS Integers, Sequences, FiniteSets

CONSTANTS
  UpChannels,            \* max_num_up_buffers, 1..4
  SIZE,                  \* of a ring
  WORD,                  \* what a transfer is aligned to, 4
  Offset,                \* per channel: where the ring lies within a word
  TRANSFER_BUFFER_SIZE,
  RTT_POLL_ROUNDUP,
  Period,                \* RTT_PERIOD
  ClockSize,             \* 2^32, what a u32 of milliseconds holds
  PortSize,              \* room of the USB port
  ScantRoom,             \* 4, the room that is not worth a poll
  NominalRoom,           \* 64, the room told of a port shared with the bridge
  MaxBytes,              \* bound on the bytes of each channel
  MaxFaults,             \* bound on the failing transfers
  MaxLogs                \* bound on the other output of the port

Channel == 0..UpChannels - 1

ASSUME RttAssumption ==
  /\ UpChannels \in 1..4 /\ SIZE \in Nat \ {0, 1} /\ WORD \in {2, 4}
  /\ Offset \in [Channel -> 0..WORD - 1]
  /\ TRANSFER_BUFFER_SIZE \in Nat \ {0} /\ TRANSFER_BUFFER_SIZE % WORD = 0
  /\ RTT_POLL_ROUNDUP \in Nat \ {0} /\ Period \in 1..RTT_POLL_ROUNDUP - 1
  /\ ClockSize \in Nat \ {0} /\ ClockSize % RTT_POLL_ROUNDUP = 0
  /\ PortSize \in Nat /\ ScantRoom \in Nat /\ NominalRoom \in Nat \ {0}
  /\ MaxBytes \in Nat /\ MaxFaults \in Nat /\ MaxLogs \in Nat

\* cut: a transfer failed; reset: the target restarted under a transfer;
\* full: the port took less than it was told to; uptime: the clock overflowed
Mishap == {"cut", "reset", "full", "uptime"}

VARIABLES
  needs_halt,            \* bmp_mem_access_needs_halt()
  shared,                \* whether the port is the one of the serial bridge
  ready, ring, wr, rd,   \* the target: control block in place, and its rings
  queued,                \* bytes in the port
  tick,                  \* tick_count() % RTT_POLL_ROUNDUP
  enabled, adr, last_time,   \* SeggerRTT, and whether RTT_ADDR is known
  pc, index, from, chunk,    \* the poll
  transfer,              \* RTT_BUFFER, a static
  made, lost, delivered, \* history: bytes written, wiped out by a restart, sent
  logs, faults, mishaps

target  == <<ready, ring, wr, rd, made, lost>>
port    == <<queued, delivered, logs>>
rtt     == <<enabled, adr>>
poll    == <<pc, index, from, chunk>>
vars == <<needs_halt, shared, target, port, tick, rtt, last_time, poll, transfer,
          faults, mishaps>>

Cell  == 0..SIZE - 1
Other == 0               \* any byte that is not of a ring
Slot  == 0..TRANSFER_BUFFER_SIZE + WORD - 1

TargetTyped ==
  /\ ready \in BOOLEAN /\ ring \in [Channel -> [Cell -> Nat]]
  /\ wr \in [Channel -> Cell] /\ rd \in [Channel -> Cell]
  /\ made \in [Channel -> Nat] /\ lost \in [Channel -> SUBSET Nat]

PortTyped ==
  /\ needs_halt \in BOOLEAN /\ shared \in BOOLEAN
  /\ queued \in 0..PortSize /\ logs \in Nat
  /\ delivered \in [Channel -> Seq(Nat)]

ClockTyped ==
  /\ tick \in 0..RTT_POLL_ROUNDUP - 1 /\ last_time \in 0..ClockSize - 1
  /\ enabled \in BOOLEAN /\ adr \in BOOLEAN

PollTyped ==
  /\ pc \in {"idle", "header", "descriptor", "data", "offset", "send", "hung"}
  /\ index \in Channel /\ from \in Cell /\ chunk \in Nat
  /\ transfer \in [Slot -> Nat]
  /\ faults \in Nat /\ mishaps \subseteq Mishap

TypeOK == TargetTyped /\ PortTyped /\ ClockTyped /\ PollTyped

Init ==
  /\ needs_halt \in BOOLEAN /\ shared \in BOOLEAN
  /\ ready = TRUE /\ ring = [c \in Channel |-> [i \in Cell |-> Other]]
  /\ wr = [c \in Channel |-> 0] /\ rd = [c \in Channel |-> 0]
  /\ queued = 0 /\ logs = 0
  /\ tick = 0 /\ enabled = FALSE /\ adr = FALSE /\ last_time = 0
  /\ pc = "idle" /\ index = 0 /\ from = 0 /\ chunk = 0
  /\ transfer = [i \in Slot |-> Other]
  /\ made = [c \in Channel |-> 0] /\ lost = [c \in Channel |-> {}]
  /\ delivered = [c \in Channel |-> <<>>]
  /\ faults = 0 /\ mishaps = {}

\* No property speaks of what follows a mishap, and none is modelled
Calm == mishaps = {}

Least(S) == CHOOSE n \in S : \A x \in S : n <= x
-----------------------------------------------------------------------------
(* The target *)

\* Halted by RTT from the read of the data to the end of the access
Runs == ~(needs_halt /\ pc = "offset")

\* The cells written and not read
Unread(c) == {i \in Cell : (i - rd[c]) % SIZE < (wr[c] - rd[c]) % SIZE}

Put(c) ==
  /\ Calm /\ Runs /\ ready
  /\ made[c] < MaxBytes
  /\ (wr[c] + 1) % SIZE # rd[c]
  /\ made' = [made EXCEPT ![c] = @ + 1]
  /\ ring' = [ring EXCEPT ![c][wr[c]] = made[c] + 1]
  /\ wr' = [wr EXCEPT ![c] = (@ + 1) % SIZE]
  /\ UNCHANGED <<needs_halt, shared, ready, rd, lost, port, tick, rtt, last_time, poll,
                 transfer, faults, mishaps>>

\* The control block is gone until SEGGER_RTT_Init() of the new run
Restart ==
  /\ Calm /\ Runs /\ ready
  /\ ready' = FALSE
  /\ wr' = [c \in Channel |-> 0] /\ rd' = [c \in Channel |-> 0]
  /\ lost' = [c \in Channel |-> lost[c] \cup {ring[c][i] : i \in Unread(c)}]
  /\ mishaps' = mishaps \cup (IF pc \in {"data", "offset"} THEN {"reset"} ELSE {})
  /\ UNCHANGED <<needs_halt, shared, ring, made, port, tick, rtt, last_time, poll, transfer,
                 faults>>

SEGGER_RTT_Init ==
  /\ Calm /\ Runs /\ ~ready
  /\ ready' = TRUE
  /\ wr' = [c \in Channel |-> 0] /\ rd' = [c \in Channel |-> 0]
  /\ UNCHANGED <<needs_halt, shared, ring, made, lost, port, tick, rtt, last_time, poll,
                 transfer, faults, mishaps>>
-----------------------------------------------------------------------------
(* The port and the clock *)

HostReads ==
  /\ Calm /\ queued > 0 /\ queued' = 0
  /\ UNCHANGED <<needs_halt, shared, target, delivered, logs, tick, rtt, last_time, poll,
                 transfer, faults, mishaps>>

\* The log of the probe, or the bridge, fills the port
OtherOutput ==
  /\ Calm /\ logs < MaxLogs /\ queued < PortSize
  /\ queued' = PortSize /\ logs' = logs + 1
  /\ UNCHANGED <<needs_halt, shared, target, delivered, tick, rtt, last_time, poll, transfer,
                 faults, mishaps>>

\* current_time: the tick, moved on by whole rounds until it is past last_time
Later == {t \in last_time..ClockSize - 1 : t % RTT_POLL_ROUNDUP = tick}
Elapsed_today(t) == tick - last_time                                    \* a mutation
Elapsed(t) == t - last_time

\* A poll takes less than a millisecond, and a round of the clock holds many
Tick ==
  /\ Calm /\ pc = "idle"
  /\ enabled => \E t \in Later : Elapsed(t) < RTT_POLL_ROUNDUP - 1
  /\ tick' = (tick + 1) % RTT_POLL_ROUNDUP
  /\ UNCHANGED <<needs_halt, shared, target, port, rtt, last_time, poll, transfer, faults,
                 mishaps>>
-----------------------------------------------------------------------------
(* What GDB asks between two polls *)

\* swindle_enable_rtt()
Enable(on) ==
  /\ Calm /\ pc = "idle"
  /\ on => adr
  /\ enabled' = on
  /\ UNCHANGED <<needs_halt, shared, target, port, tick, adr, last_time, poll, transfer,
                 faults, mishaps>>

\* The symbol query: RTT_ADDR is set, or removed
Symbol(known) ==
  /\ Calm /\ pc = "idle"
  /\ adr' = known
  /\ UNCHANGED <<needs_halt, shared, target, port, tick, enabled, last_time, poll, transfer,
                 faults, mishaps>>
-----------------------------------------------------------------------------
(* The poll *)

Fault == faults < MaxFaults /\ faults' = faults + 1

\* process(), to the reading of the control block
Due ==
  /\ Calm /\ pc = "idle" /\ enabled
  /\ \E t \in Later :
       /\ \A later \in Later : t <= later
       /\ Elapsed(t) >= Period /\ last_time' = t
  /\ pc' = IF adr THEN "header" ELSE "idle"
  /\ UNCHANGED <<needs_halt, shared, target, port, tick, rtt, index, from, chunk, transfer,
                 faults, mishaps>>

\* No round of the clock leads past last_time: the loop goes on for ever
Hang ==
  /\ Calm /\ pc = "idle" /\ enabled /\ Later = {}
  /\ pc' = "hung"
  /\ mishaps' = mishaps \cup {"uptime"}
  /\ UNCHANGED <<needs_halt, shared, target, port, tick, rtt, last_time, index, from, chunk,
                 transfer, faults>>

\* RttControlBlock::read() and is_valid(); a failing read leaves it zeroed
ReadHeader ==
  /\ Calm /\ pc = "header"
  /\ \/ pc' = (IF ready THEN "descriptor" ELSE "idle") /\ UNCHANGED faults
     \/ Fault /\ pc' = "idle"
  /\ index' = 0
  /\ UNCHANGED <<needs_halt, shared, target, port, tick, rtt, last_time, from, chunk, transfer,
                 mishaps>>

NextChannel ==
  IF index + 1 < UpChannels THEN pc' = "descriptor" /\ index' = index + 1
                            ELSE pc' = "idle" /\ index' = 0

\* swindle_rtt_room_available_to_host()
Room == IF shared THEN NominalRoom ELSE PortSize - queued

\* What there is to read before the end of the ring, and room for
Chunk == Least({ (IF rd[index] < wr[index] THEN wr[index] ELSE SIZE) - rd[index],
                 TRANSFER_BUFFER_SIZE, Room })

\* read_buffer() and the tests of swindle_read_rtt_channel(); the descriptor of
\* a control block that is gone has no ring
ReadDescriptor ==
  /\ Calm /\ pc = "descriptor"
  /\ \/ /\ Room > ScantRoom /\ ready /\ wr[index] # rd[index]
        /\ from' = rd[index] /\ chunk' = Chunk
        /\ pc' = "data" /\ UNCHANGED <<index, faults>>
     \/ /\ Room <= ScantRoom \/ ~ready \/ wr[index] = rd[index]
        /\ NextChannel /\ UNCHANGED <<from, chunk, faults>>
     \/ /\ Room > ScantRoom /\ Fault
        /\ NextChannel /\ UNCHANGED <<from, chunk>>
  /\ UNCHANGED <<needs_halt, shared, target, port, tick, rtt, last_time, transfer, mishaps>>

\* The read is aligned: it starts before the chunk and ends behind it
extra       == (Offset[index] + from) % WORD
extra_chunk_short == LET n == chunk + WORD - 1 IN n - (n % WORD)         \* a mutation
extra_chunk == LET n == chunk + WORD - 1 + extra IN n - (n % WORD)
At(i) == IF i \in Cell THEN ring[index][i] ELSE Other

\* rtt_mem_read_ptr() of the data; its result is ignored
ReadData ==
  /\ Calm /\ pc = "data"
  /\ \/ /\ transfer' = [i \in Slot |-> IF i < extra_chunk THEN At(from - extra + i)
                                                          ELSE transfer[i]]
        /\ pc' = "offset" /\ UNCHANGED <<index, faults, mishaps>>
     \/ /\ Fault /\ pc' = "offset" /\ mishaps' = mishaps \cup {"cut"}
        /\ UNCHANGED <<index, transfer>>
     \/ /\ needs_halt /\ Fault                          \* the halt failed
        /\ NextChannel /\ UNCHANGED <<transfer, mishaps>>
  /\ UNCHANGED <<needs_halt, shared, target, port, tick, rtt, last_time, from, chunk>>

new_read == IF from + chunk = SIZE THEN 0 ELSE from + chunk

\* rtt_mem_write32() of the read offset; its result is ignored too
WriteOffset ==
  /\ Calm /\ pc = "offset"
  /\ pc' = "send"
  /\ \/ rd' = [rd EXCEPT ![index] = new_read] /\ UNCHANGED <<faults, mishaps>>
     \/ Fault /\ mishaps' = mishaps \cup {"cut"} /\ UNCHANGED rd
  /\ UNCHANGED <<needs_halt, shared, ready, ring, wr, made, lost, port, tick, rtt, last_time,
                 index, from, chunk, transfer>>

\* rtt_send_data_to_host(): the port takes what it has room for
Send ==
  /\ Calm /\ pc = "send"
  /\ LET n == Least({chunk, PortSize - queued})
     IN  /\ delivered' = [delivered EXCEPT ![index] =
                            @ \o [i \in 1..n |-> transfer[extra + i - 1]]]
         /\ queued' = queued + n
         /\ mishaps' = mishaps \cup (IF n < chunk THEN {"full"} ELSE {})
  /\ NextChannel
  /\ UNCHANGED <<needs_halt, shared, target, logs, tick, rtt, last_time, from, chunk, transfer,
                 faults>>
-----------------------------------------------------------------------------
Poll == Due \/ Hang \/ ReadHeader \/ ReadDescriptor \/ ReadData \/ WriteOffset \/ Send

Next ==
  \/ \E c \in Channel : Put(c)
  \/ Restart \/ SEGGER_RTT_Init
  \/ HostReads \/ OtherOutput \/ Tick
  \/ \E on \in BOOLEAN : Enable(on) \/ Symbol(on)
  \/ Poll

Spec == Init /\ [][Next]_vars

\* The task polls, the clock goes on, an open host reads what it is sent
FairSpec == Spec /\ WF_vars(Poll) /\ WF_vars(Tick) /\ WF_vars(HostReads)
-----------------------------------------------------------------------------
SentBytes(c) == {delivered[c][i] : i \in DOMAIN delivered[c]}

(* rtt.rs:454 "Reads available data from the target's RTT buffer and sends *)
(* it to the host.  Handles buffer wrap-around and alignment": what the    *)
(* host gets of a channel is what the target wrote, in order and once; but *)
(* for what a restart wiped out, nothing is skipped.                       *)
RttInOrder ==
  mishaps = {} =>
    \A c \in Channel :
      /\ \A i, j \in DOMAIN delivered[c] : i < j => delivered[c][i] < delivered[c][j]
      /\ pc = "idle" =>
           SentBytes(c) = (1..made[c]) \ (lost[c] \cup {ring[c][i] : i \in Unread(c)})

(* rtt.rs:9 "Polls RTT control block at configurable intervals": while RTT *)
(* is enabled a byte the target wrote reaches the host or is wiped out,    *)
(* round after round of the clock.                                         *)
Drained ==
  \A c \in Channel, n \in 1..MaxBytes :
    made[c] >= n ~>
      n \in SentBytes(c) \cup lost[c] \/ ~enabled \/ ~adr \/ mishaps # {}
=============================================================================
