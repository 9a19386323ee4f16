---------------------------- MODULE RemoteProbe ----------------------------
(***************************************************************************)
(* The debug link of the probe, shared by two clients: a GDB, which sends  *)
(* packets and hears replies, and a hosted build, which makes remote       *)
(* procedure calls.  The bytes of either arrive in chunks cut anywhere;    *)
(* rngdbstub_run() feeds each chunk to the decoder, which finds packets    *)
(* and calls in it, and runs them (swindle.rs).  The client may vanish at  *)
(* any moment.                                                             *)
(*                                                                         *)
(* What a packet of GDB does is the business of other modules: here it is  *)
(* answered by any reply.  No request here lets the target run, so the     *)
(* gate of a running target (GdbSession) stays open.                       *)
(***************************************************************************)
EXTENDS RpcTarget

CONSTANTS
  Payloads,      \* packets a GDB sends that fit the buffer
  Overlong,      \* packets that do not fit, though PacketSize forbids them
  Replies,       \* what a packet may be answered with
  ChunkSizes,    \* how many bytes one read may deliver, the most last
  Callers        \* what hosted builds pass: a value for every parameter of a
                 \* stub, by the way it is sent and its place

\* A reply of the stub holds no '*', which GDB takes for a run length
ASSUME LinkAssumption ==
  /\ Payloads \subseteq Seq(Octet) /\ Replies \subseteq Seq(Octet \ {42})
  /\ \A p \in Payloads : Len(p) \in 1..INPUT_BUFFER_SIZE
  /\ \A p \in Overlong : Len(p) > INPUT_BUFFER_SIZE
  /\ ChunkSizes \subseteq Nat \ {0} /\ 1 \in ChunkSizes

VARIABLES
  client,     \* who has the port open
  asked,      \* the last packet or call
  learnt,     \* what the client made of the reply, NotYet while it waits
  toProbe,    \* bytes on their way to the probe
  ready,      \* the decoder is available
  decoder,
  chunk,      \* what rngdbstub_run() has read and not yet parsed
  executed,   \* packets and calls executed since the client asked
  made,       \* the operation the last of them ran, and its outcome
  toHost,     \* bytes on their way to the client
  overran     \* the client sent more than the buffer holds

link == <<toProbe, toHost>>
stub == <<ready, decoder, chunk, executed, made>>
remoteVars == <<client, asked, learnt, link, stub, overran>>

Nobody  == [by |-> "nobody"]
NotYet  == Told("not yet", <<>>)
Nothing == [does |-> "nothing", args |-> <<>>, fault |-> 0, values |-> <<>>]

RemoteInit ==
  /\ client = "none" /\ asked = Nobody /\ learnt = NotYet
  /\ toProbe = <<>> /\ toHost = <<>>
  /\ ready = FALSE /\ decoder = IdleDecoder /\ chunk = <<>>
  /\ executed = <<>> /\ made = Nothing
  /\ overran = FALSE

Waiting == asked # Nobody /\ learnt = NotYet

-----------------------------------------------------------------------------
(* The session.  The order of the two events of a quick reconnect is the   *)
(* business of GdbSession: here the task has seen the end of one session   *)
(* before the next one starts.                                             *)

(* The port is opened: rngdbstub_init(). *)
Open(c) ==
  /\ client = "none" /\ ~ready
  /\ client' = c /\ asked' = Nobody /\ learnt' = NotYet
  /\ toProbe' = <<>> /\ toHost' = <<>>
  /\ ready' = TRUE /\ decoder' = IdleDecoder /\ chunk' = <<>>
  /\ executed' = <<>> /\ made' = Nothing
  /\ overran' = FALSE

(* The client goes: bytes not yet sent are lost, and a call in progress is *)
(* over, with an empty reply.                                              *)
Close ==
  /\ client # "none"
  /\ client' = "none"
  /\ \E n \in {0, Len(toProbe) \div 2, Len(toProbe)} :
       toProbe' = SubSeq(toProbe, 1, n)
  /\ toHost' = <<>>
  /\ learnt' = IF ~Waiting THEN learnt
               ELSE IF asked.by = "gdb" THEN Told("gone", <<>>)
               ELSE ReadReply(Stubs[asked.call].reads, <<>>)
  /\ UNCHANGED <<asked, stub, overran>>

(* rngdbstub_shutdown(), and what was still to be read is read in vain. *)
TaskEnd ==
  /\ client = "none" /\ ready /\ chunk = <<>>
  /\ ready' = FALSE
  /\ toProbe' = <<>>
  /\ UNCHANGED <<client, asked, learnt, toHost, decoder, chunk, executed, made,
                 overran>>

-----------------------------------------------------------------------------
(* The clients.  GDB frames its packets by itself and escapes less than    *)
(* the probe does.                                                         *)

GdbFrame(packet) ==
  LET sent == Flatten([i \in 1..Len(packet) |->
                IF packet[i] \in {CHAR_START, CHAR_END, CHAR_ESCAPE, 42}
                THEN <<CHAR_ESCAPE, Flip20(packet[i])>> ELSE <<packet[i]>>])
  IN  <<CHAR_START>> \o sent \o end(sent)

Asks(request, bytes) ==
  /\ asked' = request /\ learnt' = NotYet
  /\ toProbe' = toProbe \o bytes
  /\ executed' = <<>> /\ made' = Nothing
  /\ UNCHANGED <<client, toHost, ready, decoder, chunk>>

GdbAsks(packet) ==
  /\ client = "gdb" /\ ~Waiting
  /\ Asks([by |-> "gdb", packet |-> packet], GdbFrame(packet))
  /\ overran' = (overran \/ packet \in Overlong)

(* The types of the parameters, by the way the stubs send them. *)
Kinds == {"length", "hex", "bool", "raw", "u8_hex", "u16_le", "u16_be", "u32_le", "u32_be"}

Fitting(how) ==
  CASE how = "u8_hex"                         -> Octet
    [] how \in {"u16_le", "u16_be"}           -> Word16
    [] how \in {"u32_le", "u32_be", "length"} -> Word32
    [] how \in {"bool", "raw"}                -> {0, 1}
    [] how = "hex"                            -> Seq(Octet)

ArgumentLists(sends) ==
  {[i \in 1..Len(sends) |-> caller[sends[i], i]] : caller \in Callers}

(* Callers keep to the types, and no call is longer than the buffer. *)
ASSUME CallerAssumption ==
  /\ \A caller \in Callers, how \in Kinds, i \in 1..7 : caller[how, i] \in Fitting(how)
  /\ \A call \in DOMAIN Stubs : \A args \in ArgumentLists(Stubs[call].sends) :
       Len(Body(Stubs[call], args)) <= INPUT_BUFFER_SIZE

HostCalls(call, args) ==
  /\ client = "hosted" /\ ~Waiting
  /\ Asks([by |-> "hosted", call |-> call, args |-> args],
          Frame(Stubs[call], args))
  /\ UNCHANGED overran

(* remote_get_reply(), platform_buffer_read(): what stands between '&' and *)
(* '#', or nothing when that is more than there is room for; it waits as   *)
(* long as neither is there.                                               *)
HostReads ==
  /\ client = "hosted" /\ Waiting
  /\ \E start \in 1..Len(toHost) :
       /\ IsFirst(toHost, RPC_REMOTE_RESP, 1, start)
       /\ \/ \E last \in 1..Len(toHost) :
               /\ IsFirst(toHost, RPC_END, start + 1, last)
               /\ last <= start + RPC_BUFFER_SIZE
               /\ learnt' = ReadReply(Stubs[asked.call].reads,
                                 SubSeq(toHost, start + 1, last - 1))
               /\ toHost' = SubSeq(toHost, last + 1, Len(toHost))
          \/ /\ start + RPC_BUFFER_SIZE <= Len(toHost)
             /\ \A i \in (start + 1)..(start + RPC_BUFFER_SIZE) :
                  toHost[i] # RPC_END
             /\ learnt' = ReadReply(Stubs[asked.call].reads, <<>>)
             /\ toHost' = SubSeq(toHost, start + RPC_BUFFER_SIZE + 1,
                                 Len(toHost))
  /\ UNCHANGED <<client, asked, toProbe, stub, overran>>

(* GDB undoes the escapes; a '*' it takes for a run length. *)
Unescaped(bytes) ==
  LET escaped == {i \in 2..Len(bytes) : bytes[i - 1] = CHAR_ESCAPE}
  IN  Flatten([i \in 1..Len(bytes) |->
                 IF bytes[i] = CHAR_ESCAPE THEN <<>>
                 ELSE IF i \in escaped THEN <<Flip20(bytes[i])>>
                 ELSE <<bytes[i]>>])

(* A reply behind its '+', which GDB acknowledges. *)
GdbReads ==
  /\ client = "gdb" /\ Waiting
  /\ Len(toHost) > 1 /\ toHost[1] = CHAR_ACK /\ toHost[2] = CHAR_START
  /\ \E last \in 3..(Len(toHost) - 2) :
       LET sent == SubSeq(toHost, 3, last - 1)
           sum  == SubSeq(toHost, last, last + 2)
       IN  /\ toHost[last] = CHAR_END
           /\ \A i \in 3..(last - 1) : toHost[i] # CHAR_END
           /\ learnt' = IF sum = end(sent) /\ \A i \in 1..Len(sent) :
                                                sent[i] # 42
                        THEN Told("heard", Unescaped(sent))
                        ELSE Told("garbled", sent)
           /\ toHost' = SubSeq(toHost, last + 3, Len(toHost))
  /\ toProbe' = Append(toProbe, CHAR_ACK)
  /\ UNCHANGED <<client, asked, stub, overran>>

(* A packet refused: the GDB of this module gives it up. *)
GdbNacked ==
  /\ client = "gdb" /\ Waiting
  /\ toHost # <<>> /\ toHost[1] = CHAR_NACK
  /\ learnt' = Told("refused", <<>>)
  /\ toHost' = Tail(toHost)
  /\ UNCHANGED <<client, asked, toProbe, stub, overran>>

-----------------------------------------------------------------------------
(* The probe. *)

(* process_pending_data(): one read, when the last chunk is done with. *)
Receive ==
  /\ ready /\ chunk = <<>> /\ toProbe # <<>>
  /\ \E k \in ChunkSizes :
       LET n == IF k < Len(toProbe) THEN k ELSE Len(toProbe)
       IN  /\ chunk' = SubSeq(toProbe, 1, n)
           /\ toProbe' = SubSeq(toProbe, n + 1, Len(toProbe))
  /\ UNCHANGED <<client, asked, learnt, toHost, ready, decoder, executed,
                 made, overran>>

(* rngdb_send_data_c(): output is dropped when nobody listens. *)
Output(bytes) == IF client = "none" THEN toHost ELSE toHost \o bytes

(* parse() takes one byte of the chunk; at the end of a packet or a call   *)
(* run_parser() executes it and parses what is left.                       *)
Takes(next) ==
  /\ decoder' = next
  /\ chunk' = Tail(chunk)
  /\ UNCHANGED <<client, asked, learnt, toProbe, ready, overran>>

ParseMore(fed) ==
  /\ fed.automaton \notin EndStates
  /\ Takes(fed)
  /\ UNCHANGED <<toHost, executed, made>>

(* A packet: acknowledged, then executed. *)
ParsePacket(fed, packet) ==
  /\ fed.automaton = "Done" /\ packet # <<>>
  /\ executed' = Append(executed, packet)
  /\ \E reply \in Replies :
       /\ made' = [Nothing EXCEPT !.does = "exec", !.values = reply]
       /\ toHost' = Output(<<CHAR_ACK>> \o simple_send(reply))
  /\ Takes(IdleDecoder)

(* A call: rpc_dispatch() parses, runs and answers it. *)
ParseCall(fed, body) ==
  /\ fed.automaton = "RpcDone" /\ IsCommand(body)
  /\ executed' = Append(executed, body)
  /\ \E command \in {CommandOf(body)} :
       \E args \in {Arguments(command.takes, SubSeq(body, 3, Len(body)))} :
         \E o \in Outcomes(command, args) :
           /\ made' = [does |-> command.does, args |-> args,
                       fault |-> o.fault, values |-> o.values]
           /\ toHost' = Output(Replied(command.replies, o))
  /\ Takes(IdleDecoder)

(* A call the probe does not know is dropped without a reply, and so is a  *)
(* packet or a call of no bytes.                                           *)
IsDropped(fed, body) ==
  \/ fed.automaton = "Done" /\ body = <<>>
  \/ fed.automaton = "RpcDone" /\ ~IsCommand(body)

ParseUnknown(fed, body) ==
  /\ IsDropped(fed, body)
  /\ executed' = IF body = <<>> THEN executed ELSE Append(executed, body)
  /\ Takes(IdleDecoder)
  /\ UNCHANGED <<toHost, made>>

ParseError(fed) ==
  /\ fed.automaton = "Error"
  /\ toHost' = Output(<<CHAR_NACK>>)
  /\ Takes(IdleDecoder)
  /\ UNCHANGED <<executed, made>>

Parse ==
  /\ chunk # <<>>
  /\ \E fed \in {Feed(decoder, chunk[1])} :
       \/ ParseMore(fed)
       \/ ParsePacket(fed, fed.buffer)
       \/ ParseCall(fed, fed.buffer)
       \/ ParseUnknown(fed, fed.buffer)
       \/ ParseError(fed)

RemoteNext ==
  \/ \E c \in {"gdb", "hosted"} : Open(c)
  \/ Close
  \/ TaskEnd
  \/ \E p \in Payloads \cup Overlong : GdbAsks(p)
  \/ \E call \in DOMAIN Stubs :
       \E args \in ArgumentLists(Stubs[call].sends) : HostCalls(call, args)
  \/ HostReads
  \/ GdbReads
  \/ GdbNacked
  \/ Receive
  \/ Parse

(* The task runs, and a client that waits reads. *)
RemoteFairness == /\ WF_remoteVars(Receive) /\ WF_remoteVars(Parse)
                  /\ WF_remoteVars(HostReads) /\ WF_remoteVars(GdbReads)
                  /\ WF_remoteVars(GdbNacked)

RemoteSpec == RemoteInit /\ [][RemoteNext]_remoteVars /\ RemoteFairness
-----------------------------------------------------------------------------
(* Properties. *)

AskedBytes ==
  IF asked.by = "gdb" THEN asked.packet
  ELSE Body(Stubs[asked.call], asked.args)

(* However the bytes were cut, and whatever was on the link before, the    *)
(* probe executes what the client asked: nothing else, once, and not later *)
(* than the moment everything sent has been parsed.  A client that sends   *)
(* more than PacketSize allows forfeits this: the rest of its packet is    *)
(* parsed as if it came from the idle line.                                *)
ExecutedIsAsked ==
  ~overran =>
    IF asked = Nobody THEN executed = <<>>
    ELSE /\ executed \in {<<>>, <<AskedBytes>>}
         /\ client # "none" /\ toProbe = <<>> /\ chunk = <<>>
              => executed = <<AskedBytes>>

(* A call runs the operation its stub stands for, with the arguments its   *)
(* caller gave: widths, order and byte order of what the two sides write   *)
(* and read agree, parameter by parameter.                                 *)
CallMeant ==
  asked.by = "hosted" /\ executed # <<>> =>
    LET means == Stubs[asked.call].means
    IN  IF means = "pin" THEN made = Nothing
        ELSE made.does = means /\ made.args = asked.args

(* The stubs that take one answer for another:                             *)
(*   bmp_set_frequency_c() expects eight digits where the probe sends none;*)
(*   remote_gen_start() reads the name of the probe as a number, and       *)
(*   remote_gen_voltage() returns the status letter with the text;         *)
(*   remote_adiv5_raw_access_v3() makes 1 and no fault of an error, and    *)
(*   remote_lnadiv_lowlevel() makes 0 and no fault of a lost probe.        *)
Misread ==
  \/ asked.call \in {"bmp_set_frequency_c", "remote_gen_start",
                     "remote_gen_voltage"}
  \/ asked.call = "remote_adiv5_raw_access_v3"
       /\ (made.fault # 0 \/ client = "none")
  \/ asked.call = "remote_lnadiv_lowlevel" /\ client = "none"

(* A block of more bytes than the reply buffer of the host has room for. *)
TooLong == Len(made.values) * 2 + 1 >= RPC_BUFFER_SIZE

(* What a stub tells its caller is what happened: success only when the    *)
(* operation ran without a fault, and then with its values; failure only   *)
(* after a fault, a reply too long, an unknown command or a lost probe.    *)
AnswerMeant ==
  asked.by = "hosted" /\ learnt # NotYet /\ ~Misread =>
    CASE learnt.status = "ok" ->
           /\ made # Nothing /\ made.fault = 0
           /\ learnt.values \in {<<>>, made.values}
      [] learnt.status = "failed" ->
           made.fault # 0 \/ TooLong \/ client = "none"
      [] learnt.status = "unknown" ->
           learnt.values \in {<<>>, made.values} \/ client = "none"

(* GDB hears the reply the stub meant, whatever characters it has. *)
RepliesUnderstood ==
  asked.by = "gdb" /\ ~overran =>
    learnt.status \in {"not yet", "gone"} \/ learnt = Told("heard", made.values)

(* Every packet and every call of a known command ends: its answer is      *)
(* read, whatever was left over from the answers before it, or the client  *)
(* is gone.                                                                *)
Answerable == Waiting /\ ~overran /\
                (asked.by = "hosted" => Stubs[asked.call].means # "pin")

CallReturns == Answerable ~> ~Waiting
=============================================================================
