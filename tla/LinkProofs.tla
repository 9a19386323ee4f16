----------------------------- MODULE LinkProofs -----------------------------
(***************************************************************************)
(* The two links of the probe to its host.                                 *)
(*                                                                         *)
(* The serial port.  For rings and buffers of any size and any traffic: a  *)
(* blocked direction never misses the event that unblocks it, and input    *)
(* never waits without an event unless its event was spent.  Both need     *)
(* where the task is: what is collected in ev counts until the step it is  *)
(* for has been taken.  No byte is lost, doubled or overtaken (InOrder):   *)
(* the task only moves the cuts between source, buffer and sink, and a     *)
(* purge, which may find the port just opened, never finds a byte in the   *)
(* buffer.                                                                 *)
(*                                                                         *)
(* The debug link.  For packets, replies and chunks of any content and     *)
(* size that fit: the probe executes what its client asked, nothing else   *)
(* and once (ExecutesAsked), and GDB hears the reply that was meant        *)
(* (HeardAsMeant).  The lemmas before the invariant LinkInv say what the   *)
(* conversions, the decoder and the two encoders do with every input.      *)
(* A call runs what its caller meant (MeantByCaller), and its caller is    *)
(* told what became of it (ToldAsItWas).                                   *)
(***************************************************************************)
EXTENDS SerialBridge, RemoteProbe, SequenceTheorems, WellFoundedInduction, TLAPS

(* Between a refusal and the block the ring may run empty, but not in      *)
(* silence.                                                                *)
RefusedWaits ==
  \A d \in Direction :
    pc = Refusal(d) => state[d] = "Transmitting" /\ (sink[d] # <<>> \/ Ready(d) \in events)

(* Nothing comes in before the port is opened. *)
ClosedIsIdle == ~connected => state["in"] = "Idle" /\ pc \notin {"in", "in_refused"}

\* Where the task may be with the step of a direction still to come or to end
Before(d) == {"out", "out_refused"} \cup (IF d = "out" THEN {} ELSE {"enter", "in", "in_refused"})

(* The event of input that is not passed over is pending, or collected for *)
(* a step that has not ended, or the input is about to be purged.          *)
InputIsKnown ==
  \A d \in Direction \ spent :
    source[d] # <<>> =>
      \/ Rx(d) \in events
      \/ Rx(d) \in ev /\ pc \in Before(d)
      \/ d = "in" /\ pc = "purge"

IInv == TypeOK /\ RefusedWaits /\ ClosedIsIdle /\ NoMissedReady /\ InputIsKnown

-----------------------------------------------------------------------------
(* Cutting a sequence in two, as a partial read or write does. *)
LEMMA Cut ==
  ASSUME NEW S, NEW s \in Seq(S), NEW n \in 1..Len(s)
  PROVE  /\ SubSeq(s, 1, n) \in Seq(S) /\ Len(SubSeq(s, 1, n)) = n
         /\ SubSeq(s, 1, n) # <<>>
         /\ SubSeq(s, n + 1, Len(s)) \in Seq(S) /\ Len(SubSeq(s, n + 1, Len(s))) = Len(s) - n
         /\ SubSeq(s, n + 1, Len(s)) = <<>> <=> n = Len(s)
<1>1. Len(s) \in Nat /\ n \in Nat /\ n <= Len(s) /\ \A i \in 1..Len(s) : s[i] \in S
  BY ElementOfSeq
<1>2. SubSeq(s, 1, n) \in Seq(S) /\ Len(SubSeq(s, 1, n)) = n
  BY <1>1, SubSeqProperties
<1>3. SubSeq(s, n + 1, Len(s)) \in Seq(S) /\ Len(SubSeq(s, n + 1, Len(s))) = Len(s) - n
  BY <1>1, SubSeqProperties
<1>4. SubSeq(s, n + 1, Len(s)) = <<>> <=> n = Len(s)
  <2>1. SubSeq(s, n + 1, Len(s)) = <<>> <=> Len(SubSeq(s, n + 1, Len(s))) = 0
    BY <1>3, EmptySeq
  <2> QED BY <1>1, <1>3, <2>1
<1>5. SubSeq(s, 1, n) # <<>>
  BY <1>1, <1>2, EmptySeq
<1> QED BY <1>2, <1>3, <1>4, <1>5

LEMMA BytesAreNat == Seq(Byte) \subseteq Seq(Nat)
BY SeqMonotonic DEF Byte

-----------------------------------------------------------------------------
LEMMA InitIInv == Init => IInv
<1> SUFFICES ASSUME Init PROVE IInv
  OBVIOUS
<1>1. <<>> \in Seq(Byte) /\ <<>> \in Seq(Nat) /\ Len(<<>>) = 0
  BY EmptySeq
<1>2. /\ source \in [Direction -> Seq(Byte)] /\ sink \in [Direction -> Seq(Nat)]
      /\ data \in [Direction -> Seq(Byte)]
  BY <1>1 DEF Init
<1>3. \A d \in Direction : /\ Len(source[d]) <= SourceSize /\ Len(sink[d]) <= SinkSize
                          /\ Len(data[d]) <= BufferSize
                          /\ state[d] = "Idle" <=> data[d] = <<>>
  BY <1>1, BridgeAssumption DEF Init, BridgeAssumption
<1>4. TypeOK
  BY <1>2, <1>3 DEF Init, TypeOK
<1> QED BY <1>4 DEF Init, IInv, RefusedWaits, ClosedIsIdle, NoMissedReady, InputIsKnown, Direction, Refusal

LEMMA Names ==
  /\ Direction = {"out", "in"}
  /\ Rx("out") # Rx("in") /\ Ready("out") # Ready("in")
  /\ \A d, e \in Direction : Rx(d) \in Event /\ Ready(d) \in Event /\ Rx(d) # Ready(e)
BY DEF Direction, Rx, Ready, Event

LEMMA ArriveStep ==
  ASSUME IInv, NEW d \in Direction, Arrive(d)
  PROVE  IInv'
<1> USE DEF IInv, Arrive, rings, channel, session
<1>1. TypeOK'
  <2>1. offered[d] + 1 \in Byte
    BY DEF TypeOK, Byte
  <2>2. /\ Append(source[d], offered[d] + 1) \in Seq(Byte)
        /\ Len(Append(source[d], offered[d] + 1)) = Len(source[d]) + 1
        /\ Len(source[d]) \in Nat
    BY <2>1 DEF TypeOK
  <2>3. source' \in [Direction -> Seq(Byte)]
    BY <2>2 DEF TypeOK
  <2>4. \A e \in Direction : Len(source'[e]) <= SourceSize
    BY <2>2, BridgeAssumption DEF TypeOK, BridgeAssumption
  <2> QED BY <2>3, <2>4, Names DEF TypeOK
<1>2. RefusedWaits'
  BY Names DEF TypeOK, RefusedWaits, Refusal
<1>3. ClosedIsIdle'
  BY Names DEF TypeOK, ClosedIsIdle, Refusal
<1>4. NoMissedReady'
  BY Names DEF TypeOK, NoMissedReady, RefusedWaits, ClosedIsIdle, Refusal
<1>5. InputIsKnown'
  BY Names DEF TypeOK, InputIsKnown, Before, Refusal
<1> QED BY <1>1, <1>2, <1>3, <1>4, <1>5

LEMMA DepartStep ==
  ASSUME IInv, NEW d \in Direction, Depart(d)
  PROVE  IInv'
<1> USE DEF IInv, Depart, rings, channel, session
<1>1. TypeOK'
  <2>1. Tail(sink[d]) \in Seq(Nat) /\ Len(Tail(sink[d])) = Len(sink[d]) - 1 /\ Len(sink[d]) \in Nat
    BY HeadTailProperties, LenProperties DEF TypeOK
  <2>2. sink' \in [Direction -> Seq(Nat)]
    BY <2>1 DEF TypeOK
  <2>3. \A e \in Direction : Len(sink'[e]) <= SinkSize
    BY <2>1, BridgeAssumption DEF TypeOK, BridgeAssumption
  <2>4. received' \in [Direction -> Nat]
    <3>1. received[d] \in Nat /\ received[d] + 1 \in Nat
      BY DEF TypeOK
    <3> QED BY <3>1 DEF TypeOK
  <2>5. events' \subseteq Event
    BY Names DEF TypeOK
  <2> QED BY <2>2, <2>3, <2>4, <2>5 DEF TypeOK
<1>2. RefusedWaits'
  BY Names DEF TypeOK, RefusedWaits, Refusal
<1>3. ClosedIsIdle'
  BY Names DEF TypeOK, ClosedIsIdle, Refusal
<1>4. NoMissedReady'
  BY Names DEF TypeOK, NoMissedReady, RefusedWaits, ClosedIsIdle, Refusal
<1>5. InputIsKnown'
  BY Names DEF TypeOK, InputIsKnown, Before, Refusal
<1> QED BY <1>1, <1>2, <1>3, <1>4, <1>5

LEMMA EnableRxStep ==
  ASSUME IInv, EnableRx
  PROVE  IInv'
<1> USE DEF IInv, EnableRx, rings, channel, session
<1>1. TypeOK'
  BY Names DEF TypeOK
<1>2. RefusedWaits'
  BY Names DEF TypeOK, RefusedWaits, Refusal
<1>3. ClosedIsIdle'
  BY Names DEF TypeOK, ClosedIsIdle, Refusal
<1>4. NoMissedReady'
  BY Names DEF TypeOK, NoMissedReady, RefusedWaits, ClosedIsIdle, Refusal
<1>5. InputIsKnown'
  BY Names DEF TypeOK, InputIsKnown, Before, Refusal
<1> QED BY <1>1, <1>2, <1>3, <1>4, <1>5

LEMMA ConnectStep ==
  ASSUME IInv, Connect
  PROVE  IInv'
<1> USE DEF IInv, Connect, rings, channel, session
<1>1. TypeOK'
  BY Names DEF TypeOK
<1>2. RefusedWaits'
  BY Names DEF TypeOK, RefusedWaits, Refusal
<1>3. ClosedIsIdle'
  BY Names DEF TypeOK, ClosedIsIdle, Refusal
<1>4. NoMissedReady'
  BY Names DEF TypeOK, NoMissedReady, RefusedWaits, ClosedIsIdle, Refusal
<1>5. InputIsKnown'
  BY Names DEF TypeOK, InputIsKnown, Before, Refusal
<1> QED BY <1>1, <1>2, <1>3, <1>4, <1>5

LEMMA WriteStep ==
  ASSUME IInv, serial_bridge_write
  PROVE  IInv'
<1>0. /\ Append(sink["in"], Log) \in Seq(Nat)
      /\ Len(Append(sink["in"], Log)) = Len(sink["in"]) + 1
      /\ Len(sink["in"]) \in Nat
      /\ Append(sink["in"], Log) # <<>>
  <2>1. sink["in"] \in Seq(Nat) /\ Log \in Nat
    BY Names DEF IInv, TypeOK, Log
  <2>2. /\ Append(sink["in"], Log) \in Seq(Nat)
        /\ Len(Append(sink["in"], Log)) = Len(sink["in"]) + 1
        /\ Len(sink["in"]) \in Nat
    BY <2>1
  <2> QED BY <2>2, EmptySeq
<1> USE DEF IInv, serial_bridge_write, rings, channel, session
<1>1. TypeOK'
  <2>1. sink' \in [Direction -> Seq(Nat)]
    BY <1>0 DEF TypeOK
  <2>2. \A e \in Direction : Len(sink'[e]) <= SinkSize
    BY <1>0, BridgeAssumption DEF TypeOK, BridgeAssumption
  <2> QED BY <2>1, <2>2 DEF TypeOK
<1>2. RefusedWaits'
  <2> SUFFICES ASSUME NEW d \in Direction, pc' = Refusal(d)
               PROVE  state'[d] = "Transmitting" /\ (sink'[d] # <<>> \/ Ready(d) \in events')
    BY DEF RefusedWaits
  <2>1. state[d] = "Transmitting" /\ (sink[d] # <<>> \/ Ready(d) \in events)
    BY DEF RefusedWaits
  <2> QED BY <1>0, <2>1 DEF TypeOK
<1>3. ClosedIsIdle'
  BY Names DEF TypeOK, ClosedIsIdle, Refusal
<1>4. NoMissedReady'
  BY <1>0, Names DEF TypeOK, NoMissedReady, RefusedWaits, ClosedIsIdle, Refusal
<1>5. InputIsKnown'
  BY Names DEF TypeOK, InputIsKnown, Before, Refusal
<1> QED BY <1>1, <1>2, <1>3, <1>4, <1>5

LEMMA WakeStep ==
  ASSUME IInv, Wake
  PROVE  IInv'
<1> USE DEF IInv, Wake, Enter, Unblocks, rings, channel, session
<1>1. TypeOK'
  BY Names DEF TypeOK
<1>2. RefusedWaits'
  BY Names DEF TypeOK, RefusedWaits, Refusal
<1>3. ClosedIsIdle'
  BY Names DEF TypeOK, ClosedIsIdle, Refusal
<1>4. NoMissedReady'
  BY Names DEF TypeOK, NoMissedReady, RefusedWaits, ClosedIsIdle, Refusal
<1>5. InputIsKnown'
  BY Names DEF TypeOK, InputIsKnown, Before, Refusal
<1> QED BY <1>1, <1>2, <1>3, <1>4, <1>5

LEMMA EnterInStep ==
  ASSUME IInv, EnterIn
  PROVE  IInv'
<1> USE DEF IInv, EnterIn, Enter, Unblocks, rings, channel, session
<1>1. TypeOK'
  BY Names DEF TypeOK
<1>2. RefusedWaits'
  BY Names DEF TypeOK, RefusedWaits, Refusal
<1>3. ClosedIsIdle'
  BY Names DEF TypeOK, ClosedIsIdle, Refusal
<1>4. NoMissedReady'
  BY Names DEF TypeOK, NoMissedReady, RefusedWaits, ClosedIsIdle, Refusal
<1>5. InputIsKnown'
  BY Names DEF TypeOK, InputIsKnown, Before, Refusal
<1> QED BY <1>1, <1>2, <1>3, <1>4, <1>5

LEMMA PurgeStep ==
  ASSUME IInv, Purge
  PROVE  IInv'
<1> USE DEF IInv, Purge, rings, channel, session
<1>1. TypeOK'
  <2>1. <<>> \in Seq(Byte) /\ Len(<<>>) = 0
    BY EmptySeq
  <2>2. source' \in [Direction -> Seq(Byte)] /\ data' \in [Direction -> Seq(Byte)]
    BY <2>1 DEF TypeOK
  <2>3. \A d \in Direction : Len(source'[d]) <= SourceSize /\ Len(data'[d]) <= BufferSize
    BY <2>1, BridgeAssumption DEF TypeOK, BridgeAssumption
  <2>4. \A d \in Direction : state'[d] = "Idle" <=> data'[d] = <<>>
    BY DEF TypeOK
  <2>5. state' \in [Direction -> {"Idle", "Transmitting", "Blocked"}] /\ purged' \in BOOLEAN
    BY DEF TypeOK
  <2> QED BY <2>2, <2>3, <2>4, <2>5 DEF TypeOK
<1>2. RefusedWaits'
  BY Names DEF TypeOK, RefusedWaits, Refusal
<1>3. ClosedIsIdle'
  BY Names DEF TypeOK, ClosedIsIdle, Refusal
<1>4. NoMissedReady'
  BY Names DEF TypeOK, NoMissedReady, RefusedWaits, ClosedIsIdle, Refusal
<1>5. InputIsKnown'
  BY Names DEF TypeOK, InputIsKnown, Before, Refusal
<1> QED BY <1>1, <1>2, <1>3, <1>4, <1>5

LEMMA ReadStep ==
  ASSUME IInv, NEW d \in Direction, Read(d)
  PROVE  IInv'
<1> USE DEF IInv, Read, rings, channel, session
<1>1. TypeOK'
  <2>1. PICK n \in 1..Len(source[d]) :
          /\ n <= BufferSize
          /\ data' = [data EXCEPT ![d] = SubSeq(source[d], 1, n)]
          /\ source' = [source EXCEPT ![d] = SubSeq(@, n + 1, Len(@))]
    OBVIOUS
  <2>2. source[d] \in Seq(Byte) /\ Len(source[d]) \in Nat /\ n \in Nat
    BY LenProperties DEF TypeOK
  <2>3. /\ SubSeq(source[d], 1, n) \in Seq(Byte) /\ Len(SubSeq(source[d], 1, n)) = n
        /\ SubSeq(source[d], 1, n) # <<>>
        /\ SubSeq(source[d], n + 1, Len(source[d])) \in Seq(Byte)
        /\ Len(SubSeq(source[d], n + 1, Len(source[d]))) = Len(source[d]) - n
    <3>1. source[d] \in Seq(Byte) /\ n \in 1..Len(source[d])
      BY <2>2
    <3> HIDE DEF IInv, Read, rings, channel, session
    <3> QED BY <3>1, Cut
  <2>5. source' \in [Direction -> Seq(Byte)] /\ data' \in [Direction -> Seq(Byte)]
    BY <2>1, <2>3 DEF TypeOK
  <2>6. \A e \in Direction : Len(source'[e]) <= SourceSize /\ Len(data'[e]) <= BufferSize
    <3>1. Len(source[d]) - n <= SourceSize
      BY <2>2, BridgeAssumption DEF TypeOK, BridgeAssumption
    <3>2. Len(source'[d]) <= SourceSize /\ Len(data'[d]) <= BufferSize
      BY <3>1, <2>1, <2>3 DEF TypeOK
    <3> QED BY <3>2, <2>1 DEF TypeOK
  <2>7. \A e \in Direction : state'[e] = "Idle" <=> data'[e] = <<>>
    BY <2>1, <2>3 DEF TypeOK
  <2> QED BY <2>5, <2>6, <2>7 DEF TypeOK
<1>2. RefusedWaits'
  BY Names DEF TypeOK, RefusedWaits, Refusal
<1>3. ClosedIsIdle'
  BY Names DEF TypeOK, ClosedIsIdle, Refusal
<1>4. NoMissedReady'
  BY Names DEF TypeOK, NoMissedReady, RefusedWaits, ClosedIsIdle, Refusal
<1>5. InputIsKnown'
  BY Names DEF TypeOK, InputIsKnown, Before, Refusal
<1> QED BY <1>1, <1>2, <1>3, <1>4, <1>5

LEMMA RestStep ==
  ASSUME IInv, NEW d \in Direction, Rest(d)
  PROVE  IInv'
<1> USE DEF IInv, Rest, Leave, Rested, PassesOver, rings, channel, session
<1>1. TypeOK'
  BY Names DEF TypeOK
<1>2. RefusedWaits'
  BY Names DEF TypeOK, RefusedWaits, Refusal
<1>3. ClosedIsIdle'
  BY Names DEF TypeOK, ClosedIsIdle, Refusal
<1>4. NoMissedReady'
  BY Names DEF TypeOK, NoMissedReady, RefusedWaits, ClosedIsIdle, Refusal
<1>5. InputIsKnown'
  BY Names DEF TypeOK, InputIsKnown, Before, Refusal
<1> QED BY <1>1, <1>2, <1>3, <1>4, <1>5

LEMMA TransmitStep ==
  ASSUME IInv, NEW d \in Direction, Transmit(d)
  PROVE  IInv'
<1> USE DEF IInv, Transmit, rings, channel, session
<1>1. TypeOK'
  <2>1. PICK n \in 1..Len(data[d]) :
          /\ Len(sink[d]) + n <= SinkSize
          /\ sink' = [sink EXCEPT ![d] = @ \o SubSeq(data[d], 1, n)]
          /\ data' = [data EXCEPT ![d] = SubSeq(@, n + 1, Len(@))]
          /\ state' = [state EXCEPT ![d] = IF n = Len(data[d]) THEN "Idle" ELSE @]
    OBVIOUS
  <2>2. /\ data[d] \in Seq(Byte) /\ Len(data[d]) \in Nat /\ n \in Nat
        /\ sink[d] \in Seq(Nat) /\ Len(sink[d]) \in Nat
    BY LenProperties DEF TypeOK
  <2>3. /\ SubSeq(data[d], 1, n) \in Seq(Nat) /\ Len(SubSeq(data[d], 1, n)) = n
        /\ SubSeq(data[d], n + 1, Len(data[d])) \in Seq(Byte)
        /\ Len(SubSeq(data[d], n + 1, Len(data[d]))) = Len(data[d]) - n
        /\ SubSeq(data[d], n + 1, Len(data[d])) = <<>> <=> n = Len(data[d])
    <3>1. data[d] \in Seq(Byte) /\ n \in 1..Len(data[d])
      BY <2>2
    <3> HIDE DEF IInv, Transmit, rings, channel, session
    <3> QED BY <3>1, Cut, BytesAreNat
  <2>4. /\ sink[d] \o SubSeq(data[d], 1, n) \in Seq(Nat)
        /\ Len(sink[d] \o SubSeq(data[d], 1, n)) = Len(sink[d]) + n
    BY <2>2, <2>3, ConcatProperties
  <2>6. sink' \in [Direction -> Seq(Nat)] /\ data' \in [Direction -> Seq(Byte)]
    BY <2>1, <2>3, <2>4 DEF TypeOK
  <2>7. \A e \in Direction : Len(sink'[e]) <= SinkSize /\ Len(data'[e]) <= BufferSize
    <3>1. Len(data[d]) - n <= BufferSize
      BY <2>2, BridgeAssumption DEF TypeOK, BridgeAssumption
    <3>2. Len(sink'[d]) <= SinkSize /\ Len(data'[d]) <= BufferSize
      BY <3>1, <2>1, <2>3, <2>4 DEF TypeOK
    <3> QED BY <3>2, <2>1 DEF TypeOK
  <2>9. \A e \in Direction : state'[e] = "Idle" <=> data'[e] = <<>>
    BY <2>1, <2>3 DEF TypeOK
  <2>10. state' \in [Direction -> {"Idle", "Transmitting", "Blocked"}]
    BY <2>1 DEF TypeOK
  <2> QED BY <2>6, <2>7, <2>9, <2>10 DEF TypeOK
<1>2. RefusedWaits'
  BY Names DEF TypeOK, RefusedWaits, Refusal
<1>3. ClosedIsIdle'
  BY Names DEF TypeOK, ClosedIsIdle, Refusal
<1>4. NoMissedReady'
  BY Names DEF TypeOK, NoMissedReady, RefusedWaits, ClosedIsIdle, Refusal
<1>5. InputIsKnown'
  BY Names DEF TypeOK, InputIsKnown, Before, Refusal
<1> QED BY <1>1, <1>2, <1>3, <1>4, <1>5

LEMMA RefuseStep ==
  ASSUME IInv, NEW d \in Direction, Refuse(d)
  PROVE  IInv'
<1>0. sink[d] # <<>>
  BY EmptySeq, BridgeAssumption DEF Refuse, BridgeAssumption
<1> USE DEF IInv, Refuse, rings, channel, session
<1>1. TypeOK'
  BY Names DEF TypeOK, Refusal
<1>2. RefusedWaits'
  BY <1>0, Names DEF TypeOK, RefusedWaits, Refusal
<1>3. ClosedIsIdle'
  BY Names DEF TypeOK, ClosedIsIdle, Refusal
<1>4. NoMissedReady'
  BY Names DEF TypeOK, NoMissedReady, RefusedWaits, ClosedIsIdle, Refusal
<1>5. InputIsKnown'
  BY Names DEF TypeOK, InputIsKnown, Before, Refusal
<1> QED BY <1>1, <1>2, <1>3, <1>4, <1>5

LEMMA BlockStep ==
  ASSUME IInv, NEW d \in Direction, Block(d)
  PROVE  IInv'
<1> USE DEF IInv, Block, BlockOn, Leave, PassesOver, Refusal, rings, channel, session
<1>1. TypeOK'
  <2>1. state[d] = "Transmitting"
    BY DEF RefusedWaits
  <2>2. state' \in [Direction -> {"Idle", "Transmitting", "Blocked"}]
    BY DEF TypeOK
  <2>3. \A e \in Direction : state'[e] = "Idle" <=> data'[e] = <<>>
    BY <2>1 DEF TypeOK
  <2> QED BY <2>2, <2>3 DEF TypeOK
<1>2. RefusedWaits'
  BY Names DEF TypeOK, RefusedWaits, Refusal
<1>3. ClosedIsIdle'
  BY Names DEF TypeOK, ClosedIsIdle, Refusal
<1>4. NoMissedReady'
  BY Names DEF TypeOK, NoMissedReady, RefusedWaits, ClosedIsIdle, Refusal
<1>5. InputIsKnown'
  BY Names DEF TypeOK, InputIsKnown, Before, Refusal
<1> QED BY <1>1, <1>2, <1>3, <1>4, <1>5

LEMMA NextIInv == IInv /\ [Next]_vars => IInv'
<1> SUFFICES ASSUME IInv, [Next]_vars PROVE IInv'
  OBVIOUS
<1>1. CASE Task
  BY <1>1, WakeStep, EnterInStep, PurgeStep, ReadStep, RestStep, TransmitStep, RefuseStep, BlockStep DEF Task
<1>2. CASE \E d \in Direction : Arrive(d) \/ Depart(d)
  BY <1>2, ArriveStep, DepartStep
<1>3. CASE EnableRx \/ Connect \/ serial_bridge_write
  BY <1>3, EnableRxStep, ConnectStep, WriteStep
<1>4. CASE UNCHANGED vars
  BY <1>4 DEF vars, rings, channel, session, IInv, TypeOK, RefusedWaits, ClosedIsIdle, NoMissedReady, InputIsKnown
<1> QED BY <1>1, <1>2, <1>3, <1>4 DEF Next

-----------------------------------------------------------------------------
(* The inductive invariant of the bridge: what a refusal, a block and an   *)
(* input wait for is pending, or collected for a step still to come.       *)
THEOREM BridgeInvariant == Spec => []IInv
BY InitIInv, NextIInv, PTL DEF Spec

(* Buffers and rings keep their sizes, and a direction is idle exactly     *)
(* when its buffer is empty.                                               *)
THEOREM BridgeTypes == Spec => []TypeOK
<1>1. IInv => TypeOK
  BY DEF IInv
<1> QED BY <1>1, BridgeInvariant, PTL

(* A blocked direction of the bridge has not missed the event that tells   *)
(* of room.                                                                *)
THEOREM NeverMissesReady == Spec => []NoMissedReady
<1>1. IInv => NoMissedReady
  BY DEF IInv
<1> QED BY <1>1, BridgeInvariant, PTL

(* When the task sleeps with nothing pending no input waits, but where its *)
(* event was spent on a blocked direction.                                 *)
THEOREM ForgetsOnlySpentInput == Spec => []NoInputForgotten
<1>1. IInv => NoInputForgotten
  BY DEF IInv, InputIsKnown, NoInputForgotten, Before
<1> QED BY <1>1, BridgeInvariant, PTL

-----------------------------------------------------------------------------
(* The order of the bytes.                                                 *)
Moving(d) == sink[d] \o data[d] \o source[d]

(* The bytes on their way are those that arrived and have not left. *)
Forward(d) ==
  /\ Ordered(Moving(d))
  /\ Carried(Moving(d)) = received[d] + 1 .. offered[d]
  /\ received[d] <= offered[d]

(* A purge that was decided while the port was closed discards input only. *)
PurgesInput == pc = "purge" => state["in"] = "Idle"

Kept == \A d \in Direction : (d = "in" /\ purged) \/ Forward(d)

OrderInv == IInv /\ PurgesInput /\ Kept

(* A concatenation carries what its parts do, each before the other. *)
LEMMA ConcatOrdered ==
  ASSUME NEW s \in Seq(Nat), NEW t \in Seq(Nat)
  PROVE  /\ Carried(s \o t) = Carried(s) \cup Carried(t)
         /\ Ordered(s \o t) <=> /\ Ordered(s) /\ Ordered(t)
                                /\ \A a \in Carried(s), b \in Carried(t) : a < b
<1> DEFINE u == s \o t
           m == Len(s)
           n == Len(t)
<1>1. /\ m \in Nat /\ n \in Nat /\ DOMAIN s = 1..m /\ DOMAIN t = 1..n
      /\ DOMAIN u = 1..m + n
      /\ \A i \in 1..m : u[i] = s[i]
      /\ \A i \in 1..n : u[m + i] = t[i]
      /\ \A i \in 1..m : s[i] \in Nat
      /\ \A i \in 1..n : t[i] \in Nat
  BY ConcatProperties, LenProperties, ElementOfSeq
<1> HIDE DEF u, m, n
<1>2. \A i \in 1..m + n : i \in 1..m \/ \E j \in 1..n : i = m + j
  <2> SUFFICES ASSUME NEW i \in 1..m + n, i \notin 1..m
               PROVE  \E j \in 1..n : i = m + j
    OBVIOUS
  <2>1. i - m \in 1..n /\ i = m + (i - m)
    BY <1>1
  <2> QED BY <2>1
<1>3. \A i \in 1..m : i \in 1..m + n
  BY <1>1
<1>4. \A i \in 1..n : m + i \in 1..m + n
  BY <1>1
<1>5. Carried(u) = Carried(s) \cup Carried(t)
  <2>1. ASSUME NEW v \in Carried(u) PROVE v \in Carried(s) \cup Carried(t)
    <3>1. PICK i \in 1..m + n : v = u[i] /\ v # Log
      BY <1>1 DEF Carried
    <3>2. CASE i \in 1..m
      BY <1>1, <3>1, <3>2 DEF Carried
    <3>3. ASSUME NEW j \in 1..n, i = m + j PROVE v \in Carried(t)
      BY <1>1, <3>1, <3>3 DEF Carried
    <3> QED BY <1>2, <3>2, <3>3
  <2>2. ASSUME NEW v \in Carried(s) PROVE v \in Carried(u)
    BY <1>1, <1>3 DEF Carried
  <2>3. ASSUME NEW v \in Carried(t) PROVE v \in Carried(u)
    <3>1. PICK i \in 1..n : v = t[i] /\ v # Log
      BY <1>1 DEF Carried
    <3>2. m + i \in DOMAIN u /\ u[m + i] = v
      BY <1>1, <1>4, <3>1
    <3> QED BY <3>1, <3>2 DEF Carried
  <2> QED BY <2>1, <2>2, <2>3
<1>6. ASSUME Ordered(u)
      PROVE  /\ Ordered(s) /\ Ordered(t)
             /\ \A a \in Carried(s), b \in Carried(t) : a < b
  <2>1. Ordered(s)
    BY <1>1, <1>3, <1>6 DEF Ordered
  <2>2. Ordered(t)
    <3> SUFFICES ASSUME NEW i \in 1..n, NEW j \in 1..n, i < j, t[i] # Log, t[j] # Log
                 PROVE  t[i] < t[j]
      BY <1>1 DEF Ordered
    <3>1. /\ m + i \in DOMAIN u /\ m + j \in DOMAIN u /\ m + i < m + j
          /\ u[m + i] = t[i] /\ u[m + j] = t[j]
      BY <1>1, <1>4
    <3> QED BY <1>6, <3>1 DEF Ordered
  <2>3. ASSUME NEW a \in Carried(s), NEW b \in Carried(t) PROVE a < b
    <3>1. PICK i \in 1..m : a = s[i] /\ a # Log
      BY <1>1 DEF Carried
    <3>2. PICK j \in 1..n : b = t[j] /\ b # Log
      BY <1>1 DEF Carried
    <3>3. /\ i \in DOMAIN u /\ m + j \in DOMAIN u /\ i < m + j
          /\ u[i] = a /\ u[m + j] = b
      BY <1>1, <1>3, <1>4, <3>1, <3>2
    <3> QED BY <1>6, <3>1, <3>2, <3>3 DEF Ordered
  <2> QED BY <2>1, <2>2, <2>3
<1>7. ASSUME Ordered(s), Ordered(t), \A a \in Carried(s), b \in Carried(t) : a < b
      PROVE  Ordered(u)
  <2> SUFFICES ASSUME NEW i \in 1..m + n, NEW j \in 1..m + n, i < j, u[i] # Log, u[j] # Log
               PROVE  u[i] < u[j]
    BY <1>1 DEF Ordered
  <2>1. CASE j \in 1..m
    <3>1. i \in 1..m
      BY <1>1, <2>1
    <3> QED BY <1>1, <1>7, <2>1, <3>1 DEF Ordered
  <2>2. ASSUME NEW l \in 1..n, j = m + l PROVE u[i] < u[j]
    <3>1. u[j] = t[l] /\ t[l] # Log
      BY <1>1, <2>2
    <3>2. CASE i \in 1..m
      <4>1. u[i] \in Carried(s) /\ u[j] \in Carried(t)
        BY <1>1, <3>1, <3>2 DEF Carried
      <4> QED BY <1>7, <4>1
    <3>3. ASSUME NEW k \in 1..n, i = m + k PROVE u[i] < u[j]
      <4>1. u[i] = t[k] /\ t[k] # Log /\ k < l
        BY <1>1, <2>2, <3>3
      <4> QED BY <1>1, <1>7, <3>1, <4>1 DEF Ordered
    <3> QED BY <1>2, <3>2, <3>3
  <2> QED BY <1>2, <2>1, <2>2
<1> QED BY <1>5, <1>6, <1>7 DEF u

(* One byte, or one write of the GDB task. *)
LEMMA OneOrdered ==
  ASSUME NEW b \in Nat
  PROVE  /\ <<b>> \in Seq(Nat) /\ Ordered(<<b>>)
         /\ Carried(<<b>>) = IF b = Log THEN {} ELSE {b}
<1>1. DOMAIN <<b>> = {1} /\ <<b>>[1] = b
  OBVIOUS
<1>2. Ordered(<<b>>)
  <2> SUFFICES ASSUME NEW i \in {1}, NEW j \in {1}, i < j PROVE FALSE
    BY <1>1 DEF Ordered
  <2> QED OBVIOUS
<1>3. Carried(<<b>>) = IF b = Log THEN {} ELSE {b}
  BY <1>1 DEF Carried
<1> QED BY <1>2, <1>3

(* The parts of what is moving, and the order of all three. *)
LEMMA ThreeOrdered ==
  ASSUME NEW s \in Seq(Nat), NEW t \in Seq(Nat), NEW u \in Seq(Nat)
  PROVE  /\ Carried(s \o t \o u) = Carried(s) \cup Carried(t) \cup Carried(u)
         /\ Ordered(s \o t \o u) <=>
              /\ Ordered(s) /\ Ordered(t) /\ Ordered(u)
              /\ \A a \in Carried(s), b \in Carried(t) : a < b
              /\ \A a \in Carried(s), b \in Carried(u) : a < b
              /\ \A a \in Carried(t), b \in Carried(u) : a < b
<1>1. s \o t \in Seq(Nat)
  BY ConcatProperties
<1>2. /\ Carried(s \o t) = Carried(s) \cup Carried(t)
      /\ Ordered(s \o t) <=> /\ Ordered(s) /\ Ordered(t)
                             /\ \A a \in Carried(s), b \in Carried(t) : a < b
  BY ConcatOrdered
<1>3. /\ Carried(s \o t \o u) = Carried(s \o t) \cup Carried(u)
      /\ Ordered(s \o t \o u) <=> /\ Ordered(s \o t) /\ Ordered(u)
                                  /\ \A a \in Carried(s \o t), b \in Carried(u) : a < b
  BY <1>1, ConcatOrdered
<1> QED BY <1>2, <1>3

-----------------------------------------------------------------------------
(* The bytes lo + 1 to hi on their way, in three parts. *)
Line(s, t, u, lo, hi) ==
  /\ Ordered(s \o t \o u)
  /\ Carried(s \o t \o u) = lo + 1 .. hi
  /\ lo <= hi

LEMMA ForwardIsLine ==
  ASSUME NEW d \in Direction
  PROVE  Forward(d) <=> Line(sink[d], data[d], source[d], received[d], offered[d])
BY DEF Forward, Line, Moving

LEMMA Longer ==
  ASSUME NEW lo \in Nat, NEW hi \in Nat, lo <= hi
  PROVE  (lo + 1 .. hi) \cup {hi + 1} = lo + 1 .. hi + 1 /\ lo <= hi + 1
OBVIOUS

LEMMA Associative ==
  ASSUME NEW s \in Seq(Nat), NEW t \in Seq(Nat), NEW u \in Seq(Nat)
  PROVE  (s \o t) \o u = s \o (t \o u)
BY SMTT(60)

(* A byte arrives behind all others. *)
LEMMA LineArrive ==
  ASSUME NEW s \in Seq(Nat), NEW t \in Seq(Nat), NEW u \in Seq(Nat),
         NEW lo \in Nat, NEW hi \in Nat, Line(s, t, u, lo, hi)
  PROVE  Line(s, t, Append(u, hi + 1), lo, hi + 1)
<1> DEFINE m == s \o t \o u
           b == <<hi + 1>>
<1>1. s \o t \in Seq(Nat) /\ m \in Seq(Nat) /\ b \in Seq(Nat)
  BY ConcatProperties, OneOrdered
<1>2. Append(u, hi + 1) = u \o b
  BY AppendIsConcat
<1>3. s \o t \o Append(u, hi + 1) = m \o b
  BY <1>1, <1>2, ConcatAssociative, SMTT(60)
<1>4. Ordered(m) /\ Carried(m) = lo + 1 .. hi /\ lo <= hi
  BY DEF Line
<1>5. Ordered(b) /\ Carried(b) = {hi + 1}
  <2> DEFINE x == hi + 1
  <2>1. x \in Nat /\ x # Log
    BY DEF Log
  <2> HIDE DEF x
  <2>2. Ordered(<<x>>) /\ Carried(<<x>>) = {x}
    BY <2>1, OneOrdered
  <2> QED BY <2>2 DEF x
<1> HIDE DEF m, b
<1>6. Carried(m \o b) = lo + 1 .. hi + 1
  <2>1. Carried(m \o b) = (lo + 1 .. hi) \cup {hi + 1}
    BY <1>1, <1>4, <1>5, ConcatOrdered
  <2>2. (lo + 1 .. hi) \cup {hi + 1} = lo + 1 .. hi + 1
    BY <1>4, Longer
  <2> QED BY <2>1, <2>2
<1>7. Ordered(m \o b)
  <2>1. \A v \in Carried(m), w \in Carried(b) : v < w
    BY <1>4, <1>5
  <2> QED BY <1>1, <1>4, <1>5, <2>1, ConcatOrdered, Zenon
<1>8. lo <= hi + 1
  BY <1>4, Longer
<1> QED BY <1>3, <1>6, <1>7, <1>8, Zenon DEF Line

(* What the GDB task writes goes between, and moves nothing. *)
LEMMA LineWrite ==
  ASSUME NEW s \in Seq(Nat), NEW t \in Seq(Nat), NEW u \in Seq(Nat),
         NEW lo \in Nat, NEW hi \in Nat, Line(s, t, u, lo, hi)
  PROVE  Line(Append(s, Log), t, u, lo, hi)
<1>1. Log \in Nat
  BY DEF Log
<1>2. Append(s, Log) = s \o <<Log>> /\ Append(s, Log) \in Seq(Nat)
  BY <1>1, AppendIsConcat, AppendProperties
<1>3. <<Log>> \in Seq(Nat) /\ Ordered(<<Log>>) /\ Carried(<<Log>>) = {}
  BY <1>1, OneOrdered
<1> DEFINE a == Append(s, Log)
<1>4. Carried(a) = Carried(s) /\ (Ordered(a) <=> Ordered(s))
  <2> DEFINE l == <<Log>>
  <2>1. l \in Seq(Nat) /\ Ordered(l) /\ Carried(l) = {} /\ a = s \o l
    BY <1>2, <1>3
  <2> HIDE DEF l, a
  <2>2. /\ Carried(s \o l) = Carried(s) \cup Carried(l)
        /\ Ordered(s \o l) <=> /\ Ordered(s) /\ Ordered(l)
                               /\ \A v \in Carried(s), w \in Carried(l) : v < w
    BY <2>1, ConcatOrdered, Zenon
  <2> QED BY <2>1, <2>2
<1>5. a \in Seq(Nat)
  BY <1>2
<1> HIDE DEF a
<1>6. /\ Carried(a \o t \o u) = Carried(s \o t \o u)
      /\ Ordered(a \o t \o u) <=> Ordered(s \o t \o u)
  <2>1. /\ Carried(s \o t \o u) = Carried(s) \cup Carried(t) \cup Carried(u)
        /\ Ordered(s \o t \o u) <=>
             /\ Ordered(s) /\ Ordered(t) /\ Ordered(u)
             /\ \A v \in Carried(s), w \in Carried(t) : v < w
             /\ \A v \in Carried(s), w \in Carried(u) : v < w
             /\ \A v \in Carried(t), w \in Carried(u) : v < w
    BY ThreeOrdered, Zenon
  <2>2. /\ Carried(a \o t \o u) = Carried(a) \cup Carried(t) \cup Carried(u)
        /\ Ordered(a \o t \o u) <=>
             /\ Ordered(a) /\ Ordered(t) /\ Ordered(u)
             /\ \A v \in Carried(a), w \in Carried(t) : v < w
             /\ \A v \in Carried(a), w \in Carried(u) : v < w
             /\ \A v \in Carried(t), w \in Carried(u) : v < w
    BY <1>5, ThreeOrdered, Zenon
  <2> QED BY <1>4, <2>1, <2>2
<1> QED BY <1>6 DEF Line, a

(* The byte that leaves is the one that follows those that left. *)
LEMMA LineDepart ==
  ASSUME NEW s \in Seq(Nat), NEW t \in Seq(Nat), NEW u \in Seq(Nat),
         NEW lo \in Nat, NEW hi \in Nat, Line(s, t, u, lo, hi), s # <<>>
  PROVE  Line(Tail(s), t, u, IF Head(s) = Log THEN lo ELSE lo + 1, hi)
<1> DEFINE h == <<Head(s)>>
           r == Tail(s) \o t \o u
<1>1. Head(s) \in Nat /\ Tail(s) \in Seq(Nat) /\ h \in Seq(Nat)
  BY HeadTailProperties, OneOrdered
<1>2. s = h \o Tail(s)
  <2>1. Len(s) \in Nat \ {0}
    BY EmptySeq
  <2>2. SubSeq(s, 1, Len(s)) = <<s[1]>> \o SubSeq(s, 2, Len(s))
    BY <2>1, SubSeqRecursiveFirst
  <2>3. Head(s) = s[1]
    BY <2>1
  <2> QED BY <2>2, <2>3, SubSeqFull, TailIsSubSeq
<1>3. r \in Seq(Nat)
  BY <1>1, ConcatProperties
<1>4. Carried(s \o t \o u) = lo + 1 .. hi /\ Ordered(s \o t \o u) /\ lo <= hi
  BY DEF Line
<1>5. /\ Carried(s \o t \o u) = Carried(h) \cup Carried(r)
      /\ Ordered(s \o t \o u) => /\ Ordered(r)
                                 /\ \A v \in Carried(h), w \in Carried(r) : v < w
  <2> DEFINE q == Tail(s)
  <2>1. q \in Seq(Nat) /\ h \in Seq(Nat) /\ s = h \o q
    BY <1>1, <1>2
  <2> HIDE DEF h, q
  <2>2. /\ Carried(s \o t \o u) = Carried(s) \cup Carried(t) \cup Carried(u)
        /\ Ordered(s \o t \o u) <=>
             /\ Ordered(s) /\ Ordered(t) /\ Ordered(u)
             /\ \A v \in Carried(s), w \in Carried(t) : v < w
             /\ \A v \in Carried(s), w \in Carried(u) : v < w
             /\ \A v \in Carried(t), w \in Carried(u) : v < w
    BY ThreeOrdered, Zenon
  <2>3. /\ Carried(q \o t \o u) = Carried(q) \cup Carried(t) \cup Carried(u)
        /\ Ordered(q \o t \o u) <=>
             /\ Ordered(q) /\ Ordered(t) /\ Ordered(u)
             /\ \A v \in Carried(q), w \in Carried(t) : v < w
             /\ \A v \in Carried(q), w \in Carried(u) : v < w
             /\ \A v \in Carried(t), w \in Carried(u) : v < w
    BY <2>1, ThreeOrdered, Zenon
  <2>4. /\ Carried(s) = Carried(h) \cup Carried(q)
        /\ Ordered(s) <=> /\ Ordered(h) /\ Ordered(q)
                          /\ \A v \in Carried(h), w \in Carried(q) : v < w
    BY <2>1, ConcatOrdered, Zenon
  <2>5. /\ Carried(s \o t \o u) = Carried(h) \cup Carried(q \o t \o u)
        /\ Ordered(s \o t \o u) =>
             /\ Ordered(q \o t \o u)
             /\ \A v \in Carried(h), w \in Carried(q \o t \o u) : v < w
    BY <2>2, <2>3, <2>4
  <2> QED BY <2>5 DEF q
<1> HIDE DEF r
<1>6. /\ Carried(h) \cup Carried(r) = lo + 1 .. hi
      /\ Ordered(r) /\ \A v \in Carried(h), w \in Carried(r) : v < w
  BY <1>4, <1>5
<1>7. CASE Head(s) = Log
  <2>1. Carried(h) = {}
    BY <1>1, <1>7, OneOrdered
  <2> QED BY <1>4, <1>6, <1>7, <2>1 DEF Line, r
<1>8. CASE Head(s) # Log
  <2>1. Carried(h) = {Head(s)}
    BY <1>1, <1>8, OneOrdered
  <2>2. Head(s) \in lo + 1 .. hi /\ \A w \in Carried(r) : Head(s) < w
    BY <1>6, <2>1
  <2>3. Head(s) = lo + 1
    <3> SUFFICES ASSUME Head(s) # lo + 1 PROVE FALSE
      OBVIOUS
    <3>1. lo + 1 \in lo + 1 .. hi
      BY <2>2
    <3>2. lo + 1 \in Carried(r)
      BY <1>6, <2>1, <3>1
    <3> QED BY <2>2, <3>2
  <2>4. Carried(r) = lo + 1 + 1 .. hi
    <3>1. \A w \in Carried(r) : w \in lo + 1 .. hi /\ lo + 1 < w
      BY <1>6, <2>2, <2>3
    <3>2. \A w \in lo + 1 .. hi : w # lo + 1 => w \in Carried(r)
      BY <1>6, <2>1, <2>3
    <3>3. ASSUME NEW w \in Carried(r) PROVE w \in lo + 1 + 1 .. hi
      BY <3>1
    <3>4. ASSUME NEW w \in lo + 1 + 1 .. hi PROVE w \in Carried(r)
      BY <3>2
    <3> QED BY <3>3, <3>4
  <2>5. lo + 1 <= hi
    BY <2>2
  <2> QED BY <1>6, <1>8, <2>4, <2>5 DEF Line, r
<1> QED BY <1>7, <1>8

(* A sequence is what a partial read or write takes and what it leaves. *)
LEMMA CutConcat ==
  ASSUME NEW s \in Seq(Nat), NEW n \in 1..Len(s)
  PROVE  /\ SubSeq(s, 1, n) \in Seq(Nat) /\ SubSeq(s, n + 1, Len(s)) \in Seq(Nat)
         /\ s = SubSeq(s, 1, n) \o SubSeq(s, n + 1, Len(s))
<1>1. SubSeq(s, 1, n) \in Seq(Nat) /\ SubSeq(s, n + 1, Len(s)) \in Seq(Nat)
  BY Cut
<1>2. Len(s) \in Nat /\ n \in 0..Len(s) /\ Len(s) \in n..Len(s) /\ 1 \in 1..Len(s) + 1
  BY LenProperties
<1>3. SubSeq(s, 1, n) \o SubSeq(s, n + 1, Len(s)) = SubSeq(s, 1, Len(s))
  BY <1>2, ConcatAdjacentSubSeq
<1> QED BY <1>1, <1>3, SubSeqFull

(* Three parts behind which lie the same bytes in the same order: only     *)
(* what they carry and how they stand to each other counts.                *)
LEMMA ThreeParts ==
  ASSUME NEW s \in Seq(Nat), NEW t \in Seq(Nat), NEW u \in Seq(Nat),
         NEW lo \in Nat, NEW hi \in Nat
  PROVE  Line(s, t, u, lo, hi) <=>
           /\ Carried(s) \cup Carried(t) \cup Carried(u) = lo + 1 .. hi
           /\ lo <= hi
           /\ Ordered(s) /\ Ordered(t) /\ Ordered(u)
           /\ \A a \in Carried(s), b \in Carried(t) : a < b
           /\ \A a \in Carried(s), b \in Carried(u) : a < b
           /\ \A a \in Carried(t), b \in Carried(u) : a < b
<1>1. /\ Carried(s \o t \o u) = Carried(s) \cup Carried(t) \cup Carried(u)
      /\ Ordered(s \o t \o u) <=>
           /\ Ordered(s) /\ Ordered(t) /\ Ordered(u)
           /\ \A a \in Carried(s), b \in Carried(t) : a < b
           /\ \A a \in Carried(s), b \in Carried(u) : a < b
           /\ \A a \in Carried(t), b \in Carried(u) : a < b
  BY ThreeOrdered, Zenon
<1> QED BY <1>1, Zenon DEF Line

(* A read takes the first bytes of a full source into an empty buffer. *)
LEMMA LineRead ==
  ASSUME NEW s \in Seq(Nat), NEW u \in Seq(Nat), NEW n \in 1..Len(u),
         NEW lo \in Nat, NEW hi \in Nat, Line(s, <<>>, u, lo, hi)
  PROVE  Line(s, SubSeq(u, 1, n), SubSeq(u, n + 1, Len(u)), lo, hi)
<1> DEFINE a == SubSeq(u, 1, n)
           b == SubSeq(u, n + 1, Len(u))
           e == <<>>
<1>1. a \in Seq(Nat) /\ b \in Seq(Nat) /\ u = a \o b
  BY CutConcat
<1>2. e \in Seq(Nat) /\ Carried(e) = {} /\ Line(s, e, u, lo, hi)
  BY DEF Carried
<1> HIDE DEF a, b, e
<1>3. /\ Carried(s) \cup Carried(e) \cup Carried(u) = lo + 1 .. hi
      /\ lo <= hi
      /\ Ordered(s) /\ Ordered(e) /\ Ordered(u)
      /\ \A v \in Carried(s), w \in Carried(e) : v < w
      /\ \A v \in Carried(s), w \in Carried(u) : v < w
      /\ \A v \in Carried(e), w \in Carried(u) : v < w
  BY <1>2, ThreeParts, Zenon
<1>4. /\ Carried(u) = Carried(a) \cup Carried(b)
      /\ Ordered(u) <=> /\ Ordered(a) /\ Ordered(b)
                        /\ \A v \in Carried(a), w \in Carried(b) : v < w
  BY <1>1, ConcatOrdered, Zenon
<1>5. /\ Carried(s) \cup Carried(a) \cup Carried(b) = lo + 1 .. hi
      /\ Ordered(s) /\ Ordered(a) /\ Ordered(b)
      /\ \A v \in Carried(s), w \in Carried(a) : v < w
      /\ \A v \in Carried(s), w \in Carried(b) : v < w
      /\ \A v \in Carried(a), w \in Carried(b) : v < w
  BY <1>2, <1>3, <1>4
<1>6. Line(s, a, b, lo, hi)
  BY <1>1, <1>3, <1>5, ThreeParts, Zenon
<1> QED BY <1>6 DEF a, b

(* A write takes the first bytes of the buffer behind what is in the sink. *)
LEMMA LineTransmit ==
  ASSUME NEW s \in Seq(Nat), NEW t \in Seq(Nat), NEW u \in Seq(Nat), NEW n \in 1..Len(t),
         NEW lo \in Nat, NEW hi \in Nat, Line(s, t, u, lo, hi)
  PROVE  Line(s \o SubSeq(t, 1, n), SubSeq(t, n + 1, Len(t)), u, lo, hi)
<1> DEFINE a == SubSeq(t, 1, n)
           b == SubSeq(t, n + 1, Len(t))
           c == s \o a
<1>1. a \in Seq(Nat) /\ b \in Seq(Nat) /\ t = a \o b
  BY CutConcat
<1> HIDE DEF a, b
<1>2. c \in Seq(Nat)
  BY <1>1, ConcatProperties
<1>3. /\ Carried(s) \cup Carried(t) \cup Carried(u) = lo + 1 .. hi
      /\ lo <= hi
      /\ Ordered(s) /\ Ordered(t) /\ Ordered(u)
      /\ \A v \in Carried(s), w \in Carried(t) : v < w
      /\ \A v \in Carried(s), w \in Carried(u) : v < w
      /\ \A v \in Carried(t), w \in Carried(u) : v < w
  BY ThreeParts, Zenon
<1>4. /\ Carried(t) = Carried(a) \cup Carried(b)
      /\ Ordered(t) <=> /\ Ordered(a) /\ Ordered(b)
                        /\ \A v \in Carried(a), w \in Carried(b) : v < w
  BY <1>1, ConcatOrdered, Zenon
<1>5. /\ Carried(c) = Carried(s) \cup Carried(a)
      /\ Ordered(c) <=> /\ Ordered(s) /\ Ordered(a)
                        /\ \A v \in Carried(s), w \in Carried(a) : v < w
  BY <1>1, ConcatOrdered, Zenon
<1> HIDE DEF c
<1>6. /\ Carried(c) \cup Carried(b) \cup Carried(u) = lo + 1 .. hi
      /\ Ordered(c) /\ Ordered(b) /\ Ordered(u)
      /\ \A v \in Carried(c), w \in Carried(b) : v < w
      /\ \A v \in Carried(c), w \in Carried(u) : v < w
      /\ \A v \in Carried(b), w \in Carried(u) : v < w
  BY <1>3, <1>4, <1>5
<1>7. Line(c, b, u, lo, hi)
  BY <1>1, <1>2, <1>3, <1>6, ThreeParts, Zenon
<1> QED BY <1>7 DEF a, b, c

-----------------------------------------------------------------------------
(* The steps.  A direction that a step leaves alone is kept.               *)
Untouched(d) ==
  /\ sink'[d] = sink[d] /\ data'[d] = data[d] /\ source'[d] = source[d]
  /\ received'[d] = received[d] /\ offered'[d] = offered[d]

LEMMA UntouchedIsForward ==
  ASSUME NEW d \in Direction, Untouched(d), Forward(d)
  PROVE  Forward(d)'
BY DEF Untouched, Forward, Moving

\* What moves in a direction, as sequences of numbers
LEMMA MovingTypes ==
  ASSUME TypeOK, NEW d \in Direction
  PROVE  /\ sink[d] \in Seq(Nat) /\ data[d] \in Seq(Nat) /\ source[d] \in Seq(Nat)
         /\ received[d] \in Nat /\ offered[d] \in Nat
BY BytesAreNat DEF TypeOK

\* The direction a step works on, and the other one
LEMMA KeptByOne ==
  ASSUME Kept, NEW d \in Direction, purged' = purged, Forward(d) => Forward(d)',
         \A e \in Direction \ {d} : Untouched(e)
  PROVE  Kept'
<1>1. ASSUME NEW e \in Direction, Forward(e) PROVE Forward(e)'
  BY <1>1, UntouchedIsForward
<1> QED BY <1>1 DEF Kept

LEMMA InitOrder == Init => OrderInv
<1> SUFFICES ASSUME Init PROVE OrderInv
  OBVIOUS
<1>1. IInv
  BY InitIInv
<1>2. PurgesInput
  BY DEF Init, PurgesInput
<1>3. ASSUME NEW d \in Direction PROVE Forward(d)
  <2>1. Moving(d) = <<>> /\ received[d] = 0 /\ offered[d] = 0
    <3>1. <<>> \o <<>> \o <<>> = <<>>
      BY ConcatEmptySeq
    <3> QED BY <3>1 DEF Init, Moving
  <2>2. Ordered(<<>>) /\ Carried(<<>>) = {}
    BY DEF Ordered, Carried
  <2> QED BY <2>1, <2>2 DEF Forward
<1> QED BY <1>1, <1>2, <1>3 DEF OrderInv, Kept

LEMMA ArriveOrder ==
  ASSUME OrderInv, NEW d \in Direction, Arrive(d)
  PROVE  Kept'
<1>1. TypeOK /\ Kept
  BY DEF OrderInv, IInv
<1>2. \A e \in Direction \ {d} : Untouched(e)
  BY <1>1 DEF Arrive, Untouched, TypeOK, channel
<1>3. /\ sink'[d] = sink[d] /\ data'[d] = data[d] /\ received'[d] = received[d]
      /\ source'[d] = Append(source[d], offered[d] + 1) /\ offered'[d] = offered[d] + 1
      /\ purged' = purged
  BY <1>1 DEF Arrive, TypeOK, channel
<1>4. ASSUME Forward(d) PROVE Forward(d)'
  <2>1. Line(sink[d], data[d], source[d], received[d], offered[d])
    BY <1>4, ForwardIsLine
  <2>2. Line(sink[d], data[d], Append(source[d], offered[d] + 1), received[d], offered[d] + 1)
    BY <1>1, <2>1, MovingTypes, LineArrive, Zenon
  <2>3. Line(sink'[d], data'[d], source'[d], received'[d], offered'[d])
    BY <1>3, <2>2
  <2> QED BY <2>3 DEF Forward, Line, Moving
<1> QED BY <1>1, <1>2, <1>3, <1>4, KeptByOne

LEMMA DepartOrder ==
  ASSUME OrderInv, NEW d \in Direction, Depart(d)
  PROVE  Kept'
<1>1. TypeOK /\ Kept
  BY DEF OrderInv, IInv
<1>2. \A e \in Direction \ {d} : Untouched(e)
  BY <1>1 DEF Depart, Untouched, TypeOK, channel
<1>3. /\ sink[d] # <<>> /\ sink'[d] = Tail(sink[d])
      /\ received'[d] = (IF Head(sink[d]) = Log THEN received[d] ELSE received[d] + 1)
      /\ data'[d] = data[d] /\ source'[d] = source[d] /\ offered'[d] = offered[d]
      /\ purged' = purged
  BY <1>1 DEF Depart, TypeOK, channel
<1>4. ASSUME Forward(d) PROVE Forward(d)'
  <2>1. Line(sink[d], data[d], source[d], received[d], offered[d])
    BY <1>4, ForwardIsLine
  <2>2. Line(Tail(sink[d]), data[d], source[d],
             IF Head(sink[d]) = Log THEN received[d] ELSE received[d] + 1, offered[d])
    BY <1>1, <1>3, <2>1, MovingTypes, LineDepart, Zenon
  <2>3. Line(sink'[d], data'[d], source'[d], received'[d], offered'[d])
    BY <1>3, <2>2
  <2> QED BY <2>3 DEF Forward, Line, Moving
<1> QED BY <1>1, <1>2, <1>3, <1>4, KeptByOne

LEMMA WriteOrder ==
  ASSUME OrderInv, serial_bridge_write
  PROVE  Kept'
<1> DEFINE d == "in"
<1>1. TypeOK /\ Kept /\ d \in Direction
  BY DEF OrderInv, IInv, Direction
<1>2. \A e \in Direction \ {d} : Untouched(e)
  BY <1>1 DEF serial_bridge_write, Untouched, TypeOK, channel
<1>3. /\ sink'[d] = Append(sink[d], Log) /\ data'[d] = data[d] /\ source'[d] = source[d]
      /\ received'[d] = received[d] /\ offered'[d] = offered[d] /\ purged' = purged
  BY <1>1 DEF serial_bridge_write, TypeOK, channel
<1> HIDE DEF d
<1>4. ASSUME Forward(d) PROVE Forward(d)'
  <2>1. Line(sink[d], data[d], source[d], received[d], offered[d])
    BY <1>1, <1>4, ForwardIsLine
  <2>2. Line(Append(sink[d], Log), data[d], source[d], received[d], offered[d])
    BY <1>1, <2>1, MovingTypes, LineWrite, Zenon
  <2>3. Line(sink'[d], data'[d], source'[d], received'[d], offered'[d])
    BY <1>3, <2>2
  <2> QED BY <2>3 DEF Forward, Line, Moving
<1> QED BY <1>1, <1>2, <1>3, <1>4, KeptByOne

LEMMA ReadOrder ==
  ASSUME OrderInv, NEW d \in Direction, Read(d)
  PROVE  Kept'
<1>1. TypeOK /\ Kept /\ data[d] = <<>>
  BY DEF OrderInv, IInv, TypeOK, Read
<1>2. \A e \in Direction \ {d} : Untouched(e)
  BY <1>1 DEF Read, Untouched, TypeOK, rings
<1>3. PICK n \in 1..Len(source[d]) :
        /\ data' = [data EXCEPT ![d] = SubSeq(source[d], 1, n)]
        /\ source' = [source EXCEPT ![d] = SubSeq(@, n + 1, Len(@))]
  BY DEF Read
<1>4. /\ data'[d] = SubSeq(source[d], 1, n)
      /\ source'[d] = SubSeq(source[d], n + 1, Len(source[d]))
      /\ sink'[d] = sink[d] /\ received'[d] = received[d] /\ offered'[d] = offered[d]
      /\ purged' = purged
  BY <1>1, <1>3 DEF Read, TypeOK
<1>5. ASSUME Forward(d) PROVE Forward(d)'
  <2>1. Line(sink[d], <<>>, source[d], received[d], offered[d])
    BY <1>1, <1>5, ForwardIsLine
  <2>2. Line(sink[d], SubSeq(source[d], 1, n), SubSeq(source[d], n + 1, Len(source[d])),
             received[d], offered[d])
    BY <1>1, <2>1, MovingTypes, LineRead, Zenon
  <2>3. Line(sink'[d], data'[d], source'[d], received'[d], offered'[d])
    BY <1>4, <2>2
  <2> QED BY <2>3 DEF Forward, Line, Moving
<1> QED BY <1>1, <1>2, <1>4, <1>5, KeptByOne

LEMMA TransmitOrder ==
  ASSUME OrderInv, NEW d \in Direction, Transmit(d)
  PROVE  Kept'
<1>1. TypeOK /\ Kept
  BY DEF OrderInv, IInv
<1>2. \A e \in Direction \ {d} : Untouched(e)
  BY <1>1 DEF Transmit, Untouched, TypeOK, rings
<1>3. PICK n \in 1..Len(data[d]) :
        /\ sink' = [sink EXCEPT ![d] = @ \o SubSeq(data[d], 1, n)]
        /\ data' = [data EXCEPT ![d] = SubSeq(@, n + 1, Len(@))]
  BY DEF Transmit
<1>4. /\ sink'[d] = sink[d] \o SubSeq(data[d], 1, n)
      /\ data'[d] = SubSeq(data[d], n + 1, Len(data[d]))
      /\ source'[d] = source[d] /\ received'[d] = received[d] /\ offered'[d] = offered[d]
      /\ purged' = purged
  BY <1>1, <1>3 DEF Transmit, TypeOK
<1>5. ASSUME Forward(d) PROVE Forward(d)'
  <2>1. Line(sink[d], data[d], source[d], received[d], offered[d])
    BY <1>5, ForwardIsLine
  <2>2. Line(sink[d] \o SubSeq(data[d], 1, n), SubSeq(data[d], n + 1, Len(data[d])),
             source[d], received[d], offered[d])
    BY <1>1, <2>1, MovingTypes, LineTransmit, Zenon
  <2>3. Line(sink'[d], data'[d], source'[d], received'[d], offered'[d])
    BY <1>4, <2>2
  <2> QED BY <2>3 DEF Forward, Line, Moving
<1> QED BY <1>1, <1>2, <1>4, <1>5, KeptByOne

\* With its buffer empty a direction loses nothing but what is in the source.
LEMMA PurgeOrder ==
  ASSUME OrderInv, Purge
  PROVE  Kept'
<1>1. TypeOK /\ Kept /\ data["in"] = <<>>
  BY DEF OrderInv, IInv, TypeOK, PurgesInput, Purge, Direction
<1>2. Untouched("out")
  BY <1>1 DEF Purge, Untouched, TypeOK, Direction
<1>3. Forward("out")'
  BY <1>1, <1>2, UntouchedIsForward DEF Kept, Direction
<1>4. CASE source["in"] # <<>>
  <2>1. purged'
    BY <1>4 DEF Purge
  <2> QED BY <1>3, <2>1 DEF Kept, Direction
<1>5. CASE source["in"] = <<>>
  <2>1. Untouched("in") /\ purged' = purged
    BY <1>1, <1>5 DEF Purge, Untouched, TypeOK, Direction
  <2>2. Forward("in") => Forward("in")'
    BY <2>1, UntouchedIsForward DEF Direction
  <2> QED BY <1>1, <1>3, <2>1, <2>2 DEF Kept, Direction
<1> QED BY <1>4, <1>5

LEMMA NextPurges ==
  ASSUME OrderInv, [Next]_vars
  PROVE  PurgesInput'
<1>1. PurgesInput /\ TypeOK /\ ClosedIsIdle
  BY DEF OrderInv, IInv
<1>2. CASE Wake \/ EnterIn \/ Purge
  BY <1>1, <1>2 DEF Wake, EnterIn, Purge, Enter, PurgesInput, ClosedIsIdle
<1>3. ASSUME NEW d \in Direction, Read(d) \/ Rest(d) \/ Transmit(d) \/ Refuse(d) \/ Block(d)
      PROVE  PurgesInput'
  BY <1>1, <1>3, Names DEF Read, Rest, Transmit, Refuse, Block, BlockOn, Leave, Refusal, PurgesInput, channel, Direction
<1>4. CASE EnableRx \/ Connect \/ serial_bridge_write
  BY <1>1, <1>4 DEF EnableRx, Connect, serial_bridge_write, PurgesInput, channel
<1>5. ASSUME NEW d \in Direction, Arrive(d) \/ Depart(d) PROVE PurgesInput'
  BY <1>1, <1>5 DEF Arrive, Depart, PurgesInput, channel
<1>6. CASE UNCHANGED vars
  BY <1>1, <1>6 DEF vars, channel, PurgesInput
<1> QED BY <1>2, <1>3, <1>4, <1>5, <1>6 DEF Next, Task

LEMMA NextKept ==
  ASSUME OrderInv, [Next]_vars
  PROVE  Kept'
<1> DEFINE Still == purged' = purged /\ \A d \in Direction : Untouched(d)
<1>1. Still => Kept'
  BY UntouchedIsForward DEF OrderInv, Kept
<1>2. CASE Wake \/ EnterIn \/ EnableRx \/ Connect \/ UNCHANGED vars
  BY <1>1, <1>2 DEF Wake, EnterIn, EnableRx, Connect, Untouched, vars, rings, channel
<1>3. ASSUME NEW d \in Direction, Rest(d) \/ Refuse(d) \/ Block(d) PROVE Kept'
  BY <1>1, <1>3 DEF Rest, Refuse, Block, Untouched, rings, channel
<1> QED BY <1>2, <1>3, ArriveOrder, DepartOrder, WriteOrder, ReadOrder, TransmitOrder, PurgeOrder DEF Next, Task

LEMMA NextOrder == OrderInv /\ [Next]_vars => OrderInv'
<1> SUFFICES ASSUME OrderInv, [Next]_vars PROVE OrderInv'
  OBVIOUS
<1>1. IInv'
  BY NextIInv DEF OrderInv
<1> QED BY <1>1, NextPurges, NextKept DEF OrderInv

(* In both directions every byte comes out once and in the order it came   *)
(* in, whatever a refused or partial write leaves behind and whatever the  *)
(* GDB task writes in between: only what is purged while the port is       *)
(* closed is lost.                                                         *)
THEOREM ForwardsInOrder == Spec => []InOrder
<1>1. OrderInv => InOrder
  BY DEF OrderInv, Kept, Forward, Moving, InOrder
<1> QED BY <1>1, InitOrder, NextOrder, PTL DEF Spec

-----------------------------------------------------------------------------
(* Loops.  Flatten and Sum are recursive functions, about which the        *)
(* provers know nothing, not even that they exist.                         *)

(* What holds of 0, and of k when it holds of k - 1, holds up to n.        *)
LEMMA Count ==
  ASSUME NEW n \in Nat, NEW A, 0 \in A, \A k \in 1..n : k - 1 \in A => k \in A
  PROVE  \A k \in 0..n : k \in A
<1> DEFINE F == {k \in 0..n : k \notin A}
           R == OpToRel(<, Nat)
<1> SUFFICES ASSUME F # {} PROVE FALSE
  OBVIOUS
<1>1. IsWellFoundedOn(R, Nat)
  BY NatLessThanWellFounded DEF OpToRel
<1>2. \A x, y \in Nat : y < x <=> <<y, x>> \in R
  BY DEF OpToRel
<1> HIDE DEF R
<1>3. F \subseteq Nat
  OBVIOUS
<1>4. PICK x \in F : \A y \in F : ~(<<y, x>> \in R)
  BY <1>1, <1>3, WFMin, Zenon
<1>5. x \in 1..n /\ x - 1 \in Nat /\ x - 1 < x /\ x - 1 \in 0..n
  OBVIOUS
<1>6. x - 1 \notin F
  <2>1. x \in Nat
    BY <1>5
  <2>2. <<x - 1, x>> \in R
    BY <1>2, <1>5, <2>1
  <2> QED BY <1>4, <2>2
<1> QED BY <1>5, <1>6

\* g: b, and after it what G makes of each turn and the value before
Turns(g, n, b, G) == g = [k \in 0..n |-> IF k = 0 THEN b ELSE G[<<k, g[k - 1]>>]]

(* A loop whose turns stay in S has a value at every turn.                 *)
LEMMA LoopExists ==
  ASSUME NEW n \in Nat, NEW S, NEW b \in S, NEW G \in [(1..n) \X S -> S]
  PROVE  \E g \in [0..n -> S] : Turns(g, n, b, G)
<1> DEFINE A == {m \in 0..n : \E g \in [0..m -> S] : Turns(g, m, b, G)}
<1>1. 0 \in A
  <2>1. [k \in 0..0 |-> b] \in [0..0 -> S] /\ Turns([k \in 0..0 |-> b], 0, b, G)
    BY DEF Turns
  <2> QED BY <2>1
<1>2. ASSUME NEW m \in 1..n, m - 1 \in A PROVE m \in A
  <2>1. PICK g \in [0..(m - 1) -> S] : Turns(g, m - 1, b, G)
    BY <1>2
  <2> DEFINE h == [k \in 0..m |-> IF k = m THEN G[<<m, g[m - 1]>>] ELSE g[k]]
  <2>2. g[m - 1] \in S
    <3>1. m - 1 \in 0..(m - 1)
      OBVIOUS
    <3> QED BY <3>1
  <2>3. G[<<m, g[m - 1]>>] \in S
    <3>1. <<m, g[m - 1]>> \in (1..n) \X S
      BY <2>2
    <3> QED BY <3>1
  <2>4. h \in [0..m -> S]
    BY <2>3
  <2>5. ASSUME NEW k \in 0..m PROVE h[k] = IF k = 0 THEN b ELSE G[<<k, h[k - 1]>>]
    <3>1. CASE k = m
      <4>1. m \in 0..m /\ m - 1 \in 0..m /\ m - 1 # m /\ m # 0
        OBVIOUS
      <4>2. h[m] = G[<<m, g[m - 1]>>] /\ h[m - 1] = g[m - 1]
        BY <4>1
      <4> QED BY <3>1, <4>1, <4>2, Zenon
    <3>2. CASE k # m
      <4>1. k \in 0..(m - 1) /\ h[k] = g[k] /\ (k # 0 => h[k - 1] = g[k - 1])
        BY <3>2
      <4>2. g[k] = IF k = 0 THEN b ELSE G[<<k, g[k - 1]>>]
        BY <2>1, <4>1 DEF Turns
      <4> HIDE DEF h
      <4> QED BY <4>1, <4>2
    <3> QED BY <3>1, <3>2
  <2> HIDE DEF h
  <2>6. Turns(h, m, b, G)
    BY <2>4, <2>5 DEF Turns
  <2> QED BY <2>4, <2>6
<1>3. \A k \in 0..n : k \in A
  BY <1>1, <1>2, Count
<1> QED BY <1>3

\* f: how far Flatten has got after each part
Grows(f, ss) ==
  /\ DOMAIN f = 0..Len(ss) /\ f[0] = <<>>
  /\ \A i \in 1..Len(ss) : f[i] = f[i - 1] \o ss[i]

(* Flatten puts the parts behind one another.                              *)
LEMMA FlattenGrows ==
  ASSUME NEW S, NEW ss \in Seq(Seq(S))
  PROVE  \E f \in [0..Len(ss) -> Seq(S)] : Grows(f, ss) /\ Flatten(ss) = f[Len(ss)]
<1> DEFINE n == Len(ss)
           G == [x \in (1..n) \X Seq(S) |-> x[2] \o ss[x[1]]]
           f == CHOOSE f : f = [i \in 0..Len(ss) |-> IF i = 0 THEN <<>> ELSE f[i - 1] \o ss[i]]
<1>1. n \in Nat /\ <<>> \in Seq(S) /\ \A i \in 1..n : ss[i] \in Seq(S)
  OBVIOUS
<1>2. G \in [(1..n) \X Seq(S) -> Seq(S)]
  BY <1>1
<1>3. PICK g \in [0..n -> Seq(S)] : Turns(g, n, <<>>, G)
  BY <1>1, <1>2, LoopExists
<1>4. \A i \in 0..n : g[i] = IF i = 0 THEN <<>> ELSE g[i - 1] \o ss[i]
  <2> TAKE i \in 0..n
  <2>1. g[i] = IF i = 0 THEN <<>> ELSE G[<<i, g[i - 1]>>]
    BY <1>3 DEF Turns
  <2>2. CASE i # 0
    <3>1. i \in 1..n /\ i - 1 \in 0..n
      BY <2>2
    <3>2. g[i - 1] \in Seq(S)
      BY <3>1
    <3>3. G[<<i, g[i - 1]>>] = g[i - 1] \o ss[i]
      BY <3>1, <3>2
    <3> QED BY <2>1, <2>2, <3>3
  <2> QED BY <2>1, <2>2
<1>5. g = [i \in 0..Len(ss) |-> IF i = 0 THEN <<>> ELSE g[i - 1] \o ss[i]]
  BY <1>4
<1>6. f = [i \in 0..Len(ss) |-> IF i = 0 THEN <<>> ELSE f[i - 1] \o ss[i]]
  BY <1>5
<1>7. Flatten(ss) = f[Len(ss)]
  BY DEF Flatten
<1> HIDE DEF f, G
<1>8. \A i \in 0..n : f[i] = IF i = 0 THEN <<>> ELSE f[i - 1] \o ss[i]
  BY <1>6
<1>9. \A i \in 0..n : f[i] = g[i]
  <2> DEFINE A == {i \in 0..n : f[i] = g[i]}
  <2>1. 0 \in A
    <3>1. 0 \in 0..n
      BY <1>1
    <3>2. f[0] = <<>> /\ g[0] = <<>>
      BY <1>4, <1>8, <3>1, Zenon
    <3> QED BY <3>1, <3>2
  <2>2. ASSUME NEW k \in 1..n, k - 1 \in A PROVE k \in A
    <3>1. k \in 0..n /\ k # 0 /\ f[k - 1] = g[k - 1]
      BY <2>2
    <3> QED BY <1>4, <1>8, <3>1
  <2>3. \A k \in 0..n : k \in A
    BY <1>1, <2>1, <2>2, Count
  <2> QED BY <2>3
<1>10. Grows(g, ss)
  <2>1. DOMAIN g = 0..Len(ss) /\ 0 \in 0..n
    BY <1>1
  <2>2. g[0] = <<>>
    BY <1>4, <2>1, Zenon
  <2>3. ASSUME NEW i \in 1..Len(ss) PROVE g[i] = g[i - 1] \o ss[i]
    <3>1. i \in 0..n /\ i # 0
      BY <2>3
    <3> QED BY <1>4, <3>1, Zenon
  <2> QED BY <2>1, <2>2, <2>3 DEF Grows
<1> QED BY <1>1, <1>7, <1>9, <1>10

\* f: how far Sum has got after each place
Adds(f, s) ==
  /\ DOMAIN f = 0..Len(s) /\ f[0] = 0
  /\ \A i \in 1..Len(s) : f[i] = f[i - 1] + s[i]

(* Sum adds up what is at the places.                                      *)
LEMMA SumAdds ==
  ASSUME NEW s \in Seq(Nat)
  PROVE  \E f \in [0..Len(s) -> Nat] : Adds(f, s) /\ Sum(s) = f[Len(s)]
<1> DEFINE n == Len(s)
           G == [x \in (1..n) \X Nat |-> x[2] + s[x[1]]]
           f == CHOOSE f : f = [i \in 0..Len(s) |-> IF i = 0 THEN 0 ELSE f[i - 1] + s[i]]
<1>1. n \in Nat /\ \A i \in 1..n : s[i] \in Nat
  OBVIOUS
<1>2. G \in [(1..n) \X Nat -> Nat]
  BY <1>1
<1>3. PICK g \in [0..n -> Nat] : Turns(g, n, 0, G)
  BY <1>1, <1>2, LoopExists
<1>4. \A i \in 0..n : g[i] = IF i = 0 THEN 0 ELSE g[i - 1] + s[i]
  <2> TAKE i \in 0..n
  <2>1. g[i] = IF i = 0 THEN 0 ELSE G[<<i, g[i - 1]>>]
    BY <1>3 DEF Turns
  <2>2. CASE i # 0
    <3>1. i \in 1..n /\ i - 1 \in 0..n
      BY <2>2
    <3>2. g[i - 1] \in Nat
      BY <3>1
    <3>3. G[<<i, g[i - 1]>>] = g[i - 1] + s[i]
      BY <3>1, <3>2
    <3> QED BY <2>1, <2>2, <3>3
  <2> QED BY <2>1, <2>2
<1>5. g = [i \in 0..Len(s) |-> IF i = 0 THEN 0 ELSE g[i - 1] + s[i]]
  BY <1>4
<1>6. f = [i \in 0..Len(s) |-> IF i = 0 THEN 0 ELSE f[i - 1] + s[i]]
  BY <1>5
<1>7. Sum(s) = f[Len(s)]
  BY DEF Sum
<1> HIDE DEF f, G
<1>8. \A i \in 0..n : f[i] = IF i = 0 THEN 0 ELSE f[i - 1] + s[i]
  BY <1>6
<1>9. \A i \in 0..n : f[i] = g[i]
  <2> DEFINE A == {i \in 0..n : f[i] = g[i]}
  <2>1. 0 \in A
    <3>1. 0 \in 0..n
      BY <1>1
    <3>2. f[0] = 0 /\ g[0] = 0
      BY <1>4, <1>8, <3>1, Zenon
    <3> QED BY <3>1, <3>2
  <2>2. ASSUME NEW k \in 1..n, k - 1 \in A PROVE k \in A
    <3>1. k \in 0..n /\ k # 0 /\ f[k - 1] = g[k - 1]
      BY <2>2
    <3> QED BY <1>4, <1>8, <3>1
  <2>3. \A k \in 0..n : k \in A
    BY <1>1, <2>1, <2>2, Count
  <2> QED BY <2>3
<1>10. Adds(g, s)
  <2>1. DOMAIN g = 0..Len(s) /\ 0 \in 0..n
    BY <1>1
  <2>2. g[0] = 0
    BY <1>4, <2>1, Zenon
  <2>3. ASSUME NEW i \in 1..Len(s) PROVE g[i] = g[i - 1] + s[i]
    <3>1. i \in 0..n /\ i # 0
      BY <2>3
    <3> QED BY <1>4, <3>1, Zenon
  <2> QED BY <2>1, <2>2, <2>3 DEF Adds
<1> QED BY <1>1, <1>7, <1>9, <1>10

-----------------------------------------------------------------------------
(* Sequences.                                                              *)

(* A sequence cut after i is what it is cut after i - 1, and its ith.      *)
LEMMA CutGrows ==
  ASSUME NEW S, NEW s \in Seq(S), NEW i \in 1..Len(s)
  PROVE  /\ SubSeq(s, 1, i - 1) \in Seq(S) /\ Len(SubSeq(s, 1, i - 1)) = i - 1
         /\ SubSeq(s, 1, i) = Append(SubSeq(s, 1, i - 1), s[i])
<1>1. SubSeq(s, 1, i - 1) \in Seq(S) /\ Len(SubSeq(s, 1, i - 1)) = i - 1
  OBVIOUS
<1>2. SubSeq(s, 1, i) \in Seq(S) /\ Len(SubSeq(s, 1, i)) = i
  OBVIOUS
<1>3. Append(SubSeq(s, 1, i - 1), s[i]) \in Seq(S) /\ Len(Append(SubSeq(s, 1, i - 1), s[i])) = i
  BY <1>1
<1>4. \A j \in 1..i : SubSeq(s, 1, i)[j] = Append(SubSeq(s, 1, i - 1), s[i])[j]
  BY <1>1
<1> QED BY <1>1, <1>2, <1>3, <1>4, SeqEqual

(* What is where in two sequences, one behind the other.                   *)
LEMMA ConcatAt ==
  ASSUME NEW S, NEW a \in Seq(S), NEW b \in Seq(S)
  PROVE  /\ a \o b \in Seq(S) /\ Len(a) \in Nat /\ Len(b) \in Nat
         /\ Len(a \o b) = Len(a) + Len(b) /\ Len(a) <= Len(a \o b)
         /\ \A j \in 1..Len(a) : (a \o b)[j] = a[j]
         /\ \A j \in 1..Len(b) : (a \o b)[Len(a) + j] = b[j]
OBVIOUS

LEMMA ConsAt ==
  ASSUME NEW S, NEW c \in S, NEW a \in Seq(S)
  PROVE  /\ <<c>> \o a \in Seq(S) /\ Len(<<c>> \o a) = Len(a) + 1
         /\ (<<c>> \o a)[1] = c /\ \A j \in 1..Len(a) : (<<c>> \o a)[j + 1] = a[j]
OBVIOUS

\* W: c, a, d and what is left
Between(W, c, a, d, t) ==
  /\ Len(W) = Len(a) + 2 + Len(t)
  /\ W[1] = c /\ \A j \in 1..Len(a) : W[j + 1] = a[j]
  /\ W[Len(a) + 2] = d
  /\ \A k \in (Len(a) + 3)..Len(W) : W[k] \in {t[j] : j \in 1..Len(t)}

LEMMA BetweenAt ==
  ASSUME NEW S, NEW c \in S, NEW a \in Seq(S), NEW d \in S, NEW t \in Seq(S)
  PROVE  LET W == (<<c>> \o a) \o (<<d>> \o t) IN W \in Seq(S) /\ Between(W, c, a, d, t)
<1>0. PICK W : W = (<<c>> \o a) \o (<<d>> \o t)
  OBVIOUS
<1>1. PICK H \in Seq(S) : H = <<c>> \o a /\ Len(H) = Len(a) + 1 /\ H[1] = c
                          /\ \A j \in 1..Len(a) : H[j + 1] = a[j]
  <2>1. /\ <<c>> \o a \in Seq(S) /\ Len(<<c>> \o a) = Len(a) + 1
        /\ (<<c>> \o a)[1] = c /\ \A j \in 1..Len(a) : (<<c>> \o a)[j + 1] = a[j]
    BY ConsAt
  <2> QED BY <2>1, Zenon
<1>2. PICK T \in Seq(S) : T = <<d>> \o t /\ Len(T) = Len(t) + 1 /\ T[1] = d
                          /\ \A j \in 1..Len(t) : T[j + 1] = t[j]
  <2>1. /\ <<d>> \o t \in Seq(S) /\ Len(<<d>> \o t) = Len(t) + 1
        /\ (<<d>> \o t)[1] = d /\ \A j \in 1..Len(t) : (<<d>> \o t)[j + 1] = t[j]
    BY ConsAt
  <2> QED BY <2>1, Zenon
<1>3. W = H \o T
  BY <1>0, <1>1, <1>2, Zenon
<1>4. /\ W \in Seq(S) /\ Len(W) = Len(H) + Len(T)
      /\ \A j \in 1..Len(H) : W[j] = H[j]
      /\ \A j \in 1..Len(T) : W[Len(H) + j] = T[j]
  <2>1. /\ H \o T \in Seq(S) /\ Len(H \o T) = Len(H) + Len(T)
        /\ \A j \in 1..Len(H) : (H \o T)[j] = H[j]
        /\ \A j \in 1..Len(T) : (H \o T)[Len(H) + j] = T[j]
    BY ConcatAt
  <2> QED BY <1>3, <2>1, Zenon
<1>5. PICK n \in Nat : n = Len(a)
  OBVIOUS
<1>6. PICK m \in Nat : m = Len(t)
  OBVIOUS
<1>7. Len(H) = n + 1 /\ Len(T) = m + 1
  BY <1>1, <1>2, <1>5, <1>6, Zenon
<1>8. Len(W) = n + 2 + m
  <2>1. Len(W) = (n + 1) + (m + 1)
    BY <1>4, <1>7, Zenon
  <2> QED BY <2>1
<1>9. W[1] = c
  <2>1. 1 \in 1..(n + 1)
    OBVIOUS
  <2> QED BY <1>1, <1>4, <1>7, <2>1, Zenon
<1>10. ASSUME NEW j \in 1..n PROVE W[j + 1] = a[j]
  <2>1. j + 1 \in 1..(n + 1)
    OBVIOUS
  <2> QED BY <1>1, <1>4, <1>5, <1>7, <2>1, Zenon
<1>11. W[n + 2] = d
  <2>1. 1 \in 1..(m + 1) /\ (n + 1) + 1 = n + 2
    OBVIOUS
  <2>2. W[(n + 1) + 1] = d
    BY <1>2, <1>4, <1>7, <2>1, Zenon
  <2> QED BY <2>1, <2>2
<1>12. ASSUME NEW k \in (n + 3)..(n + 2 + m) PROVE W[k] \in {t[j] : j \in 1..m}
  <2>1. PICK j \in 1..m : j + 1 \in 1..(m + 1) /\ (n + 1) + (j + 1) = k
    <3>1. k - (n + 2) \in 1..m /\ (k - (n + 2)) + 1 \in 1..(m + 1)
          /\ (n + 1) + ((k - (n + 2)) + 1) = k
      OBVIOUS
    <3> QED BY <3>1, Zenon
  <2>2. W[(n + 1) + (j + 1)] = t[j]
    BY <1>2, <1>4, <1>6, <1>7, <2>1, Zenon
  <2>3. W[k] = t[j]
    BY <2>1, <2>2, Zenon
  <2> QED BY <2>3, Zenon
<1>13. Between(W, c, a, d, t)
  BY <1>4, <1>5, <1>6, <1>8, <1>9, <1>10, <1>11, <1>12, Zenon DEF Between
<1> QED BY <1>0, <1>4, <1>13, Zenon

LEMMA ThreeBytes ==
  ASSUME NEW S, NEW a \in S, NEW b \in S, NEW c \in S
  PROVE  <<a>> \o <<b, c>> = <<a, b, c>>
<1>1. <<a>> \in Seq(S) /\ <<b, c>> \in Seq(S) /\ Len(<<a>>) = 1 /\ Len(<<b, c>>) = 2
  OBVIOUS
<1>2. <<a, b, c>> \in Seq(S) /\ Len(<<a, b, c>>) = 3
  OBVIOUS
<1>3. <<a>> \o <<b, c>> \in Seq(S) /\ Len(<<a>> \o <<b, c>>) = 3
  BY <1>1
<1>4. \A j \in 1..3 : j = 1 \/ j = 2 \/ j = 3
  OBVIOUS
<1>5. (<<a>> \o <<b, c>>)[1] = a /\ (<<a>> \o <<b, c>>)[2] = b /\ (<<a>> \o <<b, c>>)[3] = c
  OBVIOUS
<1>6. <<a, b, c>>[1] = a /\ <<a, b, c>>[2] = b /\ <<a, b, c>>[3] = c
  OBVIOUS
<1>7. \A j \in 1..3 : (<<a>> \o <<b, c>>)[j] = <<a, b, c>>[j]
  BY <1>4, <1>5, <1>6
<1> DEFINE s == <<a>> \o <<b, c>>
           t == <<a, b, c>>
<1> HIDE DEF s, t
<1>8. s = t
  BY <1>2, <1>3, <1>7, SeqEqual DEF s, t
<1> QED BY <1>8 DEF s, t

(* What has been flattened stays as it is.                                 *)
LEMMA FlattenKeeps ==
  ASSUME NEW S, NEW ss \in Seq(Seq(S)), NEW f \in [0..Len(ss) -> Seq(S)],
         Grows(f, ss)
  PROVE  \A i \in 0..Len(ss) : \A j \in 1..Len(f[i]) :
           j \in 1..Len(f[Len(ss)]) /\ f[Len(ss)][j] = f[i][j]
<1> DEFINE n == Len(ss)
           Sent(i) == /\ Len(f[i]) <= Len(f[n])
                      /\ \A j \in 1..Len(f[i]) : f[n][j] = f[i][j]
           A == {k \in 0..n : Sent(n - k)}
<1>1. n \in Nat /\ \A i \in 0..n : f[i] \in Seq(S) /\ Len(f[i]) \in Nat
  OBVIOUS
<1>2. 0 \in A
  BY <1>1
<1>3. ASSUME NEW k \in 1..n, k - 1 \in A PROVE k \in A
  <2>1. PICK i \in 1..n : i \in 0..n /\ i - 1 \in 0..n /\ n - k = i - 1 /\ n - (k - 1) = i
    <3>1. n - k + 1 \in 1..n /\ n - k + 1 \in 0..n /\ n - k = (n - k + 1) - 1
            /\ (n - k + 1) - 1 \in 0..n /\ n - (k - 1) = n - k + 1
      BY <1>1
    <3> QED BY <3>1
  <2>2. Sent(i)
    BY <1>3, <2>1
  <2>3. f[i] = f[i - 1] \o ss[i] /\ ss[i] \in Seq(S)
    <3>1. i \in 1..Len(ss)
      OBVIOUS
    <3>2. ss[i] \in Seq(S)
      BY <3>1, ElementOfSeq
    <3> QED BY <3>1, <3>2, Zenon DEF Grows
  <2>4. Len(f[i - 1]) <= Len(f[i]) /\ \A j \in 1..Len(f[i - 1]) : f[i][j] = f[i - 1][j]
    <3>1. f[i - 1] \in Seq(S)
      BY <1>1, <2>1
    <3>2. /\ Len(f[i - 1]) <= Len(f[i - 1] \o ss[i])
          /\ \A j \in 1..Len(f[i - 1]) : (f[i - 1] \o ss[i])[j] = f[i - 1][j]
      BY <2>3, <3>1, ConcatAt, Zenon
    <3>3. f[i] = f[i - 1] \o ss[i]
      BY <2>3
    <3> QED BY <3>2, <3>3, Zenon
  <2>5. Sent(i - 1)
    <3>1. Len(f[i - 1]) \in Nat /\ Len(f[i]) \in Nat /\ Len(f[n]) \in Nat
      BY <1>1, <2>1
    <3>2. \A j \in 1..Len(f[i - 1]) : j \in 1..Len(f[i])
      BY <2>4, <3>1
    <3> HIDE DEF n
    <3> QED BY <2>2, <2>4, <3>1, <3>2
  <2> QED BY <2>1, <2>5
<1>4. \A k \in 0..n : k \in A
  BY <1>1, <1>2, <1>3, Count
<1>5. \A i \in 0..n : Sent(i)
  <2> TAKE i \in 0..n
  <2>1. n - i \in 0..n /\ n - (n - i) = i
    BY <1>1
  <2> QED BY <1>4, <2>1
<1> QED BY <1>1, <1>5

-----------------------------------------------------------------------------
(* The codec.                                                              *)

(* A digit is a decimal digit or a capital letter.                         *)
Digits == 48..70

LEMMA DigitRead == \A v \in 0..15 : _tohex(v) \in Digits /\ _hex(_tohex(v)) = v
<1> SUFFICES ASSUME NEW v \in 0..15 PROVE _tohex(v) \in Digits /\ _hex(_tohex(v)) = v
  OBVIOUS
<1>1. CASE v >= 10
  <2>1. _tohex(v) = 55 + v
    BY <1>1 DEF _tohex
  <2>2. 55 + v \in 65..70 /\ 55 + v \notin 48..57 /\ 55 + v \notin 97..102
    BY <1>1
  <2>3. _hex(55 + v) = (55 + v) - 55
    BY <2>2 DEF _hex
  <2> QED BY <2>1, <2>2, <2>3 DEF Digits
<1>2. CASE ~(v >= 10)
  <2>1. _tohex(v) = 48 + v
    BY <1>2 DEF _tohex
  <2>2. 48 + v \in 48..57 /\ 48 + v \notin 65..70 /\ 48 + v \notin 97..102
    BY <1>2
  <2>3. _hex(48 + v) = (48 + v) - 48
    BY <2>2 DEF _hex
  <2> QED BY <2>1, <2>2, <2>3 DEF Digits
<1> QED BY <1>1, <1>2

LEMMA LowByte == \A n \in Nat : n % 256 \in Octet
BY DEF Octet

(* A byte is two digits, which read back as the byte.                      *)
LEMMA OctetRead ==
  ASSUME NEW v \in Octet
  PROVE  \E a, b \in Digits : u8_to_ascii(v) = <<a, b>> /\ ascii_octet_to_hex(a, b) = v
<1>1. v \div 16 \in 0..15 /\ v % 16 \in 0..15 /\ v = 16 * (v \div 16) + (v % 16)
  BY DEF Octet
<1>2. _tohex(v \div 16) \in Digits /\ _tohex(v % 16) \in Digits
  BY <1>1, DigitRead
<1>3. _hex(_tohex(v \div 16)) = v \div 16 /\ _hex(_tohex(v % 16)) = v % 16
  BY <1>1, DigitRead
<1>4. ascii_octet_to_hex(_tohex(v \div 16), _tohex(v % 16)) = v
  BY <1>1, <1>3 DEF ascii_octet_to_hex
<1> QED BY <1>2, <1>4 DEF u8_to_ascii

(* The characters that are escaped on either side.                         *)
Special == {35, 36, 42, 123, 125}

LEMMA FlipBack ==
  \A c \in Special : Flip20(c) \in Octet \ Special /\ Flip20(Flip20(c)) = c
<1>1. Flip20(35) = 3 /\ Flip20(3) = 35
  BY DEF Flip20
<1>2. Flip20(36) = 4 /\ Flip20(4) = 36
  BY DEF Flip20
<1>3. Flip20(42) = 10 /\ Flip20(10) = 42
  BY DEF Flip20
<1>4. Flip20(123) = 91 /\ Flip20(91) = 123
  BY DEF Flip20
<1>5. Flip20(125) = 93 /\ Flip20(93) = 125
  BY DEF Flip20
<1> QED BY <1>1, <1>2, <1>3, <1>4, <1>5 DEF Special, Octet

LEMMA FlipTyped == \A c \in Octet : Flip20(c) \in Octet
<1> SUFFICES ASSUME NEW c \in Octet PROVE Flip20(c) \in Octet
  OBVIOUS
<1>1. CASE (c \div 32) % 2 = 1
  BY <1>1 DEF Flip20, Octet
<1>2. CASE (c \div 32) % 2 # 1
  <2>1. c <= 223 \/ (c \div 32) = 7
    BY DEF Octet
  <2>2. c <= 223
    BY <1>2, <2>1
  <2> QED BY <1>2, <2>2 DEF Flip20, Octet
<1> QED BY <1>1, <1>2

\* What becomes of each byte of p when those of E are escaped
Parts(E, p) ==
  [i \in 1..Len(p) |->
     IF p[i] \in E THEN <<CHAR_ESCAPE, Flip20(p[i])>> ELSE <<p[i]>>]

LEMMA PartsTyped ==
  ASSUME NEW E, NEW p \in Seq(Octet)
  PROVE  /\ Parts(E, p) \in Seq(Seq(Octet)) /\ Len(Parts(E, p)) = Len(p)
         /\ \A i \in 1..Len(p) : Parts(E, p)[i] =
              IF p[i] \in E THEN <<125, Flip20(p[i])>> ELSE <<p[i]>>
<1>1. \A i \in 1..Len(p) : p[i] \in Octet /\ Flip20(p[i]) \in Octet
  BY FlipTyped
<1>2. 125 \in Octet
  BY DEF Octet
<1>3. \A i \in 1..Len(p) : <<CHAR_ESCAPE, Flip20(p[i])>> \in Seq(Octet) /\ <<p[i]>> \in Seq(Octet)
  BY <1>1, <1>2 DEF CHAR_ESCAPE
<1> QED BY <1>3 DEF Parts, CHAR_ESCAPE
\* ss: one by one what stands for the items of p
IsParted(ss, E, p) ==
  \A i \in 1..Len(p) : ss[i] = IF p[i] \in E THEN <<125, Flip20(p[i])>> ELSE <<p[i]>>

LEMMA PartsAt ==
  ASSUME NEW E, NEW p \in Seq(Octet)
  PROVE  IsParted(Parts(E, p), E, p)
BY Zenon DEF Parts, IsParted, CHAR_ESCAPE

-----------------------------------------------------------------------------
(* The decoder.                                                            *)

Decoders ==
  [automaton : {"Idle", "Body", "RpcBody", "Escape", "End1", "End2"},
   buffer : Seq(Octet), checksum : Nat, received : Nat]

\* What Parse leaves of the decoder
After(d, c) == IF Feed(d, c).automaton \in EndStates THEN IdleDecoder ELSE Feed(d, c)

LEMMA IdleTyped ==
  /\ IdleDecoder \in Decoders /\ IdleDecoder.automaton = "Idle"
  /\ StartBody \in Decoders /\ StartRpcBody \in Decoders
<1>1. 0 \in Nat /\ <<>> \in Seq(Octet)
  OBVIOUS
<1>2. \A a \in {"Idle", "Body", "RpcBody", "Escape", "End1", "End2"} :
        [automaton |-> a, buffer |-> <<>>, checksum |-> 0, received |-> 0] \in Decoders
  BY <1>1 DEF Decoders
<1>3. StartBody = [automaton |-> "Body", buffer |-> <<>>, checksum |-> 0, received |-> 0]
      /\ StartRpcBody = [automaton |-> "RpcBody", buffer |-> <<>>, checksum |-> 0, received |-> 0]
  BY DEF StartBody, StartRpcBody, IdleDecoder
<1> QED BY <1>2, <1>3 DEF IdleDecoder

\* A decoder, and a decoder that has stored a byte or has no room for it
At(a, b, s, r) == [automaton |-> a, buffer |-> b, checksum |-> s, received |-> r]

Stored(a, b, s, r, c) ==
  IF Len(b) >= INPUT_BUFFER_SIZE THEN At("Error", b, s, r)
                                 ELSE At(a, Append(b, c), s, r)

LEMMA StoreAt ==
  ASSUME NEW a, NEW b, NEW s, NEW r, NEW c
  PROVE  Store(At(a, b, s, r), c) = Stored(a, b, s, r, c)
<1>1. At(a, b, s, r).buffer = b
  BY DEF At
<1>2. [At(a, b, s, r) EXCEPT !.automaton = "Error"] = At("Error", b, s, r)
  BY DEF At
<1>3. [At(a, b, s, r) EXCEPT !.buffer = Append(@, c)] = At(a, Append(b, c), s, r)
  BY DEF At
<1> QED BY <1>1, <1>2, <1>3, Zenon DEF Store, Stored

(* What a byte makes of a decoder, state by state.                         *)
LEMMA TurnsTo ==
  ASSUME NEW a, NEW b, NEW s, NEW r, NEW x
  PROVE  /\ [At(a, b, s, r) EXCEPT !.automaton = x] = At(x, b, s, r)
         /\ [At(a, b, s, r) EXCEPT !.checksum = x] = At(a, b, x, r)
         /\ [At(a, b, s, r) EXCEPT !.received = x] = At(a, b, s, x)
         /\ At(a, b, s, r).automaton = a /\ At(a, b, s, r).buffer = b
         /\ At(a, b, s, r).checksum = s /\ At(a, b, s, r).received = r
BY DEF At

LEMMA StartsAt ==
  /\ StartBody = At("Body", <<>>, 0, 0) /\ StartRpcBody = At("RpcBody", <<>>, 0, 0)
  /\ IdleDecoder = At("Idle", <<>>, 0, 0)
BY DEF StartBody, StartRpcBody, IdleDecoder, At

LEMMA FeedIdle ==
  ASSUME NEW b, NEW s, NEW r, NEW c \in Nat
  PROVE  Feed(At("Idle", b, s, r), c) =
           IF c = 36 THEN At("Body", <<>>, 0, 0)
           ELSE IF c = 33 THEN At("RpcBody", <<>>, 0, 0)
           ELSE At("Idle", b, s, r)
<1>0. Feed(At("Idle", b, s, r), c) = InIdle(At("Idle", b, s, r), c)
  <2>1. At("Idle", b, s, r).automaton = "Idle"
    BY TurnsTo
  <2> QED BY <2>1 DEF Feed
<1> QED BY <1>0, StartsAt DEF InIdle, CHAR_START, RPC_START

LEMMA FeedRpcBody ==
  ASSUME NEW b, NEW s, NEW r, NEW c \in Nat
  PROVE  Feed(At("RpcBody", b, s, r), c) =
           IF c = 35 THEN At("RpcDone", b, s, r)
           ELSE IF c = 33 THEN At("RpcBody", <<>>, 0, 0)
           ELSE Stored("RpcBody", b, s, r, c)
<1>0. Feed(At("RpcBody", b, s, r), c) = InRpcBody(At("RpcBody", b, s, r), c)
  <2>1. At("RpcBody", b, s, r).automaton = "RpcBody"
    BY TurnsTo
  <2> QED BY <2>1 DEF Feed
<1>1. [At("RpcBody", b, s, r) EXCEPT !.automaton = "RpcDone"] = At("RpcDone", b, s, r)
  BY TurnsTo
<1>2. Store(At("RpcBody", b, s, r), c) = Stored("RpcBody", b, s, r, c)
  BY StoreAt
<1> QED BY <1>0, <1>1, <1>2, StartsAt DEF InRpcBody, RPC_END, RPC_START

LEMMA FeedBody ==
  ASSUME NEW b, NEW s \in Nat, NEW r, NEW c \in Nat
  PROVE  Feed(At("Body", b, s, r), c) =
           IF c = 36 THEN At("Body", <<>>, 0, 0)
           ELSE IF c = 35 THEN At("End1", b, s, r)
           ELSE IF c = 125 THEN At("Escape", b, s, r)
           ELSE Stored("Body", b, s + c, r, c)
<1>0. Feed(At("Body", b, s, r), c) = InBody(At("Body", b, s, r), c)
  <2>1. At("Body", b, s, r).automaton = "Body"
    BY TurnsTo
  <2> QED BY <2>1 DEF Feed
<1>1. [At("Body", b, s, r) EXCEPT !.automaton = "End1"] = At("End1", b, s, r)
      /\ [At("Body", b, s, r) EXCEPT !.automaton = "Escape"] = At("Escape", b, s, r)
  BY TurnsTo
<1>2. [At("Body", b, s, r) EXCEPT !.checksum = @ + c] = At("Body", b, s + c, r)
  BY DEF At
<1>3. Store(At("Body", b, s + c, r), c) = Stored("Body", b, s + c, r, c)
  BY StoreAt
<1> QED BY <1>0, <1>1, <1>2, <1>3, StartsAt DEF InBody, CHAR_START, CHAR_END, CHAR_ESCAPE

LEMMA FeedEscape ==
  ASSUME NEW b, NEW s \in Nat, NEW r, NEW c \in Nat
  PROVE  Feed(At("Escape", b, s, r), c) = Stored("Body", b, s + 125 + c, r, Flip20(c))
<1>0. Feed(At("Escape", b, s, r), c) = InEscape(At("Escape", b, s, r), c)
  <2>1. At("Escape", b, s, r).automaton = "Escape"
    BY TurnsTo
  <2> QED BY <2>1 DEF Feed
<1>1. [At("Escape", b, s, r) EXCEPT !.automaton = "Body", !.checksum = @ + CHAR_ESCAPE + c]
        = At("Body", b, s + 125 + c, r)
  <2>1. [At("Escape", b, s, r) EXCEPT !.automaton = "Body"] = At("Body", b, s, r)
    BY TurnsTo
  <2>2. At("Escape", b, s, r).checksum + CHAR_ESCAPE + c = s + 125 + c
    BY TurnsTo DEF CHAR_ESCAPE
  <2>3. [At("Body", b, s, r) EXCEPT !.checksum = s + 125 + c] = At("Body", b, s + 125 + c, r)
    BY TurnsTo
  <2> QED BY <2>1, <2>2, <2>3, Zenon
<1>2. Store(At("Body", b, s + 125 + c, r), Flip20(c))
        = Stored("Body", b, s + 125 + c, r, Flip20(c))
  BY StoreAt
<1> QED BY <1>0, <1>1, <1>2, Zenon DEF InEscape

LEMMA FeedEnd1 ==
  ASSUME NEW b, NEW s, NEW r, NEW c
  PROVE  Feed(At("End1", b, s, r), c) = At("End2", b, s, c)
<1>0. Feed(At("End1", b, s, r), c) = [At("End1", b, s, r) EXCEPT !.automaton = "End2", !.received = c]
  <2>1. At("End1", b, s, r).automaton = "End1"
    BY TurnsTo
  <2> QED BY <2>1 DEF Feed
<1> QED BY <1>0 DEF At

LEMMA FeedEnd2 ==
  ASSUME NEW b, NEW s, NEW r, NEW c
  PROVE  Feed(At("End2", b, s, r), c) =
           IF ascii_octet_to_hex(r, c) = s % 256 THEN At("Done", b, s, r)
                                                 ELSE At("Error", b, s, r)
<1>0. Feed(At("End2", b, s, r), c) = InEnd2(At("End2", b, s, r), c)
  <2>1. At("End2", b, s, r).automaton = "End2"
    BY TurnsTo
  <2> QED BY <2>1 DEF Feed
<1>1. At("End2", b, s, r).received = r /\ At("End2", b, s, r).checksum = s
  BY TurnsTo
<1>2. \A x : [At("End2", b, s, r) EXCEPT !.automaton = x] = At(x, b, s, r)
  BY TurnsTo
<1> QED BY <1>0, <1>1, <1>2, Zenon DEF InEnd2

(* The same, one byte at a time.                                           *)
LEMMA IdleStarts == ASSUME NEW b, NEW s, NEW r
                    PROVE  Feed(At("Idle", b, s, r), 36) = At("Body", <<>>, 0, 0)
BY FeedIdle

LEMMA IdleCalls == ASSUME NEW b, NEW s, NEW r
                   PROVE  Feed(At("Idle", b, s, r), 33) = At("RpcBody", <<>>, 0, 0)
BY FeedIdle

LEMMA IdleWaits == ASSUME NEW b, NEW s, NEW r, NEW c \in Nat, c # 36, c # 33
                   PROVE  Feed(At("Idle", b, s, r), c) = At("Idle", b, s, r)
BY FeedIdle

LEMMA RpcEnds == ASSUME NEW b, NEW s, NEW r
                 PROVE  Feed(At("RpcBody", b, s, r), 35) = At("RpcDone", b, s, r)
BY FeedRpcBody

LEMMA RpcStores == ASSUME NEW b, NEW s, NEW r, NEW c \in Nat, c # 35, c # 33
                   PROVE  Feed(At("RpcBody", b, s, r), c) = Stored("RpcBody", b, s, r, c)
BY FeedRpcBody

LEMMA BodyEnds == ASSUME NEW b, NEW s \in Nat, NEW r
                  PROVE  Feed(At("Body", b, s, r), 35) = At("End1", b, s, r)
BY FeedBody

LEMMA BodyEscapes == ASSUME NEW b, NEW s \in Nat, NEW r
                     PROVE  Feed(At("Body", b, s, r), 125) = At("Escape", b, s, r)
BY FeedBody

LEMMA BodyStores == ASSUME NEW b, NEW s \in Nat, NEW r, NEW c \in Nat, c # 36, c # 35, c # 125
                    PROVE  Feed(At("Body", b, s, r), c) = Stored("Body", b, s + c, r, c)
BY FeedBody

LEMMA AfterTyped ==
  ASSUME NEW d \in Decoders, NEW c \in Octet
  PROVE  After(d, c) \in Decoders
<1>1. c \in Nat /\ Flip20(c) \in Octet
  <2>1. Flip20(c) \in Octet
    BY FlipTyped, Zenon
  <2> QED BY <2>1 DEF Octet
<1>2. PICK b \in Seq(Octet), s \in Nat, r \in Nat :
        \E a \in {"Idle", "Body", "RpcBody", "Escape", "End1", "End2"} : d = At(a, b, s, r)
  <2>1. d = At(d.automaton, d.buffer, d.checksum, d.received)
    BY DEF Decoders, At
  <2> QED BY <2>1 DEF Decoders
<1>3. \A a \in {"Idle", "Body", "RpcBody", "Escape", "End1", "End2"} :
        \A bb \in Seq(Octet), ss \in Nat, rr \in Nat : At(a, bb, ss, rr) \in Decoders
  BY DEF At, Decoders
<1>4. \A a, bb, ss, rr : At(a, bb, ss, rr).automaton = a
  BY DEF At
<1>5. Append(b, c) \in Seq(Octet) /\ Append(b, Flip20(c)) \in Seq(Octet) /\ <<>> \in Seq(Octet)
  BY <1>1
<1>6. s + c \in Nat /\ s + 125 + c \in Nat /\ 0 \in Nat
  BY <1>1
<1> HIDE DEF Octet
<1> DEFINE Good(x) == x.automaton \in EndStates \/ x \in Decoders
<1>7. /\ Good(At("Error", b, s, r)) /\ Good(At("Error", b, s + c, r))
      /\ Good(At("Error", b, s + 125 + c, r)) /\ Good(At("Done", b, s, r))
      /\ Good(At("RpcDone", b, s, r))
  BY <1>4 DEF EndStates
<1>8. /\ Good(At("Body", <<>>, 0, 0)) /\ Good(At("RpcBody", <<>>, 0, 0))
      /\ Good(At("Idle", b, s, r)) /\ Good(At("RpcBody", Append(b, c), s, r))
      /\ Good(At("End1", b, s, r)) /\ Good(At("Escape", b, s, r))
      /\ Good(At("Body", Append(b, c), s + c, r)) /\ Good(At("End2", b, s, c))
      /\ Good(At("Body", Append(b, Flip20(c)), s + 125 + c, r))
  BY <1>1, <1>3, <1>5, <1>6
<1> HIDE DEF Good
<1>9. Good(Feed(d, c))
  <2>1. CASE d = At("Idle", b, s, r)
    <3>1. \/ Feed(d, c) = At("Body", <<>>, 0, 0) \/ Feed(d, c) = At("RpcBody", <<>>, 0, 0)
          \/ Feed(d, c) = At("Idle", b, s, r)
      BY <1>1, <2>1, FeedIdle
    <3> QED BY <3>1, <1>8, Zenon
  <2>2. CASE d = At("RpcBody", b, s, r)
    <3>1. \/ Feed(d, c) = At("RpcDone", b, s, r) \/ Feed(d, c) = At("RpcBody", <<>>, 0, 0)
          \/ Feed(d, c) = Stored("RpcBody", b, s, r, c)
      BY <1>1, <2>2, FeedRpcBody
    <3> QED BY <3>1, <1>7, <1>8, Zenon DEF Stored
  <2>3. CASE d = At("Body", b, s, r)
    <3>1. \/ Feed(d, c) = At("Body", <<>>, 0, 0) \/ Feed(d, c) = At("End1", b, s, r)
          \/ Feed(d, c) = At("Escape", b, s, r) \/ Feed(d, c) = Stored("Body", b, s + c, r, c)
      BY <1>1, <2>3, FeedBody
    <3> QED BY <3>1, <1>7, <1>8, Zenon DEF Stored
  <2>4. CASE d = At("Escape", b, s, r)
    <3>1. Feed(d, c) = Stored("Body", b, s + 125 + c, r, Flip20(c))
      BY <1>1, <2>4, FeedEscape
    <3> QED BY <3>1, <1>7, <1>8, Zenon DEF Stored
  <2>5. CASE d = At("End1", b, s, r)
    <3>1. Feed(d, c) = At("End2", b, s, c)
      BY <1>1, <2>5, FeedEnd1
    <3> QED BY <3>1, <1>8, Zenon
  <2>6. CASE d = At("End2", b, s, r)
    <3>1. Feed(d, c) = At("Error", b, s, r) \/ Feed(d, c) = At("Done", b, s, r)
      BY <1>1, <2>6, FeedEnd2
    <3> QED BY <3>1, <1>7, Zenon
  <2> QED BY <1>2, <2>1, <2>2, <2>3, <2>4, <2>5, <2>6
<1> QED BY <1>9, IdleTyped DEF After, Good

\* dec: the decoder before the first byte of W, and after each of them
Machine(dec, W) ==
  /\ dec \in [0..Len(W) -> Decoders] /\ dec[0] = IdleDecoder
  /\ \A k \in 1..Len(W) : dec[k] = After(dec[k - 1], W[k])

LEMMA Machines ==
  ASSUME NEW W \in Seq(Octet)
  PROVE  \E dec : Machine(dec, W)
<1> DEFINE n == Len(W)
           G == [x \in (1..n) \X Decoders |-> After(x[2], W[x[1]])]
<1>1. n \in Nat /\ \A i \in 1..n : W[i] \in Octet
  OBVIOUS
<1>2. G \in [(1..n) \X Decoders -> Decoders]
  BY <1>1, AfterTyped
<1>3. PICK dec \in [0..n -> Decoders] : Turns(dec, n, IdleDecoder, G)
  BY <1>1, <1>2, IdleTyped, LoopExists
<1>4. \A k \in 0..n : dec[k] = IF k = 0 THEN IdleDecoder ELSE G[<<k, dec[k - 1]>>]
  BY <1>3 DEF Turns
<1>5. dec[0] = IdleDecoder
  <2>1. 0 \in 0..n
    BY <1>1
  <2> QED BY <1>4, <2>1, Zenon
<1>6. ASSUME NEW k \in 1..n PROVE dec[k] = After(dec[k - 1], W[k])
  <2>1. k \in 0..n /\ k - 1 \in 0..n /\ k # 0
    BY <1>1
  <2>2. dec[k - 1] \in Decoders
    BY <2>1
  <2>3. <<k, dec[k - 1]>> \in (1..n) \X Decoders
    BY <2>2
  <2>4. G[<<k, dec[k - 1]>>] = After(dec[k - 1], W[k])
    BY <2>3
  <2> HIDE DEF G
  <2> QED BY <1>4, <2>1, <2>4, Zenon
<1> QED BY <1>5, <1>6 DEF Machine

\* W, parsed as dec says, is one packet or call of this body, complete at m
Script(W, dec, m, how, body) ==
  /\ Machine(dec, W) /\ m \in 1..Len(W)
  /\ \A k \in 1..(m - 1) : Feed(dec[k - 1], W[k]).automaton \notin EndStates
  /\ Feed(dec[m - 1], W[m]).automaton = how /\ Feed(dec[m - 1], W[m]).buffer = body
  /\ \A k \in (m + 1)..Len(W) : W[k] \notin {CHAR_START, RPC_START}
\* x: how many bytes of sent stand for the first i of p, those of E escaped
Laid(x, E, p, sent) ==
  /\ x[0] = 0 /\ x[Len(p)] = Len(sent)
  /\ \A i \in 1..Len(p) :
       /\ x[i] <= Len(sent)
       /\ IF p[i] \in E
          THEN /\ x[i] = x[i - 1] + 2
               /\ sent[x[i - 1] + 1] = 125 /\ sent[x[i - 1] + 2] = Flip20(p[i])
          ELSE x[i] = x[i - 1] + 1 /\ sent[x[i - 1] + 1] = p[i]

(* What is sent is laid out so.                                            *)
LEMMA IsLaid ==
  ASSUME NEW E, NEW p \in Seq(Octet)
  PROVE  /\ Flatten(Parts(E, p)) \in Seq(Octet)
         /\ \E x \in [0..Len(p) -> Nat] : Laid(x, E, p, Flatten(Parts(E, p)))
<1>0. /\ Parts(E, p) \in Seq(Seq(Octet)) /\ Len(Parts(E, p)) = Len(p)
      /\ \A i \in 1..Len(p) : Parts(E, p)[i] =
           IF p[i] \in E THEN <<125, Flip20(p[i])>> ELSE <<p[i]>>
  BY PartsTyped
<1>1. PICK ss \in Seq(Seq(Octet)) : ss = Parts(E, p)
  BY <1>0, Zenon
<1>2. Len(ss) = Len(p) /\ \A i \in 1..Len(p) :
        ss[i] = IF p[i] \in E THEN <<125, Flip20(p[i])>> ELSE <<p[i]>>
  BY <1>0, <1>1, Zenon
<1>3. PICK n \in Nat : n = Len(p) /\ n \in 0..n /\ 0 \in 0..n
  <2>1. Len(p) \in Nat
    OBVIOUS
  <2> QED BY <2>1
<1>4. PICK f \in [0..n -> Seq(Octet)] : Grows(f, ss) /\ Flatten(ss) = f[n]
  BY <1>2, <1>3, FlattenGrows, Zenon
<1>5. PICK sent \in Seq(Octet) : sent = f[n]
  BY <1>3
<1>6. PICK x \in [0..n -> Nat] : \A i \in 0..n : x[i] = Len(f[i])
  <2> DEFINE x == [i \in 0..n |-> Len(f[i])]
  <2>1. \A i \in 0..n : Len(f[i]) \in Nat
    OBVIOUS
  <2>2. x \in [0..n -> Nat] /\ \A i \in 0..n : x[i] = Len(f[i])
    BY <2>1
  <2> HIDE DEF x
  <2> QED BY <2>2, Zenon
<1>7. \A i \in 0..n : \A j \in 1..Len(f[i]) : j \in 1..Len(sent) /\ sent[j] = f[i][j]
  <2>1. \A i \in 0..Len(ss) : \A j \in 1..Len(f[i]) :
          j \in 1..Len(f[Len(ss)]) /\ f[Len(ss)][j] = f[i][j]
    <3>1. f \in [0..Len(ss) -> Seq(Octet)] /\ Grows(f, ss)
      BY <1>2, <1>3, <1>4, Zenon
    <3> QED BY <3>1, FlattenKeeps, Zenon
  <2> QED BY <1>2, <1>3, <1>5, <2>1, Zenon
<1>8. x[0] = 0 /\ x[n] = Len(sent)
  <2>1. f[0] = <<>>
    BY <1>4, Zenon DEF Grows
  <2> QED BY <1>3, <1>5, <1>6, <2>1
<1>9. ASSUME NEW i \in 1..n
      PROVE  /\ x[i] <= Len(sent)
             /\ IF p[i] \in E
                THEN /\ x[i] = x[i - 1] + 2
                     /\ sent[x[i - 1] + 1] = 125 /\ sent[x[i - 1] + 2] = Flip20(p[i])
                ELSE x[i] = x[i - 1] + 1 /\ sent[x[i - 1] + 1] = p[i]
  <2>1. i \in 0..n /\ i - 1 \in 0..n
    OBVIOUS
  <2>2. f[i] = f[i - 1] \o ss[i]
    BY <1>2, <1>3, <1>4, Zenon DEF Grows
  <2>3. PICK a \in Seq(Octet) : a = f[i - 1] /\ x[i - 1] = Len(a)
    BY <1>6, <2>1
  <2>4. PICK b \in Seq(Octet) : b = f[i] /\ x[i] = Len(b)
    BY <1>6, <2>1
  <2>5. \A j \in 1..Len(b) : j \in 1..Len(sent) /\ sent[j] = b[j]
    BY <1>7, <2>1, <2>4, Zenon
  <2>6. Len(a) \in Nat /\ Len(b) \in Nat /\ Len(sent) \in Nat
    OBVIOUS
  <2>7. Len(b) <= Len(sent)
    BY <2>5, <2>6
  <2>8. p[i] \in Octet /\ Flip20(p[i]) \in Octet /\ 125 \in Octet
    <3>1. p[i] \in Octet
      BY <1>3
    <3>2. Flip20(p[i]) \in Octet
      BY <3>1, FlipTyped, Zenon
    <3> QED BY <3>1, <3>2 DEF Octet
  <2> DEFINE F == Flip20(p[i])
  <2> HIDE DEF F
  <2>9. CASE p[i] \in E
    <3>1. b = a \o <<125, F>>
      BY <1>2, <1>3, <2>2, <2>3, <2>4, <2>9, Zenon DEF F
    <3>2. F \in Octet /\ 125 \in Octet
      BY <2>8 DEF F
    <3>3. Len(b) = Len(a) + 2 /\ b[Len(a) + 1] = 125 /\ b[Len(a) + 2] = F
      BY <3>1, <3>2
    <3>4. Len(a) + 1 \in 1..Len(b) /\ Len(a) + 2 \in 1..Len(b)
      BY <2>6, <3>3
    <3>5. sent[Len(a) + 1] = 125 /\ sent[Len(a) + 2] = F
      BY <2>5, <3>3, <3>4, Zenon
    <3> QED BY <2>3, <2>4, <2>7, <2>9, <3>3, <3>5, Zenon DEF F
  <2>10. CASE p[i] \notin E
    <3>1. b = a \o <<p[i]>>
      BY <1>2, <1>3, <2>2, <2>3, <2>4, <2>10, Zenon
    <3>2. Len(b) = Len(a) + 1 /\ b[Len(a) + 1] = p[i]
      BY <3>1, <2>8
    <3>3. Len(a) + 1 \in 1..Len(b)
      BY <2>6, <3>2
    <3>4. sent[Len(a) + 1] = p[i]
      BY <2>5, <3>2, <3>3, Zenon
    <3> QED BY <2>3, <2>4, <2>7, <2>10, <3>2, <3>4, Zenon
  <2> QED BY <2>9, <2>10
<1>10. Laid(x, E, p, sent)
  BY <1>3, <1>8, <1>9, Zenon DEF Laid
<1> QED BY <1>1, <1>3, <1>4, <1>5, <1>10, Zenon

\* The kth byte ends nothing and leaves the decoder as d
Leaves(dec, W, k, d) == dec[k] = d /\ Feed(dec[k - 1], W[k]).automaton \notin EndStates

LEMMA GoesOn ==
  ASSUME NEW W, NEW dec, Machine(dec, W), NEW k \in 1..Len(W),
         NEW a, NEW b, NEW s, NEW r, a \notin EndStates,
         Feed(dec[k - 1], W[k]) = At(a, b, s, r)
  PROVE  Leaves(dec, W, k, At(a, b, s, r))
<1>1. Feed(dec[k - 1], W[k]).automaton = a
  BY TurnsTo
<1>2. dec[k] = After(dec[k - 1], W[k])
  BY Zenon DEF Machine
<1> QED BY <1>1, <1>2, Zenon DEF After, Leaves

\* The characters that GDB escapes
GdbEscaped == {CHAR_START, CHAR_END, CHAR_ESCAPE, 42}

LEMMA GdbEscapes ==
  ASSUME NEW c \in Octet
  PROVE  /\ c \in GdbEscaped => Flip20(c) \in Nat /\ Flip20(Flip20(c)) = c
         /\ c \notin GdbEscaped => c \in Nat /\ c # 36 /\ c # 35 /\ c # 125
<1>1. c \in Nat /\ \A d \in Octet : d \in Nat
  BY DEF Octet
<1>2. c \in GdbEscaped => c \in Special
  BY DEF GdbEscaped, Special, CHAR_START, CHAR_END, CHAR_ESCAPE
<1>3. c \in GdbEscaped => Flip20(c) \in Octet /\ Flip20(Flip20(c)) = c
  BY <1>2, FlipBack, Zenon
<1>4. c \notin GdbEscaped => c # 36 /\ c # 35 /\ c # 125
  BY DEF GdbEscaped, CHAR_START, CHAR_END, CHAR_ESCAPE
<1> QED BY <1>1, <1>3, <1>4, Zenon

\* W, behind its first byte, begins with sent
Framed(W, sent) == Len(sent) + 1 <= Len(W) /\ \A j \in 1..Len(sent) : W[j + 1] = sent[j]

\* The first k bytes end nothing and leave the decoder as d
LeavesAll(dec, W, k, d) ==
  dec[k] = d /\ \A j \in 1..k : Feed(dec[j - 1], W[j]).automaton \notin EndStates

(* The body of a packet is decoded as what was encoded.                    *)
LEMMA BodyParsed ==
  ASSUME NEW p \in Seq(Octet), Len(p) <= INPUT_BUFFER_SIZE,
         NEW sent \in Seq(Octet), NEW L \in Nat, L = Len(sent),
         NEW x \in [0..Len(p) -> Nat], Laid(x, GdbEscaped, p, sent),
         NEW g \in [0..L -> Nat], Adds(g, sent),
         NEW W \in Seq(Octet), W[1] = 36, Framed(W, sent),
         NEW dec, Machine(dec, W)
  PROVE  LeavesAll(dec, W, L + 1, At("Body", p, g[L], 0))
<1> DEFINE Quiet(k) == Feed(dec[k - 1], W[k]).automaton \notin EndStates
           Now(i) == At("Body", SubSeq(p, 1, i), g[x[i]], 0)
           A == {i \in 0..Len(p) : dec[x[i] + 1] = Now(i) /\ \A k \in 1..(x[i] + 1) : Quiet(k)}
<1>0. \A j \in 1..L : W[j + 1] = sent[j]
  BY Zenon DEF Framed
<1>1. Len(p) \in Nat /\ Len(W) \in Nat /\ Len(p) \in 0..Len(p) /\ INPUT_BUFFER_SIZE \in Nat
      /\ L + 1 <= Len(W)
  BY InputBufferAssumption DEF Framed
<1>2. dec[1] = At("Body", <<>>, 0, 0) /\ Quiet(1)
  <2>1. dec[0] = At("Idle", <<>>, 0, 0)
    BY StartsAt, Zenon DEF Machine
  <2>2. Feed(dec[0], W[1]) = At("Body", <<>>, 0, 0)
    BY <2>1, IdleStarts, Zenon
  <2>3. 1 \in 1..Len(W) /\ 1 - 1 = 0
    BY <1>1
  <2>4. "Body" \notin EndStates
    BY DEF EndStates
  <2>5. Leaves(dec, W, 1, At("Body", <<>>, 0, 0))
    BY <2>2, <2>3, <2>4, GoesOn, Zenon
  <2> QED BY <2>5, Zenon DEF Leaves
<1>3. 0 \in A
  <2>1. 0 \in 0..Len(p) /\ x[0] = 0 /\ g[0] = 0 /\ SubSeq(p, 1, 0) = <<>>
    BY <1>1 DEF Adds, Laid
  <2>2. dec[x[0] + 1] = Now(0)
    <3>1. x[0] + 1 = 1
      BY <2>1
    <3> QED BY <1>2, <2>1, <3>1, Zenon
  <2>3. \A k \in 1..(x[0] + 1) : k = 1
    BY <2>1
  <2> HIDE DEF Quiet
  <2> QED BY <1>2, <2>1, <2>2, <2>3
<1>4. ASSUME NEW i \in 1..Len(p), i - 1 \in A PROVE i \in A
  <2>0. /\ i \in 0..Len(p) /\ i - 1 \in 0..Len(p) /\ x[i - 1] \in Nat /\ x[i] \in Nat
        /\ p[i] \in Octet /\ x[i] <= L /\ x[i - 1] + 1 <= L /\ g[x[i - 1]] \in Nat
        /\ SubSeq(p, 1, i - 1) \in Seq(Octet)
        /\ IF p[i] \in GdbEscaped
           THEN /\ x[i] = x[i - 1] + 2
                /\ sent[x[i - 1] + 1] = 125 /\ sent[x[i - 1] + 2] = Flip20(p[i])
           ELSE x[i] = x[i - 1] + 1 /\ sent[x[i - 1] + 1] = p[i]
    <3>1. i \in 0..Len(p) /\ i - 1 \in 0..Len(p)
      BY <1>1
    <3>2. x[i - 1] \in Nat /\ x[i] \in Nat
      BY <3>1
    <3>3. p[i] \in Octet
      OBVIOUS
    <3>4. /\ x[i] <= L
          /\ IF p[i] \in GdbEscaped
             THEN /\ x[i] = x[i - 1] + 2
                  /\ sent[x[i - 1] + 1] = 125 /\ sent[x[i - 1] + 2] = Flip20(p[i])
             ELSE x[i] = x[i - 1] + 1 /\ sent[x[i - 1] + 1] = p[i]
      BY Zenon DEF Laid
    <3>5. x[i - 1] + 1 <= L
      BY <3>2, <3>4
    <3>6. g[x[i - 1]] \in Nat
      BY <3>2, <3>5
    <3>7. SubSeq(p, 1, i - 1) \in Seq(Octet)
      BY CutGrows
    <3> QED BY <3>1, <3>2, <3>3, <3>4, <3>5, <3>6, <3>7, Zenon
  <2> DEFINE y == x[i - 1]
             b0 == SubSeq(p, 1, i - 1)
             c == p[i]
             s == g[y]
  <2>1. /\ y \in Nat /\ c \in Octet /\ s \in Nat /\ s = g[y] /\ y + 1 <= L
        /\ i \in 0..Len(p) /\ x[i] \in Nat /\ x[i] <= L
        /\ IF c \in GdbEscaped
           THEN x[i] = y + 2 /\ sent[y + 1] = 125 /\ sent[y + 2] = Flip20(c)
           ELSE x[i] = y + 1 /\ sent[y + 1] = c
    BY <2>0, Zenon
  <2>2. SubSeq(p, 1, i) = Append(b0, c) /\ ~(Len(b0) >= INPUT_BUFFER_SIZE)
    <3>1. SubSeq(p, 1, i) = Append(b0, c) /\ Len(b0) = i - 1
      BY CutGrows
    <3> QED BY <3>1, <1>1
  <2>3. dec[y + 1] = At("Body", b0, s, 0) /\ \A k \in 1..(y + 1) : Quiet(k)
    BY <1>4, <2>0, Zenon
  <2> HIDE DEF Quiet, y, b0, c, s
  <2>4. "Body" \notin EndStates /\ "Escape" \notin EndStates
    BY DEF EndStates
  <2>5. CASE c \in GdbEscaped
    <3>1. PICK F \in Nat : F = Flip20(c) /\ Flip20(F) = c
      <4>1. Flip20(c) \in Nat /\ Flip20(Flip20(c)) = c
        BY <2>1, <2>5, GdbEscapes, Zenon
      <4> QED BY <4>1
    <3>2. x[i] = y + 2 /\ sent[y + 1] = 125 /\ sent[y + 2] = F
      BY <2>1, <2>5, <3>1
    <3>3. y + 1 \in 1..L /\ y + 2 \in 1..L
      BY <2>1, <3>2
    <3>4. W[y + 2] = 125 /\ W[y + 3] = F
      <4>1. W[(y + 1) + 1] = sent[y + 1] /\ W[(y + 2) + 1] = sent[y + 2]
        BY <1>0, <3>3, Zenon
      <4>2. (y + 1) + 1 = y + 2 /\ (y + 2) + 1 = y + 3
        BY <2>1
      <4> QED BY <3>2, <4>1, <4>2, Zenon
    <3>5. g[y + 2] = s + 125 + F
      <4>1. g[y + 1] = g[(y + 1) - 1] + sent[y + 1] /\ g[y + 2] = g[(y + 2) - 1] + sent[y + 2]
        BY <3>3, Zenon DEF Adds
      <4>2. (y + 1) - 1 = y /\ (y + 2) - 1 = y + 1
        BY <2>1
      <4> QED BY <2>1, <3>1, <3>2, <4>1, <4>2
    <3>6. dec[y + 2] = At("Escape", b0, s, 0) /\ Quiet(y + 2)
      <4>1. Feed(At("Body", b0, s, 0), 125) = At("Escape", b0, s, 0)
        BY <2>1, BodyEscapes, Zenon
      <4>2. y + 2 \in 1..Len(W) /\ (y + 2) - 1 = y + 1
        BY <1>1, <2>1, <3>3
      <4>3. Feed(dec[(y + 2) - 1], W[y + 2]) = At("Escape", b0, s, 0)
        BY <2>3, <3>4, <4>1, <4>2, Zenon
      <4>4. Leaves(dec, W, y + 2, At("Escape", b0, s, 0))
        BY <2>4, <4>2, <4>3, GoesOn, Zenon
      <4> QED BY <4>4, Zenon DEF Leaves, Quiet
    <3>7. dec[y + 3] = At("Body", Append(b0, c), s + 125 + F, 0) /\ Quiet(y + 3)
      <4>1. Feed(At("Escape", b0, s, 0), F) = Stored("Body", b0, s + 125 + F, 0, c)
        <5>1. Feed(At("Escape", b0, s, 0), F) = Stored("Body", b0, s + 125 + F, 0, Flip20(F))
          BY <2>1, <3>1, FeedEscape
        <5> QED BY <3>1, <5>1, Zenon
      <4>2. y + 3 \in 1..Len(W) /\ (y + 3) - 1 = y + 2
        BY <1>1, <2>1, <3>3
      <4>3. Feed(dec[(y + 3) - 1], W[y + 3]) = At("Body", Append(b0, c), s + 125 + F, 0)
        BY <2>2, <3>4, <3>6, <4>1, <4>2, Zenon DEF Stored
      <4>4. Leaves(dec, W, y + 3, At("Body", Append(b0, c), s + 125 + F, 0))
        BY <2>4, <4>2, <4>3, GoesOn, Zenon
      <4> QED BY <4>4, Zenon DEF Leaves, Quiet
    <3>8. \A k \in 1..(x[i] + 1) : k \in 1..(y + 1) \/ k = y + 2 \/ k = y + 3
      BY <2>1, <3>2
    <3>9. x[i] + 1 = y + 3
      BY <2>1, <3>2
    <3>10. dec[x[i] + 1] = Now(i)
      BY <2>2, <3>2, <3>5, <3>7, <3>9, Zenon
    <3> HIDE DEF Now
    <3> QED BY <2>1, <2>3, <3>6, <3>7, <3>8, <3>10, Zenon
  <2>6. CASE c \notin GdbEscaped
    <3>1. c \in Nat /\ c # 36 /\ c # 35 /\ c # 125
      BY <2>1, <2>6, GdbEscapes, Zenon
    <3>2. x[i] = y + 1 /\ sent[y + 1] = c
      BY <2>1, <2>6
    <3>3. y + 1 \in 1..L
      BY <2>1
    <3>4. W[y + 2] = c
      <4>1. W[(y + 1) + 1] = sent[y + 1]
        BY <1>0, <3>3, Zenon
      <4>2. (y + 1) + 1 = y + 2
        BY <2>1
      <4> QED BY <3>2, <4>1, <4>2, Zenon
    <3>5. g[y + 1] = s + c
      <4>1. g[y + 1] = g[(y + 1) - 1] + sent[y + 1]
        BY <3>3, Zenon DEF Adds
      <4>2. (y + 1) - 1 = y
        BY <2>1
      <4> QED BY <2>1, <3>2, <4>1, <4>2
    <3>6. dec[y + 2] = At("Body", Append(b0, c), s + c, 0) /\ Quiet(y + 2)
      <4>1. Feed(At("Body", b0, s, 0), c) = Stored("Body", b0, s + c, 0, c)
        BY <2>1, <3>1, BodyStores
      <4>2. y + 2 \in 1..Len(W) /\ (y + 2) - 1 = y + 1
        BY <1>1, <2>1, <3>3
      <4>3. Feed(dec[(y + 2) - 1], W[y + 2]) = At("Body", Append(b0, c), s + c, 0)
        BY <2>2, <2>3, <3>4, <4>1, <4>2, Zenon DEF Stored
      <4>4. Leaves(dec, W, y + 2, At("Body", Append(b0, c), s + c, 0))
        BY <2>4, <4>2, <4>3, GoesOn, Zenon
      <4> QED BY <4>4, Zenon DEF Leaves, Quiet
    <3>7. \A k \in 1..(x[i] + 1) : k \in 1..(y + 1) \/ k = y + 2
      BY <2>1, <3>2
    <3>8. x[i] + 1 = y + 2
      BY <2>1, <3>2
    <3>9. dec[x[i] + 1] = Now(i)
      BY <2>2, <3>2, <3>5, <3>6, <3>8, Zenon
    <3> HIDE DEF Now
    <3> QED BY <2>1, <2>3, <3>6, <3>7, <3>9, Zenon
  <2> QED BY <2>5, <2>6
<1>5. \A i \in 0..Len(p) : i \in A
  BY <1>1, <1>3, <1>4, Count
<1>6. SubSeq(p, 1, Len(p)) = p /\ x[Len(p)] = L
  BY DEF Laid
<1> HIDE DEF Quiet
<1>7. dec[L + 1] = At("Body", p, g[L], 0) /\ \A k \in 1..(L + 1) : Quiet(k)
  BY <1>1, <1>5, <1>6, Zenon
<1> QED BY <1>7, Zenon DEF LeavesAll, Quiet

(* A packet of GDB that fits the buffer is decoded as what was framed.     *)
LEMMA GdbScript ==
  ASSUME NEW p \in Seq(Octet), Len(p) <= INPUT_BUFFER_SIZE
  PROVE  /\ GdbFrame(p) \in Seq(Octet)
         /\ \E dec : Script(GdbFrame(p), dec, Len(GdbFrame(p)), "Done", p)
<1>1. PICK sent \in Seq(Octet) : sent = Flatten(Parts(GdbEscaped, p))
  BY IsLaid, Zenon
<1>2. PICK x \in [0..Len(p) -> Nat] : Laid(x, GdbEscaped, p, sent)
  BY <1>1, IsLaid, Zenon
<1>3. PICK L \in Nat : L = Len(sent)
  OBVIOUS
<1>4. sent \in Seq(Nat)
  <2>1. Octet \subseteq Nat
    BY DEF Octet
  <2> QED BY <2>1
<1>5. PICK g \in [0..L -> Nat] : Adds(g, sent) /\ Sum(sent) = g[L]
  BY <1>3, <1>4, SumAdds, Zenon
<1>6. PICK s \in Nat : s = g[L]
  BY <1>3
<1>7. PICK a \in Digits, b \in Digits :
        u8_to_ascii(s % 256) = <<a, b>> /\ ascii_octet_to_hex(a, b) = s % 256
  <2>1. s % 256 \in Octet
    BY DEF Octet
  <2> QED BY <2>1, OctetRead, Zenon
<1>8. PICK W : W = GdbFrame(p)
  OBVIOUS
<1>9. W = <<36>> \o sent \o (<<35>> \o <<a, b>>)
  BY <1>1, <1>5, <1>6, <1>7, <1>8, Zenon DEF GdbFrame, Parts, GdbEscaped, end, CHAR_START, CHAR_END
<1>10. W \in Seq(Octet) /\ Len(W) = L + 4 /\ W[1] = 36 /\ W[L + 2] = 35
       /\ W[L + 3] = a /\ W[L + 4] = b /\ \A j \in 1..L : W[j + 1] = sent[j]
  <2>1. <<36>> \in Seq(Octet) /\ <<35>> \o <<a, b>> = <<35, a, b>> /\ <<35, a, b>> \in Seq(Octet)
        /\ a \in Octet /\ b \in Octet
    <3>1. 35 \in Octet /\ 36 \in Octet /\ a \in Octet /\ b \in Octet
      BY DEF Octet, Digits
    <3>2. <<35>> \o <<a, b>> = <<35, a, b>>
      BY <3>1, ThreeBytes, Zenon
    <3>3. <<36>> \in Seq(Octet) /\ <<35, a, b>> \in Seq(Octet)
      BY <3>1
    <3> QED BY <3>1, <3>2, <3>3
  <2>2. W = <<36>> \o sent \o <<35, a, b>>
    BY <1>9, <2>1, Zenon
  <2> QED BY <1>3, <2>1, <2>2
<1>11. PICK dec : Machine(dec, W)
  BY <1>10, Machines, Zenon
<1>12. /\ dec[L + 1] = At("Body", p, s, 0)
       /\ \A k \in 1..(L + 1) : Feed(dec[k - 1], W[k]).automaton \notin EndStates
  <2>1. Framed(W, sent)
    BY <1>3, <1>10 DEF Framed
  <2>2. LeavesAll(dec, W, L + 1, At("Body", p, g[L], 0))
    BY <1>2, <1>3, <1>5, <1>10, <1>11, <2>1, BodyParsed, Zenon
  <2> QED BY <1>6, <2>2, Zenon DEF LeavesAll
<1> DEFINE Quiet(k) == Feed(dec[k - 1], W[k]).automaton \notin EndStates
<1> HIDE DEF Quiet
<1>13. "End1" \notin EndStates /\ "End2" \notin EndStates
  BY DEF EndStates
<1>14. dec[L + 2] = At("End1", p, s, 0) /\ Quiet(L + 2)
  <2>1. Feed(At("Body", p, s, 0), 35) = At("End1", p, s, 0)
    BY BodyEnds, Zenon
  <2>2. L + 2 \in 1..Len(W) /\ (L + 2) - 1 = L + 1
    BY <1>10
  <2>3. Feed(dec[(L + 2) - 1], W[L + 2]) = At("End1", p, s, 0)
    BY <1>10, <1>12, <2>1, <2>2, Zenon
  <2>4. Leaves(dec, W, L + 2, At("End1", p, s, 0))
    BY <1>11, <1>13, <2>2, <2>3, GoesOn, Zenon
  <2> QED BY <2>4, Zenon DEF Leaves, Quiet
<1>15. dec[L + 3] = At("End2", p, s, a) /\ Quiet(L + 3)
  <2>1. L + 3 \in 1..Len(W) /\ (L + 3) - 1 = L + 2
    BY <1>10
  <2>2. Feed(dec[(L + 3) - 1], W[L + 3]) = At("End2", p, s, a)
    <3>1. Feed(At("End1", p, s, 0), a) = At("End2", p, s, a)
      BY FeedEnd1
    <3> QED BY <1>10, <1>14, <2>1, <3>1, Zenon
  <2>3. Leaves(dec, W, L + 3, At("End2", p, s, a))
    BY <1>11, <1>13, <2>1, <2>2, GoesOn, Zenon
  <2> QED BY <2>3, Zenon DEF Leaves, Quiet
<1>16. Feed(dec[L + 3], W[L + 4]) = At("Done", p, s, a)
  <2>1. Feed(At("End2", p, s, a), b) = At("Done", p, s, a)
    BY <1>7, FeedEnd2
  <2> QED BY <1>10, <1>15, <2>1, Zenon
<1>17. Script(W, dec, Len(W), "Done", p)
  <2>1. Len(W) \in 1..Len(W) /\ Len(W) - 1 = L + 3 /\ Len(W) = L + 4
        /\ \A k \in (Len(W) + 1)..Len(W) : FALSE
    BY <1>10
  <2>2. \A k \in 1..(Len(W) - 1) : k \in 1..(L + 1) \/ k = L + 2 \/ k = L + 3
    BY <1>10
  <2>3. At("Done", p, s, a).automaton = "Done" /\ At("Done", p, s, a).buffer = p
    BY TurnsTo
  <2>4. \A k \in 1..(Len(W) - 1) : Quiet(k)
    BY <1>12, <1>14, <1>15, <2>2, Zenon DEF Quiet
  <2> QED BY <1>11, <1>16, <2>1, <2>3, <2>4, Zenon DEF Script, Quiet
<1> QED BY <1>8, <1>10, <1>17, Zenon
-----------------------------------------------------------------------------
(* The calls.                                                              *)

\* What the body of a call is made of: digits, letters and the bytes 0 and 1
Plain == {0, 1} \cup 48..122

LEMMA PlainTyped ==
  /\ Plain \subseteq Octet /\ Digits \subseteq Plain
  /\ \A c \in Plain : c \in Nat /\ c \notin Escaped /\ c # 33 /\ c # 35 /\ c # 36
BY DEF Plain, Octet, Digits, Escaped, CHAR_ESCAPE, CHAR_ESCAPE2, CHAR_START, CHAR_END

(* Nothing of a call needs an escape.                                      *)
LEMMA PlainSent ==
  ASSUME NEW s \in Seq(Plain)
  PROVE  add_u8(s) = s
<1>1. s \in Seq(Octet) /\ Len(s) \in Nat /\ \A i \in 1..Len(s) : s[i] \in Plain
  <2>1. Plain \subseteq Octet
    BY PlainTyped
  <2> QED BY <2>1
<1>2. PICK sent \in Seq(Octet) : sent = add_u8(s) /\ sent = Flatten(Parts(Escaped, s))
  <2>1. Flatten(Parts(Escaped, s)) \in Seq(Octet)
    BY <1>1, IsLaid, Zenon
  <2>2. add_u8(s) = Flatten(Parts(Escaped, s))
    BY Zenon DEF add_u8, Parts
  <2> QED BY <2>1, <2>2, Zenon
<1>3. PICK x \in [0..Len(s) -> Nat] : Laid(x, Escaped, s, sent)
  BY <1>1, <1>2, IsLaid, Zenon
<1>4. \A i \in 1..Len(s) : x[i] = x[i - 1] + 1 /\ sent[x[i - 1] + 1] = s[i]
  <2> TAKE i \in 1..Len(s)
  <2>1. s[i] \notin Escaped
    BY <1>1, PlainTyped, Zenon
  <2> QED BY <1>3, <2>1, Zenon DEF Laid
<1>5. \A i \in 0..Len(s) : x[i] = i
  <2> DEFINE A == {i \in 0..Len(s) : x[i] = i}
  <2>1. 0 \in A
    BY <1>1, <1>3 DEF Laid
  <2>2. ASSUME NEW i \in 1..Len(s), i - 1 \in A PROVE i \in A
    <3>1. x[i] = x[i - 1] + 1 /\ x[i - 1] = i - 1
      BY <1>4, <2>2, Zenon
    <3> QED BY <1>1, <3>1
  <2>3. \A i \in 0..Len(s) : i \in A
    BY <1>1, <2>1, <2>2, Count
  <2> QED BY <2>3
<1>6. Len(sent) = Len(s)
  <2>1. x[Len(s)] = Len(sent)
    BY <1>3, Zenon DEF Laid
  <2>2. Len(s) \in 0..Len(s)
    BY <1>1
  <2> QED BY <1>5, <2>1, <2>2, Zenon
<1>7. ASSUME NEW i \in 1..Len(s) PROVE sent[i] = s[i]
  <2>1. i - 1 \in 0..Len(s) /\ (i - 1) + 1 = i
    BY <1>1
  <2>2. x[i - 1] = i - 1
    BY <1>5, <2>1, Zenon
  <2>3. sent[(i - 1) + 1] = s[i]
    BY <1>4, <2>2, Zenon
  <2> QED BY <2>1, <2>3, Zenon
<1>8. sent = s
  BY <1>1, <1>6, <1>7, SeqEqual
<1> QED BY <1>2, <1>8

(* The body of a call is decoded as it is sent.                            *)
LEMMA CallParsed ==
  ASSUME NEW p \in Seq(Plain), Len(p) <= INPUT_BUFFER_SIZE,
         NEW W \in Seq(Octet), W[1] = 33, Framed(W, p),
         NEW dec, Machine(dec, W)
  PROVE  LeavesAll(dec, W, Len(p) + 1, At("RpcBody", p, 0, 0))
<1> DEFINE Quiet(k) == Feed(dec[k - 1], W[k]).automaton \notin EndStates
           Now(i) == At("RpcBody", SubSeq(p, 1, i), 0, 0)
           A == {i \in 0..Len(p) : dec[i + 1] = Now(i) /\ \A k \in 1..(i + 1) : Quiet(k)}
<1>0. \A j \in 1..Len(p) : W[j + 1] = p[j]
  BY Zenon DEF Framed
<1>1. Len(p) \in Nat /\ Len(W) \in Nat /\ Len(p) \in 0..Len(p) /\ INPUT_BUFFER_SIZE \in Nat
      /\ Len(p) + 1 <= Len(W)
  BY InputBufferAssumption DEF Framed
<1>2. "RpcBody" \notin EndStates
  BY DEF EndStates
<1>3. Leaves(dec, W, 1, At("RpcBody", <<>>, 0, 0))
  <2>1. dec[0] = At("Idle", <<>>, 0, 0)
    BY StartsAt, Zenon DEF Machine
  <2>2. Feed(dec[0], W[1]) = At("RpcBody", <<>>, 0, 0)
    BY <2>1, IdleCalls, Zenon
  <2>3. 1 \in 1..Len(W) /\ 1 - 1 = 0
    BY <1>1
  <2> QED BY <1>2, <2>2, <2>3, GoesOn, Zenon
<1>4. 0 \in A
  <2>1. 0 \in 0..Len(p) /\ 0 + 1 = 1 /\ SubSeq(p, 1, 0) = <<>> /\ \A k \in 1..(0 + 1) : k = 1
    BY <1>1
  <2>2. dec[0 + 1] = Now(0) /\ Quiet(1)
    BY <1>3, <2>1, Zenon DEF Leaves
  <2> HIDE DEF Quiet
  <2> QED BY <2>1, <2>2, Zenon
<1>5. ASSUME NEW i \in 1..Len(p), i - 1 \in A PROVE i \in A
  <2> DEFINE b0 == SubSeq(p, 1, i - 1)
             c == p[i]
  <2>1. SubSeq(p, 1, i) = Append(b0, c) /\ ~(Len(b0) >= INPUT_BUFFER_SIZE)
    <3>1. SubSeq(p, 1, i) = Append(b0, c) /\ Len(b0) = i - 1
      BY CutGrows
    <3> QED BY <3>1, <1>1
  <2>2. c \in Nat /\ c # 35 /\ c # 33
    <3>1. c \in Plain
      OBVIOUS
    <3> QED BY <3>1, PlainTyped, Zenon
  <2>3. i \in Nat /\ (i - 1) + 1 = i /\ (i + 1) - 1 = i /\ i + 1 \in 1..Len(W) /\ i \in 0..Len(p)
    BY <1>1
  <2>4. dec[(i - 1) + 1] = Now(i - 1) /\ \A k \in 1..((i - 1) + 1) : Quiet(k)
    BY <1>5, Zenon
  <2> HIDE DEF b0, c
  <2>5. Feed(At("RpcBody", b0, 0, 0), c) = Stored("RpcBody", b0, 0, 0, c)
    BY <2>2, RpcStores
  <2>6. Feed(dec[(i + 1) - 1], W[i + 1]) = At("RpcBody", Append(b0, c), 0, 0)
    <3>1. W[i + 1] = c
      BY <1>0, Zenon DEF c
    <3>2. dec[(i + 1) - 1] = At("RpcBody", b0, 0, 0)
      BY <2>3, <2>4, Zenon DEF b0
    <3> QED BY <2>1, <2>5, <3>1, <3>2, Zenon DEF Stored
  <2>7. Leaves(dec, W, i + 1, At("RpcBody", Append(b0, c), 0, 0))
    BY <1>2, <2>3, <2>6, GoesOn, Zenon
  <2>8. dec[i + 1] = Now(i) /\ Quiet(i + 1)
    BY <2>1, <2>7, Zenon DEF Leaves
  <2>9. \A k \in 1..(i + 1) : k \in 1..i \/ k = i + 1
    BY <2>3
  <2> HIDE DEF Quiet, Now
  <2> QED BY <2>3, <2>4, <2>8, <2>9, Zenon
<1>6. \A i \in 0..Len(p) : i \in A
  BY <1>1, <1>4, <1>5, Count
<1>7. SubSeq(p, 1, Len(p)) = p
  OBVIOUS
<1> HIDE DEF Quiet
<1>8. dec[Len(p) + 1] = At("RpcBody", p, 0, 0) /\ \A k \in 1..(Len(p) + 1) : Quiet(k)
  BY <1>1, <1>6, <1>7, Zenon
<1> QED BY <1>8, Zenon DEF LeavesAll, Quiet

(* A call that fits the buffer is decoded as what was sent: the digits of  *)
(* its sum come after it and are dropped.                                  *)
LEMMA CallScript ==
  ASSUME NEW entry, NEW args, Body(entry, args) \in Seq(Plain),
         Len(Body(entry, args)) <= INPUT_BUFFER_SIZE
  PROVE  /\ Frame(entry, args) \in Seq(Octet)
         /\ \E dec, m : Script(Frame(entry, args), dec, m, "RpcDone", Body(entry, args))
<1>1. PICK p \in Seq(Plain) : p = Body(entry, args)
  BY Zenon
<1>2. PICK L \in Nat : L = Len(p) /\ L <= INPUT_BUFFER_SIZE
  <2>1. Len(p) \in Nat
    OBVIOUS
  <2> QED BY <1>1, <2>1
<1>3. PICK tail \in Seq(Plain) : Frame(entry, args) = <<33>> \o p \o (<<35>> \o tail)
  <2>1. CASE entry.means = "pin"
    <3>1. Frame(entry, args) = <<33>> \o p \o <<35>>
      BY <1>1, <2>1 DEF Frame, RPC_START, RPC_END
    <3>2. <<>> \in Seq(Plain) /\ <<35>> \o <<>> = <<35>>
      OBVIOUS
    <3> QED BY <3>1, <3>2, Zenon
  <2>2. CASE entry.means # "pin"
    <3>1. add_u8(p) = p
      BY PlainSent
    <3>2. Frame(entry, args) = <<33>> \o p \o (<<35>> \o u8_to_ascii(Sum(p) % 256))
      BY <1>1, <2>2, <3>1, Zenon DEF Frame, end, RPC_START, CHAR_END
    <3>3. p \in Seq(Nat)
      <4>1. Plain \subseteq Nat
        BY DEF Plain
      <4> QED BY <4>1, SeqMonotonic, Zenon
    <3>4. PICK s \in Nat : s = Sum(p)
      <4>1. PICK g \in [0..Len(p) -> Nat] : Sum(p) = g[Len(p)]
        BY <3>3, SumAdds, Zenon
      <4>2. Len(p) \in 0..Len(p)
        BY <1>2
      <4> QED BY <4>1, <4>2, Zenon
    <3>5. s % 256 \in Octet
      BY LowByte, Zenon
    <3>6. PICK a \in Digits, b \in Digits : u8_to_ascii(Sum(p) % 256) = <<a, b>>
      BY <3>4, <3>5, OctetRead, Zenon
    <3>7. <<a, b>> \in Seq(Plain)
      <4>1. a \in Plain /\ b \in Plain
        BY DEF Digits, Plain
      <4> QED BY <4>1
    <3> QED BY <3>2, <3>6, <3>7, Zenon
  <2> QED BY <2>1, <2>2
<1>4. PICK W : W = Frame(entry, args)
  OBVIOUS
<1>5. /\ W \in Seq(Octet) /\ W[1] = 33 /\ W[L + 2] = 35 /\ L + 2 \in 1..Len(W)
      /\ \A j \in 1..L : W[j + 1] = p[j]
      /\ \A k \in (L + 3)..Len(W) : W[k] \in Plain
  <2>1. p \in Seq(Octet) /\ tail \in Seq(Octet) /\ 33 \in Octet /\ 35 \in Octet
        /\ Len(tail) \in Nat /\ \A j \in 1..Len(tail) : tail[j] \in Plain
    <3>1. Plain \subseteq Octet
      BY PlainTyped
    <3>2. 33 \in Octet /\ 35 \in Octet
      BY DEF Octet
    <3> QED BY <3>1, <3>2
  <2>2. /\ W \in Seq(Octet) /\ Len(W) = Len(p) + 2 + Len(tail)
        /\ W[1] = 33 /\ \A j \in 1..Len(p) : W[j + 1] = p[j]
        /\ W[Len(p) + 2] = 35
        /\ \A k \in (Len(p) + 3)..Len(W) : W[k] \in {tail[j] : j \in 1..Len(tail)}
    <3>0. /\ (<<33>> \o p) \o (<<35>> \o tail) \in Seq(Octet)
          /\ Between((<<33>> \o p) \o (<<35>> \o tail), 33, p, 35, tail)
      BY <2>1, BetweenAt, Zenon
    <3>1. W \in Seq(Octet) /\ Between(W, 33, p, 35, tail)
      BY <1>3, <1>4, <3>0, Zenon
    <3> QED BY <3>1, Zenon DEF Between
  <2>3. PICK t \in Nat : t = Len(tail)
    BY <2>1, Zenon
  <2>4. Len(W) = L + 2 + t
    BY <1>2, <2>2, <2>3, Zenon
  <2>5. L + 2 \in 1..Len(W)
    BY <2>4
  <2> QED BY <1>2, <2>1, <2>2, <2>5, Zenon
<1>6. PICK dec : Machine(dec, W)
  BY <1>5, Machines, Zenon
<1>7. LeavesAll(dec, W, L + 1, At("RpcBody", p, 0, 0))
  <2>1. Framed(W, p)
    BY <1>2, <1>5 DEF Framed
  <2>2. LeavesAll(dec, W, Len(p) + 1, At("RpcBody", p, 0, 0))
    BY <1>2, <1>5, <1>6, <2>1, CallParsed, Zenon
  <2> QED BY <1>2, <2>2, Zenon
<1>8. Feed(dec[L + 1], W[L + 2]) = At("RpcDone", p, 0, 0)
  <2>1. Feed(At("RpcBody", p, 0, 0), 35) = At("RpcDone", p, 0, 0)
    BY RpcEnds, Zenon
  <2> QED BY <1>5, <1>7, <2>1, Zenon DEF LeavesAll
<1>9. Script(W, dec, L + 2, "RpcDone", p)
  <2>1. (L + 2) - 1 = L + 1 /\ (L + 2) + 1 = L + 3
    OBVIOUS
  <2>2. At("RpcDone", p, 0, 0).automaton = "RpcDone" /\ At("RpcDone", p, 0, 0).buffer = p
    BY TurnsTo
  <2>3. \A k \in ((L + 2) + 1)..Len(W) : W[k] \notin {CHAR_START, RPC_START}
    <3> TAKE k \in ((L + 2) + 1)..Len(W)
    <3>1. W[k] \in Plain
      BY <1>5, <2>1, Zenon
    <3>2. W[k] # 36 /\ W[k] # 33
      BY <3>1, PlainTyped, Zenon
    <3> QED BY <3>2 DEF CHAR_START, RPC_START
  <2> QED BY <1>5, <1>6, <1>7, <1>8, <2>1, <2>2, <2>3, Zenon DEF Script, LeavesAll
<1> QED BY <1>1, <1>4, <1>5, <1>9, Zenon

-----------------------------------------------------------------------------
(* What the stubs send.                                                    *)

(* Parts of at most eight bytes (or of two) make so many bytes at most.    *)
LEMMA FlattenBound ==
  ASSUME NEW S, NEW ss \in Seq(Seq(S)), NEW b \in {2, 8},
         \A i \in 1..Len(ss) : Len(ss[i]) <= b
  PROVE  Flatten(ss) \in Seq(S) /\ Len(Flatten(ss)) <= b * Len(ss)
<1>1. PICK n \in Nat : n = Len(ss)
  OBVIOUS
<1>2. PICK f \in [0..n -> Seq(S)] : Grows(f, ss) /\ Flatten(ss) = f[n]
  BY <1>1, FlattenGrows, Zenon
<1> DEFINE A == {i \in 0..n : Len(f[i]) <= b * i}
<1>3. 0 \in A
  <2>1. f[0] = <<>>
    BY <1>2, Zenon DEF Grows
  <2> QED BY <2>1
<1>4. ASSUME NEW i \in 1..n, i - 1 \in A PROVE i \in A
  <2>1. f[i] = f[i - 1] \o ss[i]
    BY <1>1, <1>2, Zenon DEF Grows
  <2>2. f[i - 1] \in Seq(S) /\ ss[i] \in Seq(S) /\ Len(ss[i]) <= b /\ i \in 0..n
    <3>1. i - 1 \in 0..n /\ i \in 0..n
      OBVIOUS
    <3>2. ss[i] \in Seq(S)
      BY <1>1
    <3> QED BY <1>1, <3>1, <3>2, Zenon
  <2>3. Len(f[i]) = Len(f[i - 1]) + Len(ss[i]) /\ Len(f[i - 1]) \in Nat /\ Len(ss[i]) \in Nat
    BY <2>1, <2>2
  <2>4. PICK x \in Nat, y \in Nat : x = Len(f[i - 1]) /\ y = Len(ss[i])
    BY <2>3, Zenon
  <2>5. x <= b * (i - 1) /\ y <= b
    BY <1>1, <1>4, <2>2, <2>4, Zenon
  <2>6. x + y <= b * i
    <3>1. i \in Nat
      OBVIOUS
    <3> HIDE <1>1, <1>2
    <3>2. CASE b = 2
      BY <2>5, <3>1, <3>2
    <3>3. CASE b = 8
      BY <2>5, <3>1, <3>3
    <3> QED BY <3>2, <3>3
  <2> QED BY <2>2, <2>3, <2>4, <2>6, Zenon
<1>5. \A i \in 0..n : i \in A
  BY <1>3, <1>4, Count
<1>6. n \in 0..n
  OBVIOUS
<1>7. f[n] \in Seq(S) /\ Len(f[n]) <= b * n
  BY <1>5, <1>6
<1> QED BY <1>1, <1>2, <1>7, Zenon

(* Bytes written in hexadecimal.                                           *)
LEMMA Hexified ==
  ASSUME NEW D, NEW bytes, NEW n \in Nat, bytes = [i \in 1..n |-> bytes[i]],
         \A i \in 1..n : u8_to_ascii(bytes[i]) \in Seq(D) /\ Len(u8_to_ascii(bytes[i])) = 2
  PROVE  hexify(bytes) \in Seq(D) /\ Len(hexify(bytes)) <= 2 * n
<1>0. Len(bytes) = n
  OBVIOUS
<1> DEFINE ss == [i \in 1..n |-> u8_to_ascii(bytes[i])]
<1>1. ss \in Seq(Seq(D)) /\ Len(ss) = n /\ \A i \in 1..n : Len(ss[i]) <= 2
  <2> HIDE DEF ss
  <2>1. ss \in [1..n -> Seq(D)] /\ \A i \in 1..n : ss[i] = u8_to_ascii(bytes[i])
    BY Zenon DEF ss
  <2>2. ss \in Seq(Seq(D)) /\ Len(ss) = n
    BY <2>1
  <2>3. \A i \in 1..n : Len(ss[i]) <= 2
    <3>1. 2 <= 2
      OBVIOUS
    <3> QED BY <2>1, <3>1, Zenon
  <2> QED BY <2>2, <2>3
<1>2. hexify(bytes) = Flatten(ss)
  BY <1>0, Zenon DEF hexify
<1> HIDE DEF ss
<1>3. Flatten(ss) \in Seq(D) /\ Len(Flatten(ss)) <= 2 * n
  BY <1>1, FlattenBound
<1> QED BY <1>2, <1>3, Zenon

LEMMA OctetHex ==
  ASSUME NEW v \in Octet
  PROVE  u8_to_ascii(v) \in Seq(Plain) /\ Len(u8_to_ascii(v)) = 2
<1>1. PICK a \in Digits, b \in Digits : u8_to_ascii(v) = <<a, b>>
  BY OctetRead, Zenon
<1>2. a \in Plain /\ b \in Plain
  BY PlainTyped
<1> QED BY <1>1, <1>2

LEMMA OctetsHex ==
  ASSUME NEW n \in Nat, NEW bytes \in [1..n -> Octet]
  PROVE  hexify(bytes) \in Seq(Plain) /\ Len(hexify(bytes)) <= 2 * n
<1>1. bytes = [i \in 1..n |-> bytes[i]] /\ \A i \in 1..n : bytes[i] \in Octet
  OBVIOUS
<1>2. \A i \in 1..n : u8_to_ascii(bytes[i]) \in Seq(Plain) /\ Len(u8_to_ascii(bytes[i])) = 2
  BY <1>1, OctetHex, Zenon
<1> QED BY <1>1, <1>2, Hexified, Zenon

LEMMA NumberBytes ==
  ASSUME NEW v \in Nat, NEW n \in {2, 4}
  PROVE  be_bytes(v, n) \in [1..n -> Octet] /\ le_bytes(v, n) \in [1..n -> Octet]
<1>1. \A i \in 1..4 : (v \div Weight[i]) % 256 \in Octet
  <2>1. \A i \in 1..4 : Weight[i] \in Nat \ {0}
    BY DEF Weight
  <2>2. \A w \in Nat \ {0} : v \div w \in Nat
    OBVIOUS
  <2>3. ASSUME NEW i \in 1..4 PROVE (v \div Weight[i]) % 256 \in Octet
    <3>1. v \div Weight[i] \in Nat
      BY <2>1, <2>2, Zenon
    <3> QED BY <3>1, LowByte, Zenon
  <2> QED BY <2>3, Zenon
<1>2. \A i \in 1..n : i \in 1..4 /\ n - i + 1 \in 1..4
  OBVIOUS
<1> QED BY <1>1, <1>2, Zenon DEF be_bytes, le_bytes

(* What is sent of a parameter, whatever its value, is letters and digits.  *)
LEMMA ArgumentEncoded ==
  ASSUME NEW how \in Kinds, NEW arg \in Fitting(how)
  PROVE  Encode(how, arg) \in Seq(Plain)
<1>1. \A v \in Nat : add_u32(v) \in Seq(Plain) /\ add_u32_le(v) \in Seq(Plain)
  <2> TAKE v \in Nat
  <2>1. /\ be_bytes(v, 4) \in [1..4 -> Octet] /\ le_bytes(v, 4) \in [1..4 -> Octet]
    BY NumberBytes
  <2>2. 4 \in Nat
    OBVIOUS
  <2> QED BY <2>1, <2>2, OctetsHex, Zenon DEF add_u32, add_u32_le
<1>2. \A v \in Nat : hexify(be_bytes(v, 2)) \in Seq(Plain) /\ hexify(le_bytes(v, 2)) \in Seq(Plain)
  <2> TAKE v \in Nat
  <2>1. /\ be_bytes(v, 2) \in [1..2 -> Octet] /\ le_bytes(v, 2) \in [1..2 -> Octet]
    BY NumberBytes
  <2>2. 2 \in Nat
    OBVIOUS
  <2> QED BY <2>1, <2>2, OctetsHex, Zenon
<1>3. CASE how = "length"
  <2>1. arg \in Nat /\ Encode(how, arg) = add_u32(arg)
    BY <1>3 DEF Fitting, Word32, Encode
  <2> QED BY <1>1, <2>1, Zenon
<1>4. CASE how = "hex"
  <2>1. arg \in Seq(Octet) /\ Encode(how, arg) = hexify(arg)
    BY <1>4 DEF Fitting, Encode
  <2>2. Len(arg) \in Nat /\ arg \in [1..Len(arg) -> Octet]
    BY <2>1
  <2> QED BY <2>1, <2>2, OctetsHex, Zenon
<1>5. CASE how = "bool"
  <2>1. arg \in {0, 1} /\ Encode(how, arg) = <<48 + arg>>
    BY <1>5 DEF Fitting, Encode
  <2> QED BY <2>1 DEF Plain
<1>6. CASE how = "raw"
  <2>1. arg \in {0, 1} /\ Encode(how, arg) = <<arg>>
    BY <1>6 DEF Fitting, Encode
  <2> QED BY <2>1 DEF Plain
<1>7. CASE how = "u8_hex"
  <2>1. arg \in Octet /\ Encode(how, arg) = u8_to_ascii(arg)
    BY <1>7 DEF Fitting, Encode
  <2> QED BY <2>1, OctetHex, Zenon
<1>8. CASE how \in {"u16_le", "u16_be"}
  <2>1. arg \in Nat /\ Encode(how, arg) \in {hexify(le_bytes(arg, 2)), hexify(be_bytes(arg, 2))}
    BY <1>8 DEF Fitting, Word16, Encode
  <2> QED BY <1>2, <2>1, Zenon
<1>9. CASE how \in {"u32_le", "u32_be"}
  <2>1. arg \in Nat /\ Encode(how, arg) \in {add_u32_le(arg), add_u32(arg)}
    BY <1>9 DEF Fitting, Word32, Encode
  <2> QED BY <1>1, <2>1, Zenon
<1> QED BY <1>3, <1>4, <1>5, <1>6, <1>7, <1>8, <1>9 DEF Kinds

\* Class and command have a letter, and the parameters are seven at most
IsStub(entry) ==
  /\ Ch[entry.class] \in Plain /\ Ch[entry.cmd] \in Plain
  /\ entry.sends \in Seq(Kinds) /\ Len(entry.sends) <= 7

AreStubs(table) == \A call \in DOMAIN table : IsStub(table[call])

LEMMA ChTyped ==
  /\ DOMAIN Ch = {"A", "B", "C", "E", "F", "G", "H", "I", "L", "M", "P", "R", "S", "T",
                  "V", "W", "X", "Z", "a", "d", "f", "m", "p", "r", "w", "z"}
  /\ \A l \in DOMAIN Ch : Ch[l] \in Plain
<1>1. DOMAIN Ch = {"A", "B", "C", "E", "F", "G", "H", "I", "L", "M", "P", "R", "S", "T",
                  "V", "W", "X", "Z", "a", "d", "f", "m", "p", "r", "w", "z"}
  BY DEF Ch
<1>2. \A l \in {"A", "B", "C", "E", "F", "G", "H", "I", "L", "M", "P", "R", "S", "T",
                "V", "W", "X", "Z", "a", "d", "f", "m", "p", "r", "w", "z"} : Ch[l] \in Plain
  BY DEF Ch, Plain
<1> QED BY <1>1, <1>2, Zenon

LEMMA StubIs ==
  ASSUME NEW class \in DOMAIN Ch, NEW cmd \in DOMAIN Ch, NEW sends \in Seq(Kinds),
         Len(sends) <= 7, NEW reads, NEW means
  PROVE  IsStub(Stub(class, cmd, sends, reads, means))
<1>1. \A l \in DOMAIN Ch : Ch[l] \in Plain
  BY ChTyped
<1> QED BY <1>1 DEF Stub, IsStub

LEMMA FewItems ==
  ASSUME NEW S, NEW s \in Seq(S), Len(s) <= 7
  PROVE  /\ Len(s) \in 0..7
         /\ \A i \in 1..Len(s) : s[i] \in S /\ i \in 1..7
<1>1. Len(s) \in Nat /\ \A i \in 1..Len(s) : s[i] \in S
  OBVIOUS
<1>2. \A n \in Nat : n <= 7 => n \in 0..7 /\ \A i \in 1..n : i \in 1..7
  OBVIOUS
<1> QED BY <1>1, <1>2, Zenon

LEMMA TwoBefore ==
  ASSUME NEW S, NEW a \in S, NEW b \in S, NEW t \in Seq(S)
  PROVE  <<a, b>> \o t \in Seq(S) /\ Len(<<a, b>> \o t) \in Nat /\ Len(<<a, b>> \o t) >= 2
OBVIOUS

\* The parameters as they are sent, behind one another
Sent(sends, args, n) == Flatten([i \in 1..n |-> Encode(sends[i], args[i])])

\* What a stub sends: two letters, and its parameters behind them
IsBody(body, a, b, t, sends, args) ==
  /\ a \in Plain /\ b \in Plain /\ t \in Seq(Plain)
  /\ body = <<a, b>> \o t
  /\ t = Sent(sends, args, Len(sends))

(* Every argument is of the type of its parameter.                         *)
LEMMA ArgumentFits ==
  ASSUME NEW sends, sends \in Seq(Kinds), Len(sends) <= 7, NEW args \in ArgumentLists(sends)
  PROVE  /\ args = [i \in 1..Len(sends) |-> args[i]]
         /\ \A i \in 1..Len(sends) : sends[i] \in Kinds /\ args[i] \in Fitting(sends[i])
<1> DEFINE Given(caller) == [i \in 1..Len(sends) |-> caller[sends[i], i]]
<1>1. PICK caller \in Callers : args = Given(caller)
  <2>1. args \in {Given(caller) : caller \in Callers}
    BY Zenon DEF ArgumentLists
  <2> HIDE DEF Given
  <2> QED BY <2>1, Zenon
<1>2. \A i \in 1..Len(sends) : sends[i] \in Kinds /\ i \in 1..7
  BY FewItems, Zenon
<1>3. \A how \in Kinds, i \in 1..7 : caller[how, i] \in Fitting(how)
  BY CallerAssumption, Zenon
<1>4. \A i \in 1..Len(sends) : args[i] = caller[sends[i], i]
  BY <1>1, Zenon
<1>5. args = [i \in 1..Len(sends) |-> args[i]]
  BY <1>1
<1> QED BY <1>2, <1>3, <1>4, <1>5, Zenon

(* A call is its two letters and the parameters, one after the other.      *)
LEMMA BodyLaid ==
  ASSUME NEW entry, IsStub(entry), NEW args \in ArgumentLists(entry.sends)
  PROVE  \E t : IsBody(Body(entry, args), Ch[entry.class], Ch[entry.cmd], t, entry.sends, args)
<1>1. entry.sends \in Seq(Kinds) /\ Len(entry.sends) <= 7
  BY Zenon DEF IsStub
<1>2. PICK n \in Nat : n = Len(entry.sends)
  BY <1>1
<1>3. /\ args = [i \in 1..n |-> args[i]]
      /\ \A i \in 1..n : entry.sends[i] \in Kinds /\ args[i] \in Fitting(entry.sends[i])
  BY <1>1, <1>2, ArgumentFits, Zenon
<1>4. Len(args) = n
  BY <1>2, <1>3
<1> DEFINE ss == [i \in 1..n |-> Encode(entry.sends[i], args[i])]
<1>5. \A i \in 1..n : Encode(entry.sends[i], args[i]) \in Seq(Plain)
  BY <1>3, ArgumentEncoded, Zenon
<1>6. ss \in Seq(Seq(Plain))
  <2> HIDE DEF ss
  <2>1. ss \in [1..n -> Seq(Plain)]
    BY <1>5, Zenon DEF ss
  <2> QED BY <2>1
<1>7. Body(entry, args) = <<Ch[entry.class], Ch[entry.cmd]>> \o Flatten(ss)
  BY <1>4, Zenon DEF Body
<1> HIDE DEF ss
<1>8. Flatten(ss) \in Seq(Plain)
  <2>1. PICK f \in [0..Len(ss) -> Seq(Plain)] : Flatten(ss) = f[Len(ss)]
    BY <1>6, FlattenGrows, Zenon
  <2>2. Len(ss) \in 0..Len(ss)
    BY <1>6
  <2> QED BY <2>1, <2>2
<1>9. Ch[entry.class] \in Plain /\ Ch[entry.cmd] \in Plain
  BY DEF IsStub
<1>10. Flatten(ss) = Sent(entry.sends, args, Len(entry.sends))
  BY <1>2, Zenon DEF ss, Sent
<1> QED BY <1>7, <1>8, <1>9, <1>10, Zenon DEF IsBody

(* A call as a stub sends it is made of plain characters, and fits.         *)
LEMMA BodySent ==
  ASSUME NEW call \in DOMAIN Stubs, IsStub(Stubs[call]),
         NEW args \in ArgumentLists(Stubs[call].sends)
  PROVE  /\ Body(Stubs[call], args) \in Seq(Plain)
         /\ Len(Body(Stubs[call], args)) \in 2..INPUT_BUFFER_SIZE
<1>1. PICK entry : entry = Stubs[call]
  OBVIOUS
<1>2. PICK t : IsBody(Body(entry, args), Ch[entry.class], Ch[entry.cmd], t, entry.sends, args)
  BY <1>1, BodyLaid, Zenon
<1>3. PICK a \in Plain, b \in Plain : a = Ch[entry.class] /\ b = Ch[entry.cmd]
  BY <1>2, Zenon DEF IsBody
<1>4. t \in Seq(Plain) /\ Body(entry, args) = <<a, b>> \o t
  BY <1>2, <1>3, Zenon DEF IsBody
<1>5. PICK body \in Seq(Plain) : body = Body(entry, args) /\ Len(body) \in Nat /\ Len(body) >= 2
  BY <1>4, TwoBefore, Zenon
<1>6. Len(body) <= INPUT_BUFFER_SIZE
  BY <1>1, <1>5, CallerAssumption, Zenon
<1>7. Len(body) \in 2..INPUT_BUFFER_SIZE
  BY <1>5, <1>6, InputBufferAssumption
<1> QED BY <1>1, <1>5, <1>7, Zenon

\* A list of at most seven parameters
IsSends(s) == s \in Seq(Kinds) /\ Len(s) <= 7

LEMMA SendsAre ==
  /\ IsSends(<<>>)
  /\ IsSends(<<"bool">>)
  /\ IsSends(<<"u32_le">>)
  /\ IsSends(<<"u8_hex">>)
  /\ IsSends(<<"u8_hex", "u32_le">>)
  /\ IsSends(<<"u32_le", "u32_le", "u32_le", "u32_le", "bool">>)
  /\ IsSends(<<"u16_le", "u32_le">>)
  /\ IsSends(<<"u16_le">>)
  /\ IsSends(<<"u32_le", "u32_le">>)
  /\ IsSends(<<"u8_hex", "u16_le", "u32_le">>)
  /\ IsSends(<<"u8_hex", "u8_hex", "u16_be", "u32_be">>)
  /\ IsSends(<<"u8_hex", "u8_hex", "u32_be">>)
  /\ IsSends(<<"u8_hex", "u8_hex", "u16_be">>)
  /\ IsSends(<<"u8_hex", "u8_hex", "u32_be", "u32_be", "length">>)
  /\ IsSends(<<"u8_hex", "u8_hex", "u32_be", "u8_hex", "u32_be", "length", "hex">>)
  /\ IsSends(<<"raw", "raw">>)
  /\ IsSends(<<"raw">>)
<1>1. IsSends(<<>>)
  BY DEF IsSends, Kinds
<1>2. IsSends(<<"bool">>)
  BY DEF IsSends, Kinds
<1>3. IsSends(<<"u32_le">>)
  BY DEF IsSends, Kinds
<1>4. IsSends(<<"u8_hex">>)
  BY DEF IsSends, Kinds
<1>5. IsSends(<<"u8_hex", "u32_le">>)
  BY DEF IsSends, Kinds
<1>6. IsSends(<<"u32_le", "u32_le", "u32_le", "u32_le", "bool">>)
  BY DEF IsSends, Kinds
<1>7. IsSends(<<"u16_le", "u32_le">>)
  BY DEF IsSends, Kinds
<1>8. IsSends(<<"u16_le">>)
  BY DEF IsSends, Kinds
<1>9. IsSends(<<"u32_le", "u32_le">>)
  BY DEF IsSends, Kinds
<1>10. IsSends(<<"u8_hex", "u16_le", "u32_le">>)
  BY DEF IsSends, Kinds
<1>11. IsSends(<<"u8_hex", "u8_hex", "u16_be", "u32_be">>)
  BY DEF IsSends, Kinds
<1>12. IsSends(<<"u8_hex", "u8_hex", "u32_be">>)
  BY DEF IsSends, Kinds
<1>13. IsSends(<<"u8_hex", "u8_hex", "u16_be">>)
  BY DEF IsSends, Kinds
<1>14. IsSends(<<"u8_hex", "u8_hex", "u32_be", "u32_be", "length">>)
  BY DEF IsSends, Kinds
<1>15. IsSends(<<"u8_hex", "u8_hex", "u32_be", "u8_hex", "u32_be", "length", "hex">>)
  BY DEF IsSends, Kinds
<1>16. IsSends(<<"raw", "raw">>)
  BY DEF IsSends, Kinds
<1>17. IsSends(<<"raw">>)
  BY DEF IsSends, Kinds
<1> QED BY <1>1, <1>2, <1>3, <1>4, <1>5, <1>6, <1>7, <1>8, <1>9, <1>10, <1>11, <1>12, <1>13, <1>14, <1>15, <1>16, <1>17, Zenon

LEMMA ListedStub ==
  ASSUME NEW class \in DOMAIN Ch, NEW cmd \in DOMAIN Ch, NEW sends, IsSends(sends),
         NEW reads, NEW means
  PROVE  IsStub(Stub(class, cmd, sends, reads, means))
BY StubIs, Zenon DEF IsSends

(* The tables of the stubs, one by one.                                    *)
LEMMA HostGenAre == AreStubs(HostGen)
<1>1. IsStub(Stub("G", "A", <<>>, "u32", "start"))
  BY ChTyped, SendsAre, ListedStub, Zenon
<1>2. IsStub(Stub("G", "V", <<>>, "reply", "voltage"))
  BY ChTyped, SendsAre, ListedStub, Zenon
<1>3. IsStub(Stub("G", "Z", <<"bool">>, "ok", "nrst_set"))
  BY ChTyped, SendsAre, ListedStub, Zenon
<1>4. IsStub(Stub("G", "z", <<>>, "u8", "nrst_get"))
  BY ChTyped, SendsAre, ListedStub, Zenon
<1>5. IsStub(Stub("G", "E", <<"bool">>, "ok", "target_clk_oe"))
  BY ChTyped, SendsAre, ListedStub, Zenon
<1>6. IsStub(Stub("G", "F", <<"u32_le">>, "ok", "set_fq"))
  BY ChTyped, SendsAre, ListedStub, Zenon
<1>7. IsStub(Stub("G", "f", <<>>, "u32", "get_fq"))
  BY ChTyped, SendsAre, ListedStub, Zenon
<1>8. IsStub(Stub("G", "P", <<"bool">>, "ok", "pwr_set"))
  BY ChTyped, SendsAre, ListedStub, Zenon
<1>9. IsStub(Stub("G", "p", <<>>, "u8", "pwr_get"))
  BY ChTyped, SendsAre, ListedStub, Zenon
<1>10. IsStub(Stub("G", "R", <<>>, "ok", "gpio_reset"))
  BY ChTyped, SendsAre, ListedStub, Zenon
<1> QED BY <1>1, <1>2, <1>3, <1>4, <1>5, <1>6, <1>7, <1>8, <1>9, <1>10 DEF AreStubs, HostGen

LEMMA HostSwdpAre == AreStubs(HostSwdp)
<1>1. IsStub(Stub("S", "S", <<>>, "ok", "init_swd"))
  BY ChTyped, SendsAre, ListedStub, Zenon
<1> QED BY <1>1 DEF AreStubs, HostSwdp

LEMMA HostHlAre == AreStubs(HostHl)
<1>1. IsStub(Stub("H", "C", <<>>, "u8", "check"))
  BY ChTyped, SendsAre, ListedStub, Zenon
<1>2. IsStub(Stub("H", "A", <<>>, "u8", "accel"))
  BY ChTyped, SendsAre, ListedStub, Zenon
<1> QED BY <1>1, <1>2 DEF AreStubs, HostHl

LEMMA HostSdiAre == AreStubs(HostSdi)
<1>1. IsStub(Stub("I", "S", <<>>, "word", "sdi_reset"))
  BY ChTyped, SendsAre, ListedStub, Zenon
<1>2. IsStub(Stub("I", "r", <<"u8_hex">>, "word", "sdi_read"))
  BY ChTyped, SendsAre, ListedStub, Zenon
<1>3. IsStub(Stub("I", "w", <<"u8_hex", "u32_le">>, "word", "sdi_write"))
  BY ChTyped, SendsAre, ListedStub, Zenon
<1>4. IsStub(Stub("I", "T", <<"u32_le", "u32_le", "u32_le", "u32_le", "bool">>, "ok", "set_sdi_wire"))
  BY ChTyped, SendsAre, ListedStub, Zenon
<1> QED BY <1>1, <1>2, <1>3, <1>4 DEF AreStubs, HostSdi

LEMMA HostRvAre == AreStubs(HostRv)
<1>1. IsStub(Stub("B", "S", <<>>, "word", "rv_reset"))
  BY ChTyped, SendsAre, ListedStub, Zenon
<1>2. IsStub(Stub("B", "r", <<"u8_hex">>, "word", "rv_read"))
  BY ChTyped, SendsAre, ListedStub, Zenon
<1>3. IsStub(Stub("B", "w", <<"u8_hex", "u32_le">>, "word", "rv_write"))
  BY ChTyped, SendsAre, ListedStub, Zenon
<1> QED BY <1>1, <1>2, <1>3 DEF AreStubs, HostRv

LEMMA HostLnadivAre == AreStubs(HostLnadiv)
<1>1. IsStub(Stub("L", "W", <<"u16_le", "u32_le">>, "word", "swd_write"))
  BY ChTyped, SendsAre, ListedStub, Zenon
<1>2. IsStub(Stub("L", "R", <<"u16_le">>, "word", "swd_read"))
  BY ChTyped, SendsAre, ListedStub, Zenon
<1>3. IsStub(Stub("L", "A", <<"u32_le", "u32_le">>, "word", "raw_swd_write"))
  BY ChTyped, SendsAre, ListedStub, Zenon
<1>4. IsStub(Stub("L", "B", <<"u8_hex", "u16_le", "u32_le">>, "access", "swd_raw_access"))
  BY ChTyped, SendsAre, ListedStub, Zenon
<1> QED BY <1>1, <1>2, <1>3, <1>4 DEF AreStubs, HostLnadiv

LEMMA HostAdiv5Are == AreStubs(HostAdiv5)
<1>1. IsStub(Stub("A", "R", <<"u8_hex", "u8_hex", "u16_be", "u32_be">>, "access_v3", "dp_low_level"))
  BY ChTyped, SendsAre, ListedStub, Zenon
<1>2. IsStub(Stub("A", "d", <<"u8_hex", "u8_hex", "u32_be">>, "adiv", "dp_read"))
  BY ChTyped, SendsAre, ListedStub, Zenon
<1>3. IsStub(Stub("A", "a", <<"u8_hex", "u8_hex", "u16_be">>, "adiv", "ap_read"))
  BY ChTyped, SendsAre, ListedStub, Zenon
<1>4. IsStub(Stub("A", "A", <<"u8_hex", "u8_hex", "u16_be", "u32_be">>, "adiv", "ap_write"))
  BY ChTyped, SendsAre, ListedStub, Zenon
<1>5. IsStub(Stub("A", "m", <<"u8_hex", "u8_hex", "u32_be", "u32_be", "length">>, "block", "mem_read"))
  BY ChTyped, SendsAre, ListedStub, Zenon
<1>6. IsStub(Stub("A", "M", <<"u8_hex", "u8_hex", "u32_be", "u8_hex", "u32_be", "length", "hex">>, "adiv", "mem_write"))
  BY ChTyped, SendsAre, ListedStub, Zenon
<1> QED BY <1>1, <1>2, <1>3, <1>4, <1>5, <1>6 DEF AreStubs, HostAdiv5

LEMMA HostSwindleAre == AreStubs(HostSwindle)
<1>1. IsStub(Stub("Z", "C", <<"u32_le", "u32_le">>, "word", "crc32"))
  BY ChTyped, SendsAre, ListedStub, Zenon
<1>2. IsStub(Stub("Z", "G", <<>>, "word", "get_fq"))
  BY ChTyped, SendsAre, ListedStub, Zenon
<1>3. IsStub(Stub("Z", "S", <<"u32_le">>, "ok", "set_fq"))
  BY ChTyped, SendsAre, ListedStub, Zenon
<1> QED BY <1>1, <1>2, <1>3 DEF AreStubs, HostSwindle

LEMMA HostByHandAre == AreStubs(HostByHand)
<1>1. IsStub(Stub("Z", "S", <<"u32_le">>, "ok8", "set_fq"))
  BY ChTyped, SendsAre, ListedStub, Zenon
<1>2. IsStub(Stub("Z", "G", <<>>, "u32", "get_fq"))
  BY ChTyped, SendsAre, ListedStub, Zenon
<1>3. IsStub(Stub("B", "S", <<>>, "ok8", "rv_reset"))
  BY ChTyped, SendsAre, ListedStub, Zenon
<1>4. IsStub(Stub("B", "r", <<"u8_hex">>, "word", "rv_read"))
  BY ChTyped, SendsAre, ListedStub, Zenon
<1>5. IsStub(Stub("B", "w", <<"u8_hex", "u32_le">>, "ok8", "rv_write"))
  BY ChTyped, SendsAre, ListedStub, Zenon
<1>6. IsStub(Stub("Z", "C", <<"u32_le", "u32_le">>, "word", "crc32"))
  BY ChTyped, SendsAre, ListedStub, Zenon
<1>7. IsStub(Stub("G", "R", <<>>, "ignored", "gpio_reset"))
  BY ChTyped, SendsAre, ListedStub, Zenon
<1> QED BY <1>1, <1>2, <1>3, <1>4, <1>5, <1>6, <1>7 DEF AreStubs, HostByHand

LEMMA HostSwdAre == AreStubs(HostSwd)
<1>1. IsStub(Stub("L", "W", <<"u16_le", "u32_le">>, "ok8", "swd_write"))
  BY ChTyped, SendsAre, ListedStub, Zenon
<1>2. IsStub(Stub("L", "A", <<"u32_le", "u32_le">>, "ignored", "raw_swd_write"))
  BY ChTyped, SendsAre, ListedStub, Zenon
<1>3. IsStub(Stub("L", "R", <<"u16_le">>, "u32", "swd_read"))
  BY ChTyped, SendsAre, ListedStub, Zenon
<1>4. IsStub(Stub("L", "B", <<"u8_hex", "u16_le", "u32_le">>, "access_rs", "swd_raw_access"))
  BY ChTyped, SendsAre, ListedStub, Zenon
<1> QED BY <1>1, <1>2, <1>3, <1>4 DEF AreStubs, HostSwd

LEMMA HostPinsAre == AreStubs(HostPins)
<1>1. IsStub(Stub("G", "X", <<"raw", "raw">>, "status", "pin"))
  BY ChTyped, SendsAre, ListedStub, Zenon
<1>2. IsStub(Stub("G", "W", <<"raw", "raw">>, "status", "pin"))
  BY ChTyped, SendsAre, ListedStub, Zenon
<1>3. IsStub(Stub("G", "w", <<"raw">>, "status", "pin"))
  BY ChTyped, SendsAre, ListedStub, Zenon
<1> QED BY <1>1, <1>2, <1>3 DEF AreStubs, HostPins

LEMMA StubsAre ==
  ASSUME NEW call \in DOMAIN Stubs
  PROVE  IsStub(Stubs[call])
<1>1. \A table \in StubTables : AreStubs(table)
  BY HostGenAre, HostSwdpAre, HostHlAre, HostSdiAre, HostRvAre, HostLnadivAre, HostAdiv5Are, HostSwindleAre, HostByHandAre, HostSwdAre, HostPinsAre, Zenon DEF StubTables
<1>2. PICK table \in StubTables : call \in DOMAIN table
  BY DEF Stubs
<1> DEFINE t == CHOOSE t \in StubTables : call \in DOMAIN t
<1>3. t \in StubTables /\ call \in DOMAIN t
  BY <1>2, Zenon
<1>4. Stubs[call] = t[call]
  BY <1>2, Zenon DEF Stubs
<1> QED BY <1>1, <1>3, <1>4, Zenon DEF AreStubs

-----------------------------------------------------------------------------
(* What the probe answers a call.                                          *)

\* The characters of an answer behind its '&': '.', digits and letters
Text == {c \in Nat : c >= 46}

\* An answer to a call: '&', and no other '&' behind it
IsReply(s) ==
  /\ s \in Seq(Nat) /\ Len(s) >= 1 /\ s[1] = RPC_REMOTE_RESP
  /\ \A i \in 2..Len(s) : s[i] # RPC_REMOTE_RESP

LEMMA FunSeq ==
  ASSUME NEW S, NEW n \in Nat, NEW f \in [1..n -> S]
  PROVE  f \in Seq(S) /\ Len(f) = n
OBVIOUS

(* A piece cut out of a sequence, behind its ath and up to its bth.        *)
LEMMA CutAt ==
  ASSUME NEW S, NEW s \in Seq(S), NEW a \in Nat, NEW b \in Nat, b <= Len(s)
  PROVE  /\ SubSeq(s, a + 1, b) \in Seq(S) /\ Len(SubSeq(s, a + 1, b)) \in Nat
         /\ a <= b => Len(SubSeq(s, a + 1, b)) = b - a
         /\ b < a => SubSeq(s, a + 1, b) = <<>>
         /\ \A i \in 1..(b - a) : SubSeq(s, a + 1, b)[i] = s[a + i]
<1>1. a + 1 \in Int /\ b \in Int /\ \A i \in (a + 1)..b : s[i] \in S
  OBVIOUS
<1>2. /\ SubSeq(s, a + 1, b) \in Seq(S)
      /\ Len(SubSeq(s, a + 1, b)) = IF a + 1 <= b THEN b - (a + 1) + 1 ELSE 0
      /\ \A i \in 1..(b - (a + 1) + 1) : SubSeq(s, a + 1, b)[i] = s[(a + 1) + i - 1]
  BY <1>1, SubSeqProperties
<1>3. b < a => SubSeq(s, a + 1, b) = <<>>
  BY <1>1, SubSeqEmpty
<1>4. \A i \in 1..(b - a) : SubSeq(s, a + 1, b)[i] = s[a + i]
  <2> TAKE i \in 1..(b - a)
  <2>1. i \in 1..(b - (a + 1) + 1) /\ (a + 1) + i - 1 = a + i
    OBVIOUS
  <2> QED BY <1>2, <2>1, Zenon
<1>5. a <= b => Len(SubSeq(s, a + 1, b)) = b - a
  <2>1. PICK n : n = Len(SubSeq(s, a + 1, b)) /\ n = IF a + 1 <= b THEN b - (a + 1) + 1 ELSE 0
    BY <1>2, Zenon
  <2>2. a <= b => n = b - a
    BY <2>1
  <2> QED BY <2>1, <2>2, Zenon
<1>6. Len(SubSeq(s, a + 1, b)) \in Nat
  <2>1. \A t \in Seq(S) : Len(t) \in Nat
    OBVIOUS
  <2> QED BY <1>2, <2>1, Zenon
<1> QED BY <1>2, <1>3, <1>4, <1>5, <1>6, Zenon

LEMMA SeqWider ==
  ASSUME NEW S, NEW T, S \subseteq T, NEW s \in Seq(S)
  PROVE  s \in Seq(T) /\ \A j \in 1..Len(s) : s[j] \in S
<1>1. \A j \in 1..Len(s) : s[j] \in S
  OBVIOUS
<1>2. Len(s) \in Nat /\ s \in [1..Len(s) -> T]
  BY <1>1
<1> QED BY <1>1, <1>2

LEMMA NumberHex ==
  ASSUME NEW v \in Nat
  PROVE  u8_to_ascii(v) \in Seq(Text) /\ Len(u8_to_ascii(v)) = 2
<1>1. \A d \in Nat : _tohex(d) \in Text
  BY DEF _tohex, Text
<1>2. v \div 16 \in Nat /\ v % 16 \in Nat
  OBVIOUS
<1>3. _tohex(v \div 16) \in Text /\ _tohex(v % 16) \in Text
  BY <1>1, <1>2, Zenon
<1>4. \A a, b \in Text : <<a, b>> \in Seq(Text) /\ Len(<<a, b>>) = 2
  OBVIOUS
<1> QED BY <1>3, <1>4, Zenon DEF u8_to_ascii

LEMMA NumbersHex ==
  ASSUME NEW bytes \in Seq(Nat)
  PROVE  hexify(bytes) \in Seq(Text)
<1>1. PICK n \in Nat : n = Len(bytes)
  OBVIOUS
<1>2. bytes = [i \in 1..n |-> bytes[i]] /\ \A i \in 1..n : bytes[i] \in Nat
  BY <1>1
<1>3. \A i \in 1..n : u8_to_ascii(bytes[i]) \in Seq(Text) /\ Len(u8_to_ascii(bytes[i])) = 2
  BY <1>2, NumberHex, Zenon
<1> QED BY <1>2, <1>3, Hexified, Zenon

LEMMA WordHex ==
  ASSUME NEW v \in Nat
  PROVE  add_u32_le(v) \in Seq(Text)
<1>1. le_bytes(v, 4) \in [1..4 -> Octet]
  BY NumberBytes
<1>2. Octet \subseteq Nat
  BY DEF Octet
<1>3. \A b \in [1..4 -> Octet] : b \in Seq(Octet)
  <2>1. 4 \in Nat
    OBVIOUS
  <2> QED BY <2>1, FunSeq, Zenon
<1>4. le_bytes(v, 4) \in Seq(Nat)
  BY <1>1, <1>2, <1>3, SeqWider, Zenon
<1> QED BY <1>4, NumbersHex, Zenon DEF add_u32_le

LEMMA EncodedReply ==
  ASSUME NEW code \in {RPC_RESP_OK, RPC_RESP_ERR}, NEW chars \in Seq(Text)
  PROVE  IsReply(rpc_reply_encoder(code, chars))
<1>1. chars \in Seq(Nat) /\ \A j \in 1..Len(chars) : chars[j] # 38
  <2>1. Text \subseteq Nat /\ \A c \in Text : c # 38
    BY DEF Text
  <2>2. chars \in Seq(Nat) /\ \A j \in 1..Len(chars) : chars[j] \in Text
    BY <2>1, SeqWider, Zenon
  <2> QED BY <2>1, <2>2, Zenon
<1>2. code \in Nat /\ code # 38
  BY DEF RPC_RESP_OK, RPC_RESP_ERR
<1>3. PICK n \in Nat : n = Len(chars)
  BY <1>1
<1>4. PICK s : s = <<38, code>> \o chars \o <<35>>
  OBVIOUS
<1>5. s \in Seq(Nat) /\ Len(s) = n + 3 /\ s[1] = 38 /\ s[2] = code /\ s[n + 3] = 35
      /\ \A j \in 1..n : s[j + 2] = chars[j]
  BY <1>1, <1>2, <1>3, <1>4
<1>6. ASSUME NEW i \in 2..Len(s) PROVE s[i] # 38
  <2>1. CASE i = 2
    BY <1>2, <1>5, <2>1
  <2>2. CASE i = n + 3
    BY <1>5, <2>2
  <2>3. CASE i \notin {2, n + 3}
    <3>1. PICK j \in 1..n : j + 2 = i
      <4>1. i - 2 \in 1..n /\ (i - 2) + 2 = i
        BY <1>5, <2>3
      <4> QED BY <4>1
    <3>2. s[j + 2] = chars[j] /\ chars[j] # 38
      BY <1>1, <1>3, <1>5, Zenon
    <3> QED BY <3>1, <3>2
  <2> QED BY <2>1, <2>2, <2>3
<1>7. Len(s) >= 1
  BY <1>5
<1>8. s = rpc_reply_encoder(code, chars)
  BY <1>4 DEF rpc_reply_encoder, RPC_REMOTE_RESP, RPC_END
<1>9. IsReply(s)
  BY <1>5, <1>6, <1>7, Zenon DEF IsReply, RPC_REMOTE_RESP
<1> QED BY <1>8, <1>9, Zenon

\* The outcome of an operation, and one with a value
Outcome  == [fault : Nat, values : Seq(Nat)]
Numbered == [fault : Nat, values : Seq(Nat) \ {<<>>}]

\* How an outcome with a value is answered
Numeric == {"ok", "u8", "u32", "bool_32", "adiv5_32", "two", "two_or_fault"}

LEMMA ErrorReply ==
  ASSUME NEW f \in Nat
  PROVE  IsReply(simple_error(f))
<1>1. 256 * f + RPC_ERROR_FAULT \in Nat
  BY DEF RPC_ERROR_FAULT
<1>2. add_u32_le(256 * f + RPC_ERROR_FAULT) \in Seq(Text)
  BY <1>1, WordHex, Zenon
<1> QED BY <1>2, EncodedReply, Zenon DEF simple_error

LEMMA NumericReply ==
  ASSUME NEW o \in Numbered, NEW replies \in Numeric
  PROVE  IsReply(Replied(replies, o))
<1>1. PICK f \in Nat, v \in Nat : f = o.fault /\ v = o.values[1]
  <2>1. o.fault \in Nat /\ o.values \in Seq(Nat) /\ o.values # <<>>
    BY DEF Numbered
  <2>2. \A s \in Seq(Nat) : s # <<>> => s[1] \in Nat
    OBVIOUS
  <2> QED BY <2>1, <2>2, Zenon
<1>2. \A w \in Nat : add_u32_le(w) \in Seq(Text)
  BY WordHex, Zenon
<1>3. IsReply(rpc_reply32_le_ok(v))
  BY <1>2, EncodedReply, Zenon DEF rpc_reply32_le_ok
<1>4. IsReply(rpc_reply_ok(v))
  BY NumberHex, EncodedReply, Zenon DEF rpc_reply_ok
<1>5. IsReply(rpc_reply_encoder(RPC_RESP_OK, <<>>))
  <2>1. <<>> \in Seq(Text)
    OBVIOUS
  <2> QED BY <2>1, EncodedReply, Zenon
<1>6. IsReply(rpc_reply_bool_32le(o))
  <2>1. IsReply(simple_error(1))
    <3>1. 1 \in Nat
      OBVIOUS
    <3> QED BY <3>1, ErrorReply, Zenon
  <2> QED BY <1>1, <1>3, <2>1, Zenon DEF rpc_reply_bool_32le
<1>7. IsReply(reply_adiv5_32(o))
  <2>1. <<f>> \o [i \in 1..9 |-> RPC_ERROR_FAULT] \in Seq(Nat)
    BY DEF RPC_ERROR_FAULT
  <2>2. hexify(<<f>> \o [i \in 1..9 |-> RPC_ERROR_FAULT]) \in Seq(Text)
    BY <2>1, NumbersHex, Zenon
  <2>3. IsReply(rpc_reply_encoder(RPC_RESP_ERR, hexify(<<f>> \o [i \in 1..9 |-> RPC_ERROR_FAULT])))
    BY <2>2, EncodedReply, Zenon
  <2> QED BY <1>1, <1>3, <2>3, Zenon DEF reply_adiv5_32
<1>8. IsReply(ReplyTwo(o))
  <2>1. \A a, b \in Seq(Text) : a \o b \in Seq(Text)
    OBVIOUS
  <2>2. add_u32_le(v) \o add_u32_le(f) \in Seq(Text)
    BY <1>2, <2>1, Zenon
  <2> QED BY <1>1, <2>2, EncodedReply, Zenon DEF ReplyTwo
<1>9. IsReply(simple_error(RPC_ERROR_FAULT))
  <2>1. RPC_ERROR_FAULT \in Nat
    BY DEF RPC_ERROR_FAULT
  <2> QED BY <2>1, ErrorReply, Zenon
<1>10. CASE replies = "ok"
  BY <1>5, <1>10 DEF Replied
<1>11. CASE replies = "u8"
  BY <1>1, <1>4, <1>11 DEF Replied
<1>12. CASE replies = "u32"
  BY <1>1, <1>3, <1>12 DEF Replied
<1>13. CASE replies = "bool_32"
  BY <1>6, <1>13 DEF Replied
<1>14. CASE replies = "adiv5_32"
  BY <1>7, <1>14 DEF Replied
<1>15. CASE replies = "two"
  BY <1>8, <1>15 DEF Replied
<1>16. CASE replies = "two_or_fault"
  BY <1>8, <1>9, <1>16 DEF Replied
<1> QED BY <1>10, <1>11, <1>12, <1>13, <1>14, <1>15, <1>16 DEF Numeric

LEMMA BlockReply ==
  ASSUME NEW o \in Outcome
  PROVE  IsReply(Replied("block", o))
<1>1. o.fault \in Nat /\ o.values \in Seq(Nat)
  BY DEF Outcome
<1>2. IsReply(simple_error(o.fault))
  BY <1>1, ErrorReply, Zenon
<1>3. IsReply(rpc_reply_hex_string(o.values))
  BY <1>1, NumbersHex, EncodedReply, Zenon DEF rpc_reply_hex_string
<1> QED BY <1>2, <1>3 DEF Replied

LEMMA TextReply ==
  ASSUME NEW o, o.values \in Seq(Text)
  PROVE  IsReply(Replied("string", o))
<1>1. IsReply(rpc_reply_string(o.values))
  BY EncodedReply, Zenon DEF rpc_reply_string
<1> QED BY <1>1 DEF Replied

\* What mem_read() takes: its fifth parameter is the length
BlockTakes == <<"u8", "u8", "u32_be", "u32_be", "u32_be">>

\* A command of the probe answers with a text, a block or numbers
Sound(command) ==
  \/ /\ command.replies = "string" /\ command.does \notin {"mem_read", "mem_write"}
     /\ \A o \in command.answers : o.values \in Seq(Text)
  \/ /\ command.replies \in Numeric /\ command.does # "mem_read"
     /\ command.answers \subseteq Numbered
  \/ /\ command.replies = "block" /\ command.does = "mem_read"
     /\ command.takes = BlockTakes /\ command.answers \subseteq Numbered

AreSound(table) == \A l \in DOMAIN table : Sound(table[l])

LEMMA TextSound ==
  ASSUME NEW takes, NEW does, NEW answers, does \notin {"mem_read", "mem_write"},
         \A o \in answers : o.values \in Seq(Text)
  PROVE  Sound(Command(takes, does, answers, "string"))
BY DEF Sound, Command

LEMMA NumberSound ==
  ASSUME NEW takes, NEW does, NEW answers, NEW replies \in Numeric, does # "mem_read",
         answers \subseteq Numbered
  PROVE  Sound(Command(takes, does, answers, replies))
BY DEF Sound, Command

LEMMA AnswersNumbered ==
  /\ Silent \subseteq Numbered /\ Fixed(0) \subseteq Numbered /\ Fixed(1) \subseteq Numbered
  /\ Fixed(3) \subseteq Numbered /\ Always \subseteq Numbered /\ Tried \subseteq Numbered
  /\ Reading \subseteq Numbered /\ SideBySide \subseteq Numbered /\ Bits \subseteq Numbered
  /\ {Failed(f) : f \in Faults} \subseteq Numbered
<1>1. \A f \in Nat, w \in Nat : [fault |-> f, values |-> <<w>>] \in Numbered
  BY DEF Numbered
<1>2. Words \subseteq Nat /\ \A f \in Faults : f \in Nat
  BY RpcAssumption DEF Word32
<1>3. \A w \in Nat : Done(<<w>>) \in Numbered
  BY <1>1 DEF Done
<1>4. {Failed(f) : f \in Faults} \subseteq Numbered
  BY <1>1, <1>2 DEF Failed
<1>5. Silent \subseteq Numbered /\ Fixed(0) \subseteq Numbered /\ Fixed(1) \subseteq Numbered
      /\ Fixed(3) \subseteq Numbered /\ Bits \subseteq Numbered
  BY <1>3 DEF Silent, Fixed, Bits
<1>6. Always \subseteq Numbered
  BY <1>2, <1>3 DEF Always
<1>7. SideBySide \subseteq Numbered
  <2>1. \A f \in Faults \cup {0} : f \in Nat
    BY <1>2
  <2> QED BY <1>1, <1>2, <2>1 DEF SideBySide
<1>8. Tried \subseteq Numbered /\ Reading \subseteq Numbered
  BY <1>4, <1>5, <1>6 DEF Tried, Reading
<1> QED BY <1>4, <1>5, <1>6, <1>7, <1>8, Zenon

LEMMA AnswersTexts ==
  /\ \A o \in LNBMP : o.values \in Seq(Text)
  /\ \A o \in Voltages : o.values \in Seq(Text)
<1>1. <<76, 78, 66, 77, 80>> \in Seq(Text)
  BY DEF Text
<1>2. ASSUME NEW t \in Nat PROVE VoltageText(t) \in Seq(Text)
  <2>1. PICK left \in Nat : left = t \div 10
    OBVIOUS
  <2>2. 48 + left \div 10 \in Text /\ 48 + (left % 10) \in Text /\ 46 \in Text
        /\ 48 + (t % 10) \in Text
    BY DEF Text
  <2>3. \A a, b, c, d \in Text :
          <<a>> \o <<b, c, d>> \in Seq(Text) /\ <<>> \o <<b, c, d>> \in Seq(Text)
    OBVIOUS
  <2> QED BY <2>1, <2>2, <2>3, Zenon DEF VoltageText
<1>3. Tenths \subseteq Nat
  BY RpcAssumption
<1>4. \A s : Done(s).values = s
  BY DEF Done
<1>5. \A o \in LNBMP : o.values \in Seq(Text)
  BY <1>1, <1>4, Zenon DEF LNBMP
<1>6. ASSUME NEW o \in Voltages PROVE o.values \in Seq(Text)
  <2>1. PICK t \in Tenths : o = Done(VoltageText(t))
    BY Zenon DEF Voltages
  <2>2. t \in Nat
    BY <1>3, <2>1, Zenon
  <2> QED BY <1>2, <1>4, <2>1, <2>2, Zenon
<1> QED BY <1>5, <1>6, Zenon

LEMMA BlockSound ==
  Sound(Command(<<"u8", "u8", "u32_be", "u32_be", "u32_be">>, "mem_read",
                {Failed(f) : f \in Faults}, "block"))
<1>1. {Failed(f) : f \in Faults} \subseteq Numbered
  BY AnswersNumbered, Zenon
<1> QED BY <1>1 DEF Sound, Command, BlockTakes

(* The tables of the commands, one by one.                                 *)
LEMMA GenSound == AreSound(rpc_gen_impl)
<1>1. Sound(Command(<<>>, "start", LNBMP, "string"))
  BY AnswersTexts, TextSound, Zenon
<1>2. Sound(Command(<<>>, "voltage", Voltages, "string"))
  BY AnswersTexts, TextSound, Zenon
<1>3. Sound(Command(<<"bool">>, "nrst_set", Silent, "ok"))
  BY AnswersNumbered, NumberSound, Zenon DEF Numeric
<1>4. Sound(Command(<<>>, "nrst_get", Bits, "u8"))
  BY AnswersNumbered, NumberSound, Zenon DEF Numeric
<1>5. Sound(Command(<<"bool">>, "target_clk_oe", Silent, "ok"))
  BY AnswersNumbered, NumberSound, Zenon DEF Numeric
<1>6. Sound(Command(<<"u32">>, "set_fq", Silent, "ok"))
  BY AnswersNumbered, NumberSound, Zenon DEF Numeric
<1>7. Sound(Command(<<>>, "get_fq", Always, "u32"))
  BY AnswersNumbered, NumberSound, Zenon DEF Numeric
<1>8. Sound(Command(<<"bool">>, "pwr_set", Silent, "ok"))
  BY AnswersNumbered, NumberSound, Zenon DEF Numeric
<1>9. Sound(Command(<<>>, "pwr_get", Fixed(0), "u8"))
  BY AnswersNumbered, NumberSound, Zenon DEF Numeric
<1>10. Sound(Command(<<>>, "gpio_reset", Silent, "ok"))
  BY AnswersNumbered, NumberSound, Zenon DEF Numeric
<1> QED BY <1>1, <1>2, <1>3, <1>4, <1>5, <1>6, <1>7, <1>8, <1>9, <1>10 DEF AreSound, rpc_gen_impl

LEMMA SwdpSound == AreSound(rpc_swdp_impl)
<1>1. Sound(Command(<<>>, "init_swd", Silent, "ok"))
  BY AnswersNumbered, NumberSound, Zenon DEF Numeric
<1> QED BY <1>1 DEF AreSound, rpc_swdp_impl

LEMMA HlSound == AreSound(rpc_hl_impl)
<1>1. Sound(Command(<<>>, "check", Fixed(3), "u8"))
  BY AnswersNumbered, NumberSound, Zenon DEF Numeric
<1>2. Sound(Command(<<>>, "accel", Fixed(1), "u8"))
  BY AnswersNumbered, NumberSound, Zenon DEF Numeric
<1> QED BY <1>1, <1>2 DEF AreSound, rpc_hl_impl

LEMMA SdiSound == AreSound(rpc_sdi_impl)
<1>1. Sound(Command(<<>>, "sdi_reset", Silent, "bool_32"))
  BY AnswersNumbered, NumberSound, Zenon DEF Numeric
<1>2. Sound(Command(<<"u8">>, "sdi_read", Reading, "bool_32"))
  BY AnswersNumbered, NumberSound, Zenon DEF Numeric
<1>3. Sound(Command(<<"u8", "u32">>, "sdi_write", Tried, "bool_32"))
  BY AnswersNumbered, NumberSound, Zenon DEF Numeric
<1>4. Sound(Command(<<"u32", "u32", "u32", "u32", "bool">>, "set_sdi_wire", Silent, "ok"))
  BY AnswersNumbered, NumberSound, Zenon DEF Numeric
<1> QED BY <1>1, <1>2, <1>3, <1>4 DEF AreSound, rpc_sdi_impl

LEMMA RvSound == AreSound(rpc_rv_impl)
<1>1. Sound(Command(<<>>, "rv_reset", Silent, "bool_32"))
  BY AnswersNumbered, NumberSound, Zenon DEF Numeric
<1>2. Sound(Command(<<"u8">>, "rv_read", Reading, "bool_32"))
  BY AnswersNumbered, NumberSound, Zenon DEF Numeric
<1>3. Sound(Command(<<"u8", "u32">>, "rv_write", Tried, "bool_32"))
  BY AnswersNumbered, NumberSound, Zenon DEF Numeric
<1> QED BY <1>1, <1>2, <1>3 DEF AreSound, rpc_rv_impl

LEMMA LnadivSound == AreSound(rpc_lnadiv_impl)
<1>1. Sound(Command(<<"u16", "u32">>, "swd_write", Tried, "bool_32"))
  BY AnswersNumbered, NumberSound, Zenon DEF Numeric
<1>2. Sound(Command(<<"u16">>, "swd_read", Always, "bool_32"))
  BY AnswersNumbered, NumberSound, Zenon DEF Numeric
<1>3. Sound(Command(<<"u32", "u32">>, "raw_swd_write", Silent, "bool_32"))
  BY AnswersNumbered, NumberSound, Zenon DEF Numeric
<1>4. Sound(Command(<<"u8", "u16", "u32">>, "swd_raw_access", SideBySide, "two"))
  BY AnswersNumbered, NumberSound, Zenon DEF Numeric
<1> QED BY <1>1, <1>2, <1>3, <1>4 DEF AreSound, rpc_lnadiv_impl

LEMMA Adiv5Sound == AreSound(rpc_adiv5_impl)
<1>1. Sound(Command(<<"u8", "u8", "u16_be", "u32_be">>, "dp_low_level", SideBySide, "two_or_fault"))
  BY AnswersNumbered, NumberSound, Zenon DEF Numeric
<1>2. Sound(Command(<<"u8", "u8", "u32_be">>, "dp_read", Reading, "adiv5_32"))
  BY AnswersNumbered, NumberSound, Zenon DEF Numeric
<1>3. Sound(Command(<<"u8", "u8", "u16_be">>, "ap_read", Always, "adiv5_32"))
  BY AnswersNumbered, NumberSound, Zenon DEF Numeric
<1>4. Sound(Command(<<"u8", "u8", "u16_be", "u32_be">>, "ap_write", Silent, "adiv5_32"))
  BY AnswersNumbered, NumberSound, Zenon DEF Numeric
<1>5. Sound(Command(<<"u8", "u8", "u32_be", "u32_be", "u32_be">>, "mem_read", {Failed(f) : f \in Faults}, "block"))
  BY AnswersNumbered, BlockSound, Zenon
<1>6. Sound(Command(<<"u8", "u8", "u32_be", "u8", "u32_be", "u32_be", "end">>, "mem_write", Tried, "adiv5_32"))
  BY AnswersNumbered, NumberSound, Zenon DEF Numeric
<1> QED BY <1>1, <1>2, <1>3, <1>4, <1>5, <1>6 DEF AreSound, rpc_adiv5_impl

LEMMA SwindleSound == AreSound(rpc_swindle_impl)
<1>1. Sound(Command(<<"u32", "u32">>, "crc32", Reading, "bool_32"))
  BY AnswersNumbered, NumberSound, Zenon DEF Numeric
<1>2. Sound(Command(<<>>, "get_fq", Always, "bool_32"))
  BY AnswersNumbered, NumberSound, Zenon DEF Numeric
<1>3. Sound(Command(<<"u32">>, "set_fq", Silent, "ok"))
  BY AnswersNumbered, NumberSound, Zenon DEF Numeric
<1> QED BY <1>1, <1>2, <1>3 DEF AreSound, rpc_swindle_impl

LEMMA CommandsSound ==
  ASSUME NEW class \in DOMAIN Classes, NEW l \in DOMAIN Classes[class]
  PROVE  Sound(Classes[class][l])
<1>1. \A c \in DOMAIN Classes : AreSound(Classes[c])
  BY GenSound, SwdpSound, HlSound, SdiSound, RvSound, LnadivSound, Adiv5Sound,
     SwindleSound DEF Classes
<1> QED BY <1>1, Zenon DEF AreSound

(* rpc_dispatch() finds a command of the tables.                           *)
LEMMA CommandFound ==
  ASSUME NEW body, IsCommand(body)
  PROVE  Sound(CommandOf(body))
<1>1. PICK class \in Letters(Classes, body[1]) : Letters(Classes[class], body[2]) # {}
  BY Zenon DEF IsCommand
<1>2. \A k, l \in DOMAIN Classes : Ch[k] = Ch[l] => k = l
  <2>1. DOMAIN Classes = {"G", "S", "H", "I", "B", "L", "A", "Z"}
    BY DEF Classes
  <2>2. \A k, l \in {"G", "S", "H", "I", "B", "L", "A", "Z"} : Ch[k] = Ch[l] => k = l
    BY DEF Ch
  <2> QED BY <2>1, <2>2, Zenon
<1>3. \A k \in Letters(Classes, body[1]) : k = class /\ k \in DOMAIN Classes
  BY <1>1, <1>2, Zenon DEF Letters
<1>4. (CHOOSE l \in Letters(Classes, body[1]) : TRUE) = class
  BY <1>1, <1>3, Zenon
<1> DEFINE cmd == CHOOSE l \in Letters(Classes[class], body[2]) : TRUE
<1>5. cmd \in DOMAIN Classes[class]
  <2>1. cmd \in Letters(Classes[class], body[2])
    BY <1>1
  <2> QED BY <2>1 DEF Letters
<1>6. CommandOf(body) = Classes[class][cmd]
  BY <1>4, Zenon DEF CommandOf
<1> HIDE DEF cmd
<1>7. class \in DOMAIN Classes
  BY <1>1, <1>3, Zenon
<1> QED BY <1>5, <1>6, <1>7, CommandsSound, Zenon

(* The number that digits stand for.                                       *)
LEMMA HexTyped == \A c : _hex(c) \in Nat
<1> TAKE c
<1>1. CASE c \in 48..57
  <2>1. \A d \in 48..57 : d - 48 \in Nat /\ d \notin 97..102 /\ d \notin 65..70
    OBVIOUS
  <2>2. c - 48 \in Nat /\ c \notin 97..102 /\ c \notin 65..70
    BY <1>1, <2>1, Zenon
  <2>3. _hex(c) = c - 48
    BY <1>1, <2>2, Zenon DEF _hex
  <2> QED BY <2>2, <2>3, Zenon
<1>2. CASE c \in 97..102
  BY <1>2 DEF _hex
<1>3. CASE c \in 65..70
  BY <1>3 DEF _hex
<1>4. CASE c \notin 48..57 /\ c \notin 97..102 /\ c \notin 65..70
  <2>1. _hex(c) = 0
    BY <1>4, Zenon DEF _hex
  <2> QED BY <2>1
<1> QED BY <1>1, <1>2, <1>3, <1>4, Zenon

(* Reading digits, one turn for each.                                      *)
LEMMA DigitsTurn ==
  ASSUME NEW s, NEW n \in Nat, n = Len(s)
  PROVE  \E f : /\ u8s_string_to_u32(s) = f[n] /\ f[0] = 0 /\ f[n] \in Nat
               /\ \A i \in 1..n : f[i - 1] \in Nat /\ f[i] = 16 * f[i - 1] + _hex(s[i])
<1> DEFINE G == [x \in (1..n) \X Nat |-> 16 * x[2] + _hex(s[x[1]])]
           f == CHOOSE f : f = [i \in 0..Len(s) |->
                                 IF i = 0 THEN 0 ELSE 16 * f[i - 1] + _hex(s[i])]
<1>1. \A c : _hex(c) \in Nat
  BY HexTyped
<1>2. G \in [(1..n) \X Nat -> Nat]
  BY <1>1
<1>3. PICK g \in [0..n -> Nat] : Turns(g, n, 0, G)
  <2>1. 0 \in Nat
    OBVIOUS
  <2> QED BY <1>2, <2>1, LoopExists
<1>4. \A i \in 0..n : g[i] = IF i = 0 THEN 0 ELSE 16 * g[i - 1] + _hex(s[i])
  <2> TAKE i \in 0..n
  <2>1. g[i] = IF i = 0 THEN 0 ELSE G[<<i, g[i - 1]>>]
    BY <1>3 DEF Turns
  <2>2. CASE i # 0
    <3>1. i \in 1..n /\ i - 1 \in 0..n
      BY <2>2
    <3>2. g[i - 1] \in Nat
      BY <3>1
    <3>3. G[<<i, g[i - 1]>>] = 16 * g[i - 1] + _hex(s[i])
      BY <3>1, <3>2
    <3> QED BY <2>1, <2>2, <3>3
  <2> QED BY <2>1, <2>2
<1>5. g = [i \in 0..Len(s) |-> IF i = 0 THEN 0 ELSE 16 * g[i - 1] + _hex(s[i])]
  BY <1>4
<1>6. f = [i \in 0..Len(s) |-> IF i = 0 THEN 0 ELSE 16 * f[i - 1] + _hex(s[i])]
  BY <1>5
<1>7. u8s_string_to_u32(s) = f[Len(s)]
  BY DEF u8s_string_to_u32
<1> HIDE DEF f, G
<1>8. \A i \in 0..n : f[i] = IF i = 0 THEN 0 ELSE 16 * f[i - 1] + _hex(s[i])
  BY <1>6
<1> DEFINE A == {i \in 0..n : f[i] \in Nat}
<1>9. 0 \in A
  BY <1>8
<1>10. ASSUME NEW k \in 1..n, k - 1 \in A PROVE k \in A
  <2>1. k \in 0..n /\ k # 0 /\ f[k - 1] \in Nat
    BY <1>10
  <2>2. f[k] = 16 * f[k - 1] + _hex(s[k])
    BY <1>8, <2>1
  <2>3. _hex(s[k]) \in Nat
    BY <1>1
  <2> QED BY <2>1, <2>2, <2>3
<1>11. \A i \in 0..n : i \in A
  BY <1>9, <1>10, Count
<1>12. f[0] = 0 /\ f[n] \in Nat
  BY <1>8, <1>11
<1>13. \A i \in 1..n : f[i - 1] \in Nat /\ f[i] = 16 * f[i - 1] + _hex(s[i])
  <2> TAKE i \in 1..n
  <2>1. i - 1 \in 0..n /\ i \in 0..n /\ i # 0
    OBVIOUS
  <2>2. f[i - 1] \in Nat
    BY <1>11, <2>1
  <2> QED BY <1>8, <2>1, <2>2, Zenon
<1>14. u8s_string_to_u32(s) = f[n]
  BY <1>7
<1> HIDE DEF f
<1> QED BY <1>12, <1>13, <1>14, Zenon

LEMMA DigitsRead ==
  ASSUME NEW s, NEW n \in Nat, n = Len(s)
  PROVE  u8s_string_to_u32(s) \in Nat
BY DigitsTurn

(* The length that mem_read() is asked for is a number.                    *)
LEMMA LengthRead ==
  ASSUME NEW chars \in Seq(Octet)
  PROVE  Arguments(BlockTakes, chars)[5] \in Nat
<1> DEFINE widths == [k \in 1..(5 - 1) |-> Width[BlockTakes[k]]]
           from == Sum(widths)
           to == IF BlockTakes[5] = "end" \/ Len(chars) < from + Width[BlockTakes[5]]
                 THEN Len(chars) ELSE from + Width[BlockTakes[5]]
<1>1. Len(BlockTakes) = 5 /\ BlockTakes[5] = "u32_be" /\ Width["u32_be"] = 8 /\ Width["u8"] = 2
  BY DEF BlockTakes, Width
<1>2. \A k \in 1..4 : BlockTakes[k] \in {"u8", "u32_be"}
  BY DEF BlockTakes
<1>3. widths \in Seq(Nat) /\ Len(widths) = 4
  <2>1. \A k \in 1..4 : Width[BlockTakes[k]] \in Nat
    BY <1>1, <1>2
  <2>2. 5 - 1 = 4
    OBVIOUS
  <2>3. widths = [k \in 1..4 |-> Width[BlockTakes[k]]]
    BY <2>2
  <2> HIDE DEF widths
  <2>4. widths \in [1..4 -> Nat]
    BY <2>1, <2>3, Zenon
  <2>5. 4 \in Nat
    OBVIOUS
  <2> QED BY <2>4, <2>5, FunSeq, Zenon
<1> HIDE DEF widths
<1>4. PICK a \in Nat : a = from
  <2>1. PICK g \in [0..Len(widths) -> Nat] : Sum(widths) = g[Len(widths)]
    BY <1>3, SumAdds, Zenon
  <2>2. Len(widths) \in 0..Len(widths)
    BY <1>3
  <2> QED BY <2>1, <2>2
<1>5. PICK b \in Nat : b = to /\ b <= Len(chars)
  <2>1. Len(chars) \in Nat
    OBVIOUS
  <2> QED BY <1>1, <1>4, <2>1
<1>6. Arguments(BlockTakes, chars)[5] = u8s_string_to_u32(SubSeq(chars, from + 1, to))
  <2>1. Arguments(BlockTakes, chars)[5] = NextParameter(BlockTakes[5], SubSeq(chars, from + 1, to))
    <3>1. 5 \in 1..Len(BlockTakes)
      BY <1>1
    <3> QED BY <3>1, Zenon DEF Arguments, widths
  <2>2. \A s : NextParameter("u32_be", s) = u8s_string_to_u32(s)
    BY DEF NextParameter, next_u32_be
  <2> QED BY <1>1, <2>1, <2>2, Zenon
<1> HIDE DEF from, to
<1>7. PICK n \in Nat : n = Len(SubSeq(chars, a + 1, b))
  BY <1>5, CutAt, Zenon
<1> QED BY <1>4, <1>5, <1>6, <1>7, DigitsRead, Zenon

(* Whatever command the probe runs, its answer is a reply.                 *)
LEMMA Answered ==
  ASSUME NEW body \in Seq(Octet), IsCommand(body),
         NEW args, args = Arguments(CommandOf(body).takes, SubSeq(body, 3, Len(body))),
         NEW o \in Outcomes(CommandOf(body), args)
  PROVE  IsReply(Replied(CommandOf(body).replies, o))
<1>1. PICK c : c = CommandOf(body)
  OBVIOUS
<1>2. Sound(c)
  BY <1>1, CommandFound, Zenon
<1>3. o \in Outcomes(c, args)
  BY <1>1, Zenon
<1>4. Failed(255) \in Numbered
  BY DEF Failed, Numbered
<1>5. CASE c.replies = "string" /\ c.does \notin {"mem_read", "mem_write"}
           /\ \A q \in c.answers : q.values \in Seq(Text)
  <2>1. ~Refused(c.does, args)
    <3>1. Length(c.does, args) = 0
      BY <1>5 DEF Length
    <3> QED BY <3>1, RpcAssumption DEF Refused
  <2>2. o \in c.answers
    BY <1>3, <1>5, <2>1 DEF Outcomes
  <2> QED BY <1>1, <1>5, <2>2, TextReply, Zenon
<1>6. CASE c.replies \in Numeric /\ c.does # "mem_read" /\ c.answers \subseteq Numbered
  <2>1. o \in Numbered
    BY <1>3, <1>4, <1>6 DEF Outcomes
  <2> QED BY <1>1, <1>6, <2>1, NumericReply, Zenon
<1>7. CASE c.replies = "block" /\ c.does = "mem_read" /\ c.takes = BlockTakes
           /\ c.answers \subseteq Numbered
  <2>1. PICK chars \in Seq(Octet) : chars = SubSeq(body, 3, Len(body))
    <3>1. PICK m \in Nat : m = Len(body) /\ m <= Len(body)
      OBVIOUS
    <3>2. 2 \in Nat /\ 2 + 1 = 3
      OBVIOUS
    <3>3. SubSeq(body, 2 + 1, m) \in Seq(Octet)
      BY <3>1, <3>2, CutAt, Zenon
    <3> QED BY <3>1, <3>2, <3>3
  <2>2. PICK n \in Nat : n = args[5]
    BY <1>1, <1>7, <2>1, LengthRead, Zenon
  <2>3. Numbered \subseteq Outcome
    BY DEF Numbered, Outcome
  <2>4. BlockOf(n) \subseteq Outcome
    <3>1. Pattern(n) \in Seq(Nat)
      <4>1. \A i \in 1..n : (37 * i) % 256 \in Nat
        OBVIOUS
      <4>2. Pattern(n) \in [1..n -> Nat]
        BY <4>1, Zenon DEF Pattern
      <4> QED BY <4>2
    <3>2. Done(Pattern(n)) \in Outcome
      BY <3>1 DEF Done, Outcome
    <3> QED BY <3>2, Zenon DEF BlockOf
  <2>5. o \in Outcome
    BY <1>3, <1>4, <1>7, <2>2, <2>3, <2>4 DEF Outcomes
  <2>6. IsReply(Replied("block", o))
    BY <2>5, BlockReply, Zenon
  <2> QED BY <1>1, <1>7, <2>6, Zenon
<1> QED BY <1>2, <1>5, <1>6, <1>7, Zenon DEF Sound

-----------------------------------------------------------------------------
(* What GDB makes of a reply.                                              *)

LEMMA AppendOne ==
  ASSUME NEW S, NEW s \in Seq(S), NEW c \in S
  PROVE  s \o <<c>> = Append(s, c) /\ s \o <<>> = s
OBVIOUS

\* What GDB makes of the jth byte of sent
Undone(sent) ==
  [j \in 1..Len(sent) |->
     IF sent[j] = CHAR_ESCAPE THEN <<>>
     ELSE IF j \in {i \in 2..Len(sent) : sent[i - 1] = CHAR_ESCAPE} THEN <<Flip20(sent[j])>>
     ELSE <<sent[j]>>]

LEMMA UndoneTyped ==
  ASSUME NEW sent \in Seq(Octet)
  PROVE  Undone(sent) \in Seq(Seq(Octet)) /\ Len(Undone(sent)) = Len(sent)
<1>1. PICK n \in Nat : n = Len(sent) /\ \A j \in 1..n : sent[j] \in Octet
  OBVIOUS
<1>2. \A c \in Octet : <<c>> \in Seq(Octet)
  OBVIOUS
<1>3. <<>> \in Seq(Octet)
  OBVIOUS
<1>4. \A j \in 1..n : Undone(sent)[j] \in Seq(Octet)
  <2> TAKE j \in 1..n
  <2>1. sent[j] \in Octet /\ Flip20(sent[j]) \in Octet
    BY <1>1, FlipTyped, Zenon
  <2>2. <<sent[j]>> \in Seq(Octet) /\ <<Flip20(sent[j])>> \in Seq(Octet)
    BY <1>2, <2>1, Zenon
  <2>3. \/ Undone(sent)[j] = <<>> \/ Undone(sent)[j] = <<Flip20(sent[j])>>
        \/ Undone(sent)[j] = <<sent[j]>>
    BY <1>1, Zenon DEF Undone
  <2> QED BY <1>3, <2>2, <2>3, Zenon
<1>5. Undone(sent) \in [1..n -> Seq(Octet)]
  <2>1. Undone(sent) = [j \in 1..n |-> Undone(sent)[j]]
    BY <1>1, Zenon DEF Undone
  <2> QED BY <1>4, <2>1, Zenon
<1> QED BY <1>1, <1>5, FunSeq, Zenon

IsUndone(us, sent, L) ==
  \A j \in 1..L :
    us[j] = IF sent[j] = 125 THEN <<>>
            ELSE IF j \in {i \in 2..L : sent[i - 1] = 125} THEN <<Flip20(sent[j])>>
            ELSE <<sent[j]>>

LEMMA UndoneIs ==
  ASSUME NEW sent, NEW L, L = Len(sent), NEW us, us = Undone(sent)
  PROVE  IsUndone(us, sent, L)
BY Zenon DEF Undone, IsUndone, CHAR_ESCAPE

LEMMA ReplyEscaped ==
  ASSUME NEW r \in Seq(Octet \ {42})
  PROVE  add_u8(r) \in Seq(Octet \ {35, 42}) /\ Unescaped(add_u8(r)) = r
<1>0. r \in Seq(Octet) /\ \A i \in 1..Len(r) : r[i] \in Octet \ {42}
  <2>1. Octet \ {42} \subseteq Octet
    OBVIOUS
  <2> QED BY <2>1, SeqWider, Zenon
<1>1. PICK sent \in Seq(Octet) : sent = add_u8(r) /\ sent = Flatten(Parts(Escaped, r))
  <2>1. Flatten(Parts(Escaped, r)) \in Seq(Octet)
    BY <1>0, IsLaid, Zenon
  <2>2. add_u8(r) = Flatten(Parts(Escaped, r))
    BY Zenon DEF add_u8, Parts
  <2> QED BY <2>1, <2>2, Zenon
<1>2. PICK x \in [0..Len(r) -> Nat] : Laid(x, Escaped, r, sent)
  <2>1. PICK x \in [0..Len(r) -> Nat] : Laid(x, Escaped, r, Flatten(Parts(Escaped, r)))
    BY <1>0, IsLaid, Zenon
  <2> QED BY <1>1, <2>1, Zenon
<1>3. \A c \in Escaped : Flip20(c) \in Octet \ {35, 42, 125} /\ Flip20(Flip20(c)) = c
  <2>1. Escaped \subseteq Special
    BY DEF Escaped, Special, CHAR_ESCAPE2, CHAR_ESCAPE, CHAR_START, CHAR_END
  <2>2. Octet \ Special \subseteq Octet \ {35, 42, 125}
    BY DEF Special
  <2> QED BY <2>1, <2>2, FlipBack, Zenon
<1>4. sent \in Seq(Octet \ {35, 42})
  <2> DEFINE S == Octet \ {35, 42}
  <2>1. PICK n \in Nat : n = Len(r)
    OBVIOUS
  <2>2. Parts(Escaped, r) = [i \in 1..n |-> Parts(Escaped, r)[i]]
    BY <2>1, Zenon DEF Parts
  <2>3. \A i \in 1..n : Parts(Escaped, r)[i] =
          IF r[i] \in Escaped THEN <<125, Flip20(r[i])>> ELSE <<r[i]>>
    <3>1. \A i \in 1..Len(r) : Parts(Escaped, r)[i] =
            IF r[i] \in Escaped THEN <<125, Flip20(r[i])>> ELSE <<r[i]>>
      <4>1. r \in Seq(Octet)
        BY <1>0
      <4>2. IsParted(Parts(Escaped, r), Escaped, r)
        BY <4>1, PartsAt, Zenon
      <4> QED BY <4>2, Zenon DEF IsParted
    <3> QED BY <2>1, <3>1, Zenon
  <2>4. ASSUME NEW i \in 1..n PROVE Parts(Escaped, r)[i] \in Seq(S)
    <3>1. CASE r[i] \in Escaped
      <4>1. Flip20(r[i]) \in S /\ 125 \in S
        <5>1. 125 \in S
          BY DEF Octet
        <5>2. Octet \ {35, 42, 125} \subseteq S
          OBVIOUS
        <5> QED BY <1>3, <3>1, <5>1, <5>2, Zenon
      <4>2. \A a, b \in S : <<a, b>> \in Seq(S)
        OBVIOUS
      <4>3. <<125, Flip20(r[i])>> \in Seq(S)
        BY <4>1, <4>2, Zenon
      <4> QED BY <2>3, <3>1, <4>3, Zenon
    <3>2. CASE r[i] \notin Escaped
      <4>1. r[i] \in S
        <5>1. r[i] \in Octet \ {42}
          BY <1>0, <2>1, Zenon
        <5>2. 35 \in Escaped
          BY DEF Escaped, CHAR_END
        <5> QED BY <3>2, <5>1, <5>2
      <4>2. \A a \in S : <<a>> \in Seq(S)
        OBVIOUS
      <4>3. <<r[i]>> \in Seq(S)
        BY <4>1, <4>2, Zenon
      <4> QED BY <2>3, <3>2, <4>3, Zenon
    <3> QED BY <3>1, <3>2
  <2>5. Parts(Escaped, r) \in Seq(Seq(S))
    <3> HIDE DEF S
    <3>1. Parts(Escaped, r) \in [1..n -> Seq(S)]
      BY <2>2, <2>4, Zenon
    <3> QED BY <3>1, FunSeq, Zenon
  <2> HIDE DEF S
  <2>6. PICK f \in [0..Len(Parts(Escaped, r)) -> Seq(S)] :
          Flatten(Parts(Escaped, r)) = f[Len(Parts(Escaped, r))]
    BY <2>5, FlattenGrows, Zenon
  <2>7. Len(Parts(Escaped, r)) \in 0..Len(Parts(Escaped, r))
    BY <2>5
  <2>8. sent \in Seq(S)
    BY <1>1, <2>6, <2>7, Zenon
  <2> QED BY <2>8 DEF S
<1>5. PICK L \in Nat : L = Len(sent)
  OBVIOUS
<1>6. PICK us \in Seq(Seq(Octet)) : us = Undone(sent) /\ Len(us) = L
  BY <1>5, UndoneTyped, Zenon
<1>7. PICK f \in [0..L -> Seq(Octet)] : Grows(f, us) /\ Flatten(us) = f[L]
  BY <1>6, FlattenGrows, Zenon
<1>8. Unescaped(sent) = f[L]
  BY <1>6, <1>7, Zenon DEF Unescaped, Undone
<1>9. PICK n \in Nat : n = Len(r) /\ 0 \in 0..n /\ n \in 0..n
  OBVIOUS
<1>14. IsUndone(us, sent, L)
  <2>1. us = Undone(sent)
    BY <1>6
  <2> QED BY <1>5, <2>1, UndoneIs, Zenon
<1> DEFINE Clean(y) == y \in 1..L => sent[y] # 125
           A == {i \in 0..n : f[x[i]] = SubSeq(r, 1, i) /\ Clean(x[i])}
<1>10. 0 \in A
  <2>1. x[0] = 0 /\ f[0] = <<>>
    BY <1>2, <1>7, Zenon DEF Laid, Grows
  <2>2. SubSeq(r, 1, 0) = <<>> /\ 0 \notin 1..L
    OBVIOUS
  <2> QED BY <1>9, <2>1, <2>2, Zenon
<1>11. ASSUME NEW i \in 1..n, i - 1 \in A PROVE i \in A
  <2>0. i \in 0..n /\ i - 1 \in 0..n
    OBVIOUS
  <2>1. PICK y \in Nat, z \in Nat : y = x[i - 1] /\ z = x[i]
    BY <1>9, <2>0
  <2>2. PICK c \in Octet : c = r[i]
    BY <1>0, <1>9
  <2>3. /\ z <= L
        /\ IF c \in Escaped THEN z = y + 2 /\ sent[y + 1] = 125 /\ sent[y + 2] = Flip20(c)
                            ELSE z = y + 1 /\ sent[y + 1] = c
    BY <1>2, <1>5, <1>9, <2>1, <2>2, Zenon DEF Laid
  <2>4. PICK b \in Seq(Octet) : b = f[y] /\ SubSeq(r, 1, i) = Append(b, c)
    <3>1. SubSeq(r, 1, i - 1) \in Seq(Octet)
          /\ SubSeq(r, 1, i) = Append(SubSeq(r, 1, i - 1), r[i])
      BY <1>0, <1>9, CutGrows, Zenon
    <3>2. f[y] = SubSeq(r, 1, i - 1)
      BY <1>11, <2>1, Zenon
    <3> QED BY <2>2, <3>1, <3>2, Zenon
  <2>5. Clean(y)
    BY <1>11, <2>1, Zenon
  <2>6. \A j \in 1..L : f[j] = f[j - 1] \o us[j]
    BY <1>6, <1>7, Zenon DEF Grows
  <2> HIDE DEF Clean
  <2>7. CASE c \in Escaped
    <3>1. z = y + 2 /\ sent[y + 1] = 125 /\ sent[y + 2] = Flip20(c)
      BY <2>3, <2>7, Zenon
    <3>2. y + 1 \in 1..L /\ y + 2 \in 1..L /\ y + 2 \in 2..L /\ (y + 1) - 1 = y
          /\ (y + 2) - 1 = y + 1
      BY <2>3, <3>1
    <3>3. sent[y + 2] # 125
      <4>1. Flip20(c) # 125
        BY <1>3, <2>7
      <4> QED BY <3>1, <4>1, Zenon
    <3>4. us[y + 1] = <<>>
      BY <1>14, <3>1, <3>2, Zenon DEF IsUndone
    <3>5. us[y + 2] = <<c>>
      <4>1. us[y + 2] = <<Flip20(sent[y + 2])>>
        <5>1. sent[(y + 2) - 1] = 125
          BY <3>1, <3>2, Zenon
        <5> QED BY <1>14, <3>2, <3>3, <5>1, Zenon DEF IsUndone
      <4> QED BY <1>3, <2>7, <3>1, <4>1, Zenon
    <3>6. f[y + 1] = b
      <4>1. f[y + 1] = b \o <<>>
        BY <2>4, <2>6, <3>2, <3>4, Zenon
      <4> QED BY <2>2, <4>1, AppendOne, Zenon
    <3>7. f[y + 2] = Append(b, c)
      <4>1. f[y + 2] = b \o <<c>>
        BY <2>6, <3>2, <3>5, <3>6, Zenon
      <4> QED BY <4>1, AppendOne, Zenon
    <3>8. Clean(z)
      BY <3>1, <3>3, Zenon DEF Clean
    <3> QED BY <2>0, <2>1, <2>4, <3>1, <3>7, <3>8, Zenon
  <2>8. CASE c \notin Escaped
    <3>1. z = y + 1 /\ sent[y + 1] = c
      BY <2>3, <2>8, Zenon
    <3>2. y + 1 \in 1..L /\ (y + 1) - 1 = y /\ (y + 1 \in 2..L => y \in 1..L)
      BY <2>3, <3>1
    <3>3. sent[y + 1] # 125
      <4>1. 125 \in Escaped
        BY DEF Escaped, CHAR_ESCAPE
      <4> QED BY <2>8, <3>1, <4>1, Zenon
    <3>4. ~(y + 1 \in 2..L /\ sent[(y + 1) - 1] = 125)
      BY <2>5, <3>2, Zenon DEF Clean
    <3>5. us[y + 1] = <<c>>
      <4>1. us[y + 1] = <<sent[y + 1]>>
        BY <1>14, <3>2, <3>3, <3>4, Zenon DEF IsUndone
      <4> QED BY <3>1, <4>1, Zenon
    <3>6. f[y + 1] = Append(b, c)
      <4>1. f[y + 1] = b \o <<c>>
        BY <2>4, <2>6, <3>2, <3>5, Zenon
      <4> QED BY <4>1, AppendOne, Zenon
    <3>7. Clean(z)
      BY <3>1, <3>3, Zenon DEF Clean
    <3> QED BY <2>0, <2>1, <2>4, <3>1, <3>6, <3>7, Zenon
  <2> QED BY <2>7, <2>8
<1>12. \A i \in 0..n : i \in A
  BY <1>10, <1>11, Count
<1>13. f[L] = r
  <2>1. x[n] = L
    BY <1>2, <1>5, <1>9, Zenon DEF Laid
  <2>2. SubSeq(r, 1, n) = r
    BY <1>9
  <2>3. f[x[n]] = SubSeq(r, 1, n)
    BY <1>9, <1>12, Zenon
  <2> QED BY <2>1, <2>2, <2>3, Zenon
<1> QED BY <1>1, <1>4, <1>8, <1>13, Zenon

\* w: c and the n items of a behind it; w: the n items of a and the m of b;
\* w: the items of s behind its ath up to its bth
IsPut(w, c, a, n)     == Len(w) = n + 1 /\ w[1] = c /\ \A j \in 1..n : w[j + 1] = a[j]
IsJoined(w, a, n, b, m) ==
  /\ Len(w) = n + m /\ \A j \in 1..n : w[j] = a[j]
  /\ \A j \in 1..m : w[n + j] = b[j]
IsCut(w, s, a, k)     == Len(w) = k /\ \A i \in 1..k : w[i] = s[a + i]

LEMMA PutAt ==
  ASSUME NEW S, NEW c \in S, NEW a \in Seq(S), NEW n, n = Len(a), NEW w, w = <<c>> \o a
  PROVE  w \in Seq(S) /\ IsPut(w, c, a, n)
<1>1. /\ <<c>> \o a \in Seq(S) /\ Len(<<c>> \o a) = Len(a) + 1
      /\ (<<c>> \o a)[1] = c /\ \A j \in 1..Len(a) : (<<c>> \o a)[j + 1] = a[j]
  BY ConsAt
<1> QED BY <1>1, Zenon DEF IsPut

LEMMA JoinedAt ==
  ASSUME NEW S, NEW a \in Seq(S), NEW b \in Seq(S), NEW n, n = Len(a), NEW m, m = Len(b),
         NEW w, w = a \o b
  PROVE  w \in Seq(S) /\ IsJoined(w, a, n, b, m)
<1>1. /\ a \o b \in Seq(S) /\ Len(a \o b) = Len(a) + Len(b)
      /\ \A j \in 1..Len(a) : (a \o b)[j] = a[j]
      /\ \A j \in 1..Len(b) : (a \o b)[Len(a) + j] = b[j]
  BY ConcatAt
<1> QED BY <1>1, Zenon DEF IsJoined

LEMMA CutIs ==
  ASSUME NEW S, NEW s \in Seq(S), NEW a \in Nat, NEW k \in Nat, NEW b \in Nat, b = a + k,
         b <= Len(s), NEW w, w = SubSeq(s, a + 1, b)
  PROVE  w \in Seq(S) /\ IsCut(w, s, a, k)
<1>1. a <= b /\ b - a = k
  OBVIOUS
<1>2. SubSeq(s, a + 1, b) \in Seq(S)
  BY CutAt
<1>3. Len(SubSeq(s, a + 1, b)) = b - a
  BY <1>1, CutAt
<1>4. \A i \in 1..(b - a) : SubSeq(s, a + 1, b)[i] = s[a + i]
  BY CutAt
<1> QED BY <1>1, <1>2, <1>3, <1>4, Zenon DEF IsCut

\* What GDB finds in the bytes t it has: a reply whose text is sent
Heard(t, sent) ==
  /\ Len(t) >= 2 /\ t[1] = 43 /\ t[2] = 36
  /\ \A last \in 3..(Len(t) - 2) :
       t[last] = 35 /\ (\A i \in 3..(last - 1) : t[i] # 35) =>
         /\ SubSeq(t, 3, last - 1) = sent
         /\ SubSeq(t, last, last + 2) = end(sent)
         /\ SubSeq(t, last + 3, Len(t)) = <<>>

(* A reply ends at its first '#'.                                          *)
LEMMA ReplyHeard ==
  ASSUME NEW r \in Seq(Octet \ {42})
  PROVE  /\ <<CHAR_ACK>> \o simple_send(r) \in Seq(Octet)
         /\ Heard(<<CHAR_ACK>> \o simple_send(r), add_u8(r))
<1>1. PICK sent \in Seq(Octet \ {35, 42}) : sent = add_u8(r)
  BY ReplyEscaped, Zenon
<1>2. sent \in Seq(Octet) /\ sent \in Seq(Nat) /\ \A j \in 1..Len(sent) : sent[j] # 35
  <2>1. Octet \ {35, 42} \subseteq Octet /\ Octet \ {35, 42} \subseteq Nat
        /\ \A c \in Octet \ {35, 42} : c # 35
    BY DEF Octet
  <2> QED BY <2>1, SeqWider, Zenon
<1>3. PICK L \in Nat : L = Len(sent)
  OBVIOUS
<1>4. PICK a \in Octet, b \in Octet : end(sent) = <<35>> \o <<a, b>>
  <2>1. PICK s \in Nat : s = Sum(sent)
    <3>1. PICK g \in [0..L -> Nat] : Sum(sent) = g[L]
      BY <1>2, <1>3, SumAdds, Zenon
    <3>2. L \in 0..L
      OBVIOUS
    <3> QED BY <3>1, <3>2, Zenon
  <2>2. s % 256 \in Octet
    BY LowByte, Zenon
  <2>3. PICK a \in Digits, b \in Digits : u8_to_ascii(s % 256) = <<a, b>>
    BY <2>2, OctetRead, Zenon
  <2>4. a \in Octet /\ b \in Octet
    BY DEF Digits, Octet
  <2> QED BY <2>1, <2>3, <2>4, Zenon DEF end, CHAR_END
<1>5. PICK e \in Seq(Octet) : e = end(sent) /\ Len(e) = 3 /\ e[1] = 35 /\ e[2] = a /\ e[3] = b
  <2>1. 35 \in Octet
    BY DEF Octet
  <2>2. end(sent) = <<35, a, b>>
    BY <1>4, <2>1, ThreeBytes, Zenon
  <2>3. <<35, a, b>> \in Seq(Octet)
    BY <2>1
  <2> QED BY <2>2, <2>3
<1>6. PICK t : t = <<43>> \o (<<36>> \o sent \o e)
  OBVIOUS
<1>7. t = <<CHAR_ACK>> \o simple_send(r)
  BY <1>1, <1>5, <1>6, Zenon DEF simple_send, CHAR_ACK, CHAR_START
<1>8. /\ t \in Seq(Octet) /\ Len(t) = L + 5 /\ t[1] = 43 /\ t[2] = 36
      /\ \A j \in 1..L : t[j + 2] = sent[j]
      /\ t[L + 3] = 35 /\ t[L + 4] = a /\ t[L + 5] = b
  <2>1. 43 \in Octet /\ 36 \in Octet
    BY DEF Octet
  <2>2. PICK h \in Seq(Octet) : h = <<36>> \o sent /\ Len(h) = L + 1 /\ h[1] = 36
                                /\ \A j \in 1..L : h[j + 1] = sent[j]
    <3>1. PICK h : h = <<36>> \o sent
      OBVIOUS
    <3>2. h \in Seq(Octet) /\ IsPut(h, 36, sent, L)
      BY <1>2, <1>3, <2>1, <3>1, PutAt, Zenon
    <3> QED BY <3>1, <3>2, Zenon DEF IsPut
  <2>3. PICK u \in Seq(Octet) : u = h \o e /\ Len(u) = (L + 1) + 3
             /\ (\A j \in 1..(L + 1) : u[j] = h[j]) /\ \A j \in 1..3 : u[(L + 1) + j] = e[j]
    <3>1. PICK u : u = h \o e
      OBVIOUS
    <3>2. u \in Seq(Octet) /\ IsJoined(u, h, L + 1, e, 3)
      BY <1>5, <2>2, <3>1, JoinedAt, Zenon
    <3> QED BY <3>1, <3>2, Zenon DEF IsJoined
  <2>4. t = <<43>> \o u
    BY <1>6, <2>2, <2>3, Zenon
  <2>6. PICK m \in Nat : m = Len(u) /\ m = L + 4
    BY <2>3
  <2>5. /\ t \in Seq(Octet) /\ Len(t) = m + 1 /\ t[1] = 43
        /\ \A j \in 1..m : t[j + 1] = u[j]
    <3>1. t \in Seq(Octet) /\ IsPut(t, 43, u, m)
      BY <2>1, <2>4, <2>6, PutAt, Zenon
    <3> QED BY <3>1, Zenon DEF IsPut
  <2>7. Len(t) = L + 5
    BY <2>5, <2>6
  <2>8. t[2] = 36
    <3>1. 1 \in 1..m /\ 1 \in 1..(L + 1) /\ 1 + 1 = 2
      BY <2>6
    <3>2. t[1 + 1] = u[1] /\ u[1] = h[1]
      BY <2>3, <2>5, <3>1, Zenon
    <3> QED BY <2>2, <3>1, <3>2
  <2>9. ASSUME NEW j \in 1..L PROVE t[j + 2] = sent[j]
    <3>1. j + 1 \in 1..m /\ j + 1 \in 1..(L + 1) /\ (j + 1) + 1 = j + 2
      BY <2>6
    <3>2. t[(j + 1) + 1] = u[j + 1]
      BY <2>5, <3>1, Zenon
    <3>3. u[j + 1] = h[j + 1] /\ h[j + 1] = sent[j]
      BY <2>2, <2>3, <3>1, Zenon
    <3> QED BY <3>1, <3>2, <3>3
  <2>10. ASSUME NEW j \in 1..3 PROVE t[((L + 1) + j) + 1] = e[j]
    <3>1. (L + 1) + j \in 1..m
      BY <2>6
    <3> QED BY <2>3, <2>5, <3>1, Zenon
  <2>11. 1 \in 1..3 /\ 2 \in 1..3 /\ 3 \in 1..3
    OBVIOUS
  <2>12. ((L + 1) + 1) + 1 = L + 3 /\ ((L + 1) + 2) + 1 = L + 4 /\ ((L + 1) + 3) + 1 = L + 5
    OBVIOUS
  <2>13. t[((L + 1) + 1) + 1] = 35 /\ t[((L + 1) + 2) + 1] = a /\ t[((L + 1) + 3) + 1] = b
    BY <1>5, <2>10, <2>11, Zenon
  <2>14. t[L + 3] = 35 /\ t[L + 4] = a /\ t[L + 5] = b
    BY <2>12, <2>13
  <2> QED BY <2>5, <2>7, <2>8, <2>9, <2>14, Zenon
<1>9. ASSUME NEW last \in 3..(Len(t) - 2), t[last] = 35, \A i \in 3..(last - 1) : t[i] # 35
      PROVE  /\ SubSeq(t, 3, last - 1) = sent
             /\ SubSeq(t, last, last + 2) = end(sent)
             /\ SubSeq(t, last + 3, Len(t)) = <<>>
  <2>0. last \in Nat /\ last >= 3 /\ last <= L + 3 + 0
    <3>1. last \in 3..(L + 3)
      BY <1>8
    <3> QED BY <3>1
  <2>1. last = L + 3
    <3>1. CASE last < L + 3
      <4>1. last - 2 \in 1..L /\ (last - 2) + 2 = last
        BY <2>0, <3>1
      <4>2. t[(last - 2) + 2] = sent[last - 2] /\ sent[last - 2] # 35
        BY <1>2, <1>3, <1>8, <4>1, Zenon
      <4> QED BY <1>9, <4>1, <4>2
    <3> QED BY <2>0, <3>1
  <2>2. SubSeq(t, 3, last - 1) = sent
    <3>1. PICK s : s = SubSeq(t, 2 + 1, L + 2)
      OBVIOUS
    <3>2. 2 \in Nat /\ L + 2 \in Nat /\ L + 2 <= Len(t) /\ 2 <= L + 2 /\ (L + 2) - 2 = L
      BY <1>8
    <3>3. s \in Seq(Octet) /\ Len(s) = (L + 2) - 2 /\ \A i \in 1..((L + 2) - 2) : s[i] = t[2 + i]
      <4>1. L + 2 = 2 + L
        OBVIOUS
      <4>2. s \in Seq(Octet) /\ IsCut(s, t, 2, L)
        BY <1>8, <3>1, <3>2, <4>1, CutIs, Zenon
      <4> QED BY <3>2, <4>2, Zenon DEF IsCut
    <3>4. ASSUME NEW i \in 1..L PROVE s[i] = sent[i]
      <4>1. 2 + i = i + 2
        OBVIOUS
      <4>2. s[i] = t[2 + i]
        BY <3>2, <3>3, Zenon
      <4> QED BY <1>8, <4>1, <4>2, Zenon
    <3>5. Len(s) = L
      BY <3>2, <3>3, Zenon
    <3>6. s = sent
      BY <1>2, <1>3, <3>3, <3>4, <3>5, SeqEqual, Zenon
    <3>7. 2 + 1 = 3 /\ last - 1 = L + 2
      BY <2>1
    <3> QED BY <3>1, <3>6, <3>7
  <2>3. SubSeq(t, last, last + 2) = end(sent)
    <3>1. PICK s : s = SubSeq(t, (L + 2) + 1, L + 5)
      OBVIOUS
    <3>2. L + 2 \in Nat /\ L + 5 \in Nat /\ L + 5 <= Len(t) /\ L + 2 <= L + 5
          /\ (L + 5) - (L + 2) = 3
      BY <1>8
    <3>3. s \in Seq(Octet) /\ Len(s) = (L + 5) - (L + 2)
          /\ \A i \in 1..((L + 5) - (L + 2)) : s[i] = t[(L + 2) + i]
      <4>1. L + 5 = (L + 2) + 3 /\ 3 \in Nat
        OBVIOUS
      <4>2. s \in Seq(Octet) /\ IsCut(s, t, L + 2, 3)
        BY <1>8, <3>1, <3>2, <4>1, CutIs, Zenon
      <4> QED BY <3>2, <4>2, Zenon DEF IsCut
    <3>4. ASSUME NEW i \in 1..3 PROVE s[i] = e[i]
      <4>1. s[i] = t[(L + 2) + i]
        BY <3>2, <3>3, Zenon
      <4>2. i = 1 \/ i = 2 \/ i = 3
        OBVIOUS
      <4>3. (L + 2) + 1 = L + 3 /\ (L + 2) + 2 = L + 4 /\ (L + 2) + 3 = L + 5
        OBVIOUS
      <4> QED BY <1>5, <1>8, <4>1, <4>2, <4>3
    <3>5. Len(s) = 3
      BY <3>2, <3>3, Zenon
    <3>6. s = e
      BY <1>5, <3>3, <3>4, <3>5, SeqEqual, Zenon
    <3>7. (L + 2) + 1 = last /\ L + 5 = last + 2
      BY <2>1
    <3> QED BY <1>5, <3>1, <3>6, <3>7
  <2>4. SubSeq(t, last + 3, Len(t)) = <<>>
    <3>1. last + 3 \in Int /\ Len(t) \in Int /\ Len(t) < last + 3
      BY <1>8, <2>1
    <3> QED BY <3>1, SubSeqEmpty, Zenon
  <2> QED BY <2>2, <2>3, <2>4
<1>10. Len(t) >= 2
  BY <1>8
<1>11. Heard(t, sent)
  BY <1>8, <1>9, <1>10, Zenon DEF Heard
<1> QED BY <1>1, <1>7, <1>8, <1>11, Zenon

-----------------------------------------------------------------------------
(* The line: what the probe has still to parse, rest, and its decoder d.   *)

\* Bytes that start nothing
Harmless == Octet \ {36, 33}

\* Nothing asked for is under way
Still(rest, d) == d = IdleDecoder /\ \A i \in 1..Len(rest) : rest[i] \in Harmless

\* k bytes of W are parsed; in rest are those behind, up to the mth at most,
\* between harmless bytes
Coming(rest, d, W, dec, m, k) ==
  /\ k < m
  /\ d = IF k >= 0 THEN dec[k] ELSE IdleDecoder
  /\ \A i \in 1..Len(rest) :
       IF k + i \in 1..m THEN rest[i] = W[k + i] ELSE rest[i] \in Harmless

\* A packet or call of this body is under way, and nothing else; none of it
\* is lost yet unless who is nobody
Ahead(rest, d, how, body, who) ==
  \E W \in Seq(Octet), k \in Int : \E dec, m :
    /\ Script(W, dec, m, how, body)
    /\ Coming(rest, d, W, dec, m, k)
    /\ who # "none" => k + Len(rest) >= m

LEMMA HarmlessIs == \A c \in Harmless : c \in Octet /\ c \in Nat /\ c # 36 /\ c # 33
BY DEF Harmless, Octet

LEMMA TailIs ==
  ASSUME NEW s \in Seq(Octet), s # <<>>
  PROVE  /\ Len(s) \in Nat /\ Len(s) >= 1 /\ s[1] \in Octet
         /\ Tail(s) \in Seq(Octet) /\ Len(Tail(s)) = Len(s) - 1
         /\ \A i \in 1..(Len(s) - 1) : Tail(s)[i] = s[i + 1]
<1> HIDE DEF Octet
<1> QED OBVIOUS

LEMMA StillTurn ==
  ASSUME NEW rest \in Seq(Octet), rest # <<>>, NEW d, Still(rest, d)
  PROVE  /\ Feed(d, rest[1]) = IdleDecoder /\ Feed(d, rest[1]).automaton \notin EndStates
         /\ Still(Tail(rest), IdleDecoder)
<1>1. PICK L \in Nat : /\ L = Len(rest) /\ L >= 1 /\ Len(Tail(rest)) = L - 1
                       /\ \A i \in 1..(L - 1) : Tail(rest)[i] = rest[i + 1]
  BY TailIs, Zenon
<1>2. rest[1] \in Harmless
  <2>1. 1 \in 1..L
    BY <1>1
  <2> QED BY <1>1, <2>1, Zenon DEF Still
<1>3. rest[1] \in Nat /\ rest[1] # 36 /\ rest[1] # 33
  BY <1>2, HarmlessIs, Zenon
<1>4. Feed(At("Idle", <<>>, 0, 0), rest[1]) = At("Idle", <<>>, 0, 0)
  BY <1>3, IdleWaits, Zenon
<1>5. IdleDecoder = At("Idle", <<>>, 0, 0)
  BY Zenon DEF IdleDecoder, At
<1>6. Feed(d, rest[1]) = IdleDecoder
  BY <1>4, <1>5, Zenon DEF Still
<1>7. IdleDecoder.automaton \notin EndStates
  BY DEF IdleDecoder, EndStates
<1>8. ASSUME NEW i \in 1..(L - 1) PROVE Tail(rest)[i] \in Harmless
  <2>1. i + 1 \in 1..L
    BY <1>1
  <2> QED BY <1>1, <2>1, Zenon DEF Still
<1> QED BY <1>1, <1>6, <1>7, <1>8, Zenon DEF Still

(* Something asked for starts behind whatever is left over.                *)
LEMMA AheadStarts ==
  ASSUME NEW rest \in Seq(Octet), NEW d, Still(rest, d),
         NEW W \in Seq(Octet), NEW dec, NEW m, NEW how, NEW body,
         Script(W, dec, m, how, body), NEW who
  PROVE  Ahead(rest \o W, d, how, body, who)
<1>0. Len(rest) \in Nat /\ Len(W) \in Nat
  OBVIOUS
<1>1. PICK L \in Nat, n \in Nat : L = Len(rest) /\ n = Len(W)
  BY <1>0, Zenon
<1> DEFINE r == rest \o W
<1> HIDE DEF r
<1>2. r \in Seq(Octet) /\ IsJoined(r, rest, L, W, n)
  BY <1>1, JoinedAt, Zenon DEF r
<1>3. m \in 1..n /\ \A j \in (m + 1)..n : W[j] \notin {CHAR_START, RPC_START}
  BY <1>1, Zenon DEF Script
<1>4. \A j \in 1..n : W[j] \in Octet
  BY <1>1
<1>5. PICK k \in Int : k = -L
  BY <1>1
<1>6. Len(r) = L + n
  BY <1>2, Zenon DEF IsJoined
<1>7. ASSUME NEW i \in 1..(L + n)
      PROVE  IF k + i \in 1..m THEN r[i] = W[k + i] ELSE r[i] \in Harmless
  <2>1. CASE i \in 1..L
    <3>1. r[i] = rest[i] /\ rest[i] \in Harmless
      BY <1>1, <1>2, <2>1, Zenon DEF IsJoined, Still
    <3>2. k + i \notin 1..m
      BY <1>3, <1>5, <2>1
    <3> QED BY <3>1, <3>2, Zenon
  <2>2. CASE i \notin 1..L
    <3>1. PICK j \in 1..n : i = L + j /\ k + i = j
      BY <1>5, <2>2
    <3>2. r[i] = W[j]
      BY <1>2, <3>1, Zenon DEF IsJoined
    <3>3. CASE j \in 1..m
      BY <3>1, <3>2, <3>3, Zenon
    <3>4. CASE j \notin 1..m
      <4>1. j \in (m + 1)..n
        BY <1>3, <3>1, <3>4
      <4>2. W[j] \in Octet /\ W[j] \notin {CHAR_START, RPC_START}
        BY <1>3, <1>4, <3>1, <4>1, Zenon
      <4>3. W[j] \in Harmless
        BY <4>2 DEF Harmless, CHAR_START, RPC_START
      <4> QED BY <3>1, <3>2, <3>4, <4>3, Zenon
    <3> QED BY <3>3, <3>4
  <2> QED BY <2>1, <2>2
<1>8. k < m /\ k + (L + n) >= m /\ (k >= 0 => k = 0)
  BY <1>1, <1>3, <1>5
<1>9. d = IF k >= 0 THEN dec[k] ELSE IdleDecoder
  <2>1. dec[0] = IdleDecoder
    BY Zenon DEF Script, Machine
  <2>2. d = IdleDecoder
    BY Zenon DEF Still
  <2> QED BY <1>8, <2>1, <2>2, Zenon
<1>10. Coming(r, d, W, dec, m, k)
  BY <1>6, <1>7, <1>8, <1>9, Zenon DEF Coming
<1>11. Ahead(r, d, how, body, who)
  <2>1. k + Len(r) >= m
    BY <1>6, <1>8, Zenon
  <2> QED BY <1>10, <2>1, Zenon DEF Ahead
<1> QED BY <1>11, Zenon DEF r

\* The packet or call goes on in t, or it is complete
Turned(fed, t, how, body, who) ==
  \/ fed.automaton \notin EndStates /\ Ahead(t, fed, how, body, who)
  \/ fed.automaton = how /\ fed.buffer = body /\ Still(t, IdleDecoder)

(* A byte parsed: either the packet or call goes on, or it is complete.    *)
LEMMA AheadTurn ==
  ASSUME NEW rest \in Seq(Octet), rest # <<>>, NEW d, NEW how, NEW body, NEW who,
         Ahead(rest, d, how, body, who), NEW fed, fed = Feed(d, rest[1])
  PROVE  Turned(fed, Tail(rest), how, body, who)
<1>1. PICK W \in Seq(Octet), k \in Int : \E dec, m :
        /\ Script(W, dec, m, how, body) /\ Coming(rest, d, W, dec, m, k)
        /\ who # "none" => k + Len(rest) >= m
  BY Zenon DEF Ahead
<1>0. PICK dec, m :
        /\ Script(W, dec, m, how, body) /\ Coming(rest, d, W, dec, m, k)
        /\ who # "none" => k + Len(rest) >= m
  BY <1>1, Zenon
<1>2. PICK L \in Nat : /\ L = Len(rest) /\ L >= 1 /\ Len(Tail(rest)) = L - 1
                       /\ \A i \in 1..(L - 1) : Tail(rest)[i] = rest[i + 1]
  BY TailIs, Zenon
<1>3. PICK n \in Nat : n = Len(W)
  OBVIOUS
<1>4. /\ m \in 1..n /\ Machine(dec, W)
      /\ \A j \in 1..(m - 1) : Feed(dec[j - 1], W[j]).automaton \notin EndStates
      /\ Feed(dec[m - 1], W[m]).automaton = how /\ Feed(dec[m - 1], W[m]).buffer = body
  BY <1>0, <1>3, Zenon DEF Script
<1>5. /\ k < m /\ d = IF k >= 0 THEN dec[k] ELSE IdleDecoder
      /\ \A i \in 1..L : IF k + i \in 1..m THEN rest[i] = W[k + i] ELSE rest[i] \in Harmless
  BY <1>0, <1>2, Zenon DEF Coming
<1>6. \A i \in 1..(L - 1) : IF (k + 1) + i \in 1..m THEN Tail(rest)[i] = W[(k + 1) + i]
                            ELSE Tail(rest)[i] \in Harmless
  <2> TAKE i \in 1..(L - 1)
  <2>1. i + 1 \in 1..L /\ k + (i + 1) = (k + 1) + i
    BY <1>2
  <2>2. IF k + (i + 1) \in 1..m THEN rest[i + 1] = W[k + (i + 1)] ELSE rest[i + 1] \in Harmless
    BY <1>5, <2>1, Zenon
  <2> QED BY <1>2, <2>1, <2>2, Zenon
<1>7. 1 \in 1..L /\ k + 1 \in Int
  BY <1>2
<1>8. who # "none" => (k + 1) + (L - 1) >= m
  <2>1. who # "none" => k + L >= m
    BY <1>0, <1>2, Zenon
  <2>2. (k + 1) + (L - 1) = k + L
    BY <1>2
  <2> QED BY <2>1, <2>2
<1>9. ASSUME k + 1 < m, fed = IF k + 1 >= 0 THEN dec[k + 1] ELSE IdleDecoder
      PROVE  Ahead(Tail(rest), fed, how, body, who)
  <2>1. Coming(Tail(rest), fed, W, dec, m, k + 1)
    BY <1>2, <1>6, <1>9, Zenon DEF Coming
  <2>2. who # "none" => (k + 1) + Len(Tail(rest)) >= m
    BY <1>2, <1>8, Zenon
  <2> QED BY <1>0, <1>7, <2>1, <2>2, Zenon DEF Ahead
<1>10. CASE k < 0
  <2>1. k + 1 \notin 1..m /\ k + 1 < m /\ ~(k >= 0) /\ (k + 1 >= 0 => k + 1 = 0)
    BY <1>4, <1>10
  <2>2. rest[1] \in Harmless /\ d = IdleDecoder
    BY <1>5, <1>7, <2>1, Zenon
  <2>3. PICK c \in Harmless : c = rest[1]
    BY <2>2
  <2>4. c \in Nat /\ c # 36 /\ c # 33
    BY <2>3, HarmlessIs, Zenon
  <2>5. fed = IdleDecoder
    <3>1. Feed(At("Idle", <<>>, 0, 0), c) = At("Idle", <<>>, 0, 0)
      BY <2>4, IdleWaits, Zenon
    <3>2. IdleDecoder = At("Idle", <<>>, 0, 0)
      BY Zenon DEF IdleDecoder, At
    <3> QED BY <2>2, <2>3, <3>1, <3>2, Zenon
  <2>6. fed.automaton \notin EndStates
    BY <2>5 DEF IdleDecoder, EndStates
  <2>7. dec[0] = IdleDecoder
    BY <1>4, Zenon DEF Machine
  <2>8. fed = IF k + 1 >= 0 THEN dec[k + 1] ELSE IdleDecoder
    BY <2>1, <2>5, <2>7, Zenon
  <2> QED BY <1>9, <2>1, <2>6, <2>8, Zenon DEF Turned
<1>11. CASE k >= 0
  <2>1. k + 1 \in 1..m /\ k + 1 \in 1..n /\ (k + 1) - 1 = k /\ k + 1 >= 0
    BY <1>4, <1>5, <1>11
  <2>2. rest[1] = W[k + 1] /\ d = dec[k]
    BY <1>5, <1>7, <1>11, <2>1, Zenon
  <2>3. fed = Feed(dec[k], W[k + 1])
    BY <2>2, Zenon
  <2>4. CASE k + 1 < m
    <3>1. k + 1 \in 1..(m - 1)
      BY <1>4, <2>1, <2>4
    <3>2. fed.automaton \notin EndStates
      BY <1>4, <2>1, <2>3, <3>1, Zenon
    <3>3. dec[k + 1] = After(dec[k], W[k + 1])
      BY <1>3, <1>4, <2>1, Zenon DEF Machine
    <3>4. fed = IF k + 1 >= 0 THEN dec[k + 1] ELSE IdleDecoder
      BY <2>1, <2>3, <3>2, <3>3, Zenon DEF After
    <3> QED BY <1>9, <2>4, <3>2, <3>4, Zenon DEF Turned
  <2>5. CASE ~(k + 1 < m)
    <3>1. m = k + 1 /\ m - 1 = k
      BY <1>4, <1>5, <2>5
    <3>2. fed.automaton = how /\ fed.buffer = body
      BY <1>4, <2>3, <3>1
    <3>3. ASSUME NEW i \in 1..(L - 1) PROVE Tail(rest)[i] \in Harmless
      <4>1. (k + 1) + i \notin 1..m
        BY <1>2, <3>1
      <4> QED BY <1>6, <4>1, Zenon
    <3>4. Still(Tail(rest), IdleDecoder)
      BY <1>2, <3>3, Zenon DEF Still
    <3> QED BY <3>2, <3>4, Zenon DEF Turned
  <2> QED BY <2>4, <2>5
<1> QED BY <1>10, <1>11

\* t: the first items of s
IsPrefix2(t, s) == Len(t) <= Len(s) /\ \A i \in 1..Len(t) : t[i] = s[i]

(* What is lost at the end leaves the line as it was.                      *)
LEMMA LineCut ==
  ASSUME NEW rest \in Seq(Octet), NEW t \in Seq(Octet), IsPrefix2(t, rest), NEW d
  PROVE  /\ Still(rest, d) => Still(t, d)
         /\ \A how, body, who : Ahead(rest, d, how, body, who) => Ahead(t, d, how, body, "none")
<1>1. PICK a \in Nat, b \in Nat : a = Len(t) /\ b = Len(rest)
  OBVIOUS
<1>2. \A i \in 1..a : i \in 1..b /\ t[i] = rest[i]
  <2>1. a <= b /\ \A i \in 1..a : t[i] = rest[i]
    BY <1>1, Zenon DEF IsPrefix2
  <2> QED BY <2>1
<1>3. Still(rest, d) => Still(t, d)
  BY <1>1, <1>2, Zenon DEF Still
<1>4. ASSUME NEW how, NEW body, NEW who, Ahead(rest, d, how, body, who)
      PROVE  Ahead(t, d, how, body, "none")
  <2>1. PICK W \in Seq(Octet), k \in Int : \E dec, m :
          Script(W, dec, m, how, body) /\ Coming(rest, d, W, dec, m, k)
    BY <1>4, Zenon DEF Ahead
  <2>2. PICK dec, m : Script(W, dec, m, how, body) /\ Coming(rest, d, W, dec, m, k)
    BY <2>1, Zenon
  <2>3. Coming(t, d, W, dec, m, k)
    BY <1>1, <1>2, <2>2, Zenon DEF Coming
  <2> QED BY <2>2, <2>3, Zenon DEF Ahead
<1> QED BY <1>3, <1>4, Zenon

-----------------------------------------------------------------------------
(* What is left to parse, chunk behind which toProbe comes, as bytes move. *)

LEMMA ReceiveKeeps ==
  ASSUME NEW s \in Seq(Octet), NEW n \in Nat, n <= Len(s)
  PROVE  /\ SubSeq(s, 1, n) \in Seq(Octet) /\ SubSeq(s, n + 1, Len(s)) \in Seq(Octet)
         /\ SubSeq(s, 1, n) \o SubSeq(s, n + 1, Len(s)) = s
<1>1. PICK L \in Nat, k \in Nat : L = Len(s) /\ L = n + k
  <2>1. Len(s) \in Nat
    OBVIOUS
  <2>2. \A L \in Nat : n <= L => L - n \in Nat /\ L = n + (L - n)
    OBVIOUS
  <2> QED BY <2>1, <2>2, Zenon
<1> DEFINE a == SubSeq(s, 0 + 1, n)
           b == SubSeq(s, n + 1, L)
<1> HIDE DEF a, b
<1>2. 0 \in Nat /\ n = 0 + n /\ 0 + 1 = 1 /\ L <= L
  OBVIOUS
<1>3. a \in Seq(Octet) /\ IsCut(a, s, 0, n)
  BY <1>2, CutIs, Zenon DEF a
<1>4. b \in Seq(Octet) /\ IsCut(b, s, n, k)
  <2>1. L <= Len(s)
    BY <1>1, <1>2
  <2> QED BY <1>1, <2>1, CutIs, Zenon DEF b
<1> DEFINE t == a \o b
<1> HIDE DEF t
<1>5. t \in Seq(Octet) /\ IsJoined(t, a, n, b, k)
  <2>1. n = Len(a) /\ k = Len(b)
    BY <1>3, <1>4, Zenon DEF IsCut
  <2> QED BY <1>3, <1>4, <2>1, JoinedAt, Zenon DEF t
<1>6. ASSUME NEW i \in 1..L PROVE t[i] = s[i]
  <2>1. CASE i \in 1..n
    <3>1. t[i] = a[i] /\ a[i] = s[0 + i]
      BY <1>3, <1>5, <2>1, Zenon DEF IsJoined, IsCut
    <3>2. 0 + i = i
      OBVIOUS
    <3> QED BY <3>1, <3>2
  <2>2. CASE i \notin 1..n
    <3>1. PICK j \in 1..k : i = n + j
      BY <1>1, <2>2
    <3> QED BY <1>4, <1>5, <3>1, Zenon DEF IsJoined, IsCut
  <2> QED BY <2>1, <2>2
<1>7. t = s
  <2>1. Len(t) = L
    BY <1>1, <1>5, Zenon DEF IsJoined
  <2> QED BY <1>1, <1>5, <1>6, <2>1, SeqEqual, Zenon
<1> QED BY <1>1, <1>2, <1>3, <1>4, <1>7, Zenon DEF a, b, t

LEMMA ParseKeeps ==
  ASSUME NEW a \in Seq(Octet), NEW b \in Seq(Octet), a # <<>>
  PROVE  /\ a \o b \in Seq(Octet) /\ a \o b # <<>> /\ (a \o b)[1] = a[1]
         /\ Tail(a) \in Seq(Octet) /\ Tail(a) \o b = Tail(a \o b)
<1> HIDE DEF Octet
<1> QED OBVIOUS

LEMMA AsksKeeps ==
  ASSUME NEW a \in Seq(Octet), NEW b \in Seq(Octet), NEW c \in Seq(Octet)
  PROVE  a \o b \in Seq(Octet) /\ b \o c \in Seq(Octet) /\ a \o (b \o c) = (a \o b) \o c
<1> HIDE DEF Octet
<1> QED OBVIOUS

LEMMA CloseKeeps ==
  ASSUME NEW a \in Seq(Octet), NEW b \in Seq(Octet), NEW n \in Nat, n <= Len(b)
  PROVE  /\ a \o b \in Seq(Octet) /\ SubSeq(b, 1, n) \in Seq(Octet)
         /\ a \o SubSeq(b, 1, n) \in Seq(Octet)
         /\ IsPrefix2(a \o SubSeq(b, 1, n), a \o b)
<1> DEFINE c == SubSeq(b, 1, n)
           d == SubSeq(b, n + 1, Len(b))
<1>1. c \in Seq(Octet) /\ d \in Seq(Octet) /\ c \o d = b
  BY ReceiveKeeps, Zenon
<1> HIDE DEF c, d
<1>2. a \o c \in Seq(Octet) /\ a \o b = (a \o c) \o d
  <2>1. \A x, y, z \in Seq(Octet) : x \o y \in Seq(Octet) /\ x \o (y \o z) = (x \o y) \o z
    BY AsksKeeps
  <2>2. a \o c \in Seq(Octet) /\ a \o (c \o d) = (a \o c) \o d
    <3>1. c \in Seq(Octet) /\ d \in Seq(Octet)
      BY <1>1
    <3> QED BY <2>1, <3>1, Zenon
  <2> QED BY <1>1, <2>2, Zenon
<1> DEFINE t == a \o c
           r == t \o d
<1> HIDE DEF t, r
<1>3. PICK m \in Nat, k \in Nat : m = Len(t) /\ k = Len(d)
  <2>1. \A s \in Seq(Octet) : Len(s) \in Nat
    OBVIOUS
  <2> QED BY <1>1, <1>2, <2>1, Zenon DEF t
<1>4. r \in Seq(Octet) /\ IsJoined(r, t, m, d, k)
  BY <1>1, <1>2, <1>3, JoinedAt, Zenon DEF r, t
<1>5. IsPrefix2(t, r)
  <2>1. m <= m + k
    OBVIOUS
  <2> QED BY <1>3, <1>4, <2>1, Zenon DEF IsJoined, IsPrefix2
<1> QED BY <1>1, <1>2, <1>4, <1>5, Zenon DEF c, t, r

-----------------------------------------------------------------------------
(* The invariant.  While no client has sent more than the buffer holds:    *)
(* nothing was asked and the line is empty; or what was asked last is      *)
(* under way, whole unless its client is gone; or it is executed, and what *)
(* is left on the line starts nothing.                                     *)

How  == IF asked.by = "gdb" THEN "Done" ELSE "RpcDone"
Unparsed == chunk \o toProbe

IsAsked ==
  /\ asked.by \in {"gdb", "hosted"} /\ client \in {"none", asked.by}
  /\ AskedBytes \in Seq(Octet) \ {<<>>}

Unasked ==
  /\ asked = Nobody /\ learnt = NotYet /\ executed = <<>>
  /\ Unparsed = <<>> /\ decoder = IdleDecoder

Going ==
  /\ IsAsked /\ executed = <<>> /\ (client # "none" => learnt = NotYet)
  /\ Ahead(Unparsed, decoder, How, AskedBytes, client)

Over == IsAsked /\ executed = <<AskedBytes>> /\ Still(Unparsed, decoder)

OnLine ==
  /\ chunk \in Seq(Octet) /\ toProbe \in Seq(Octet)
  /\ Unasked \/ Going \/ Over

\* The answer is on its way
Answering == executed # <<>> /\ learnt = NotYet

NoReply(s)  == \A i \in 1..Len(s) : s[i] # RPC_REMOTE_RESP
OneReplyIn(s) ==
  \A i, j \in 1..Len(s) : s[i] = RPC_REMOTE_RESP /\ s[j] = RPC_REMOTE_RESP => i = j

\* What is on its way to the client: the answer, behind it and before it only
\* what a hosted build skips
Answers ==
  /\ client \in {"none", "gdb", "hosted"}
  /\ client = "none" => toHost = <<>>
  /\ client = "gdb" =>
       IF Answering THEN made.values \in Replies
                         /\ toHost = <<CHAR_ACK>> \o simple_send(made.values)
                    ELSE toHost = <<>>
  /\ client = "hosted" =>
       /\ toHost \in Seq(Nat)
       /\ IF Answering THEN OneReplyIn(toHost) ELSE NoReply(toHost)

\* What GDB has made of the answer
Understood ==
  asked.by = "gdb" =>
    \/ learnt = NotYet \/ learnt = Told("gone", <<>>)
    \/ executed # <<>> /\ learnt = Told("heard", made.values)

LinkInv == OnLine /\ Answers /\ Understood

LEMMA SameAsked == asked' = asked => AskedBytes' = AskedBytes /\ How' = How
BY Zenon DEF AskedBytes, How

LEMMA SameRest == chunk' = chunk /\ toProbe' = toProbe => Unparsed' = Unparsed
BY Zenon DEF Unparsed

LEMMA NobodyIs == Nobody.by \notin {"gdb", "hosted"}
BY DEF Nobody

LEMMA ToldsDiffer ==
  /\ \A v : Told("heard", v) # NotYet /\ Told("gone", v) # NotYet
  /\ \A v : Told("heard", v).status = "heard"
BY DEF Told, NotYet

LEMMA EmptySeqs ==
  /\ <<>> \in Seq(Octet) /\ <<>> \in Seq(Nat) /\ <<>> \o <<>> = <<>>
  /\ NoReply(<<>>) /\ Still(<<>>, IdleDecoder)
<1>1. <<>> \in Seq(Octet) /\ <<>> \in Seq(Nat) /\ <<>> \o <<>> = <<>>
  OBVIOUS
<1>2. \A i \in 1..Len(<<>>) : FALSE
  OBVIOUS
<1> QED BY <1>1, <1>2, Zenon DEF NoReply, Still

LEMMA OpenStep ==
  ASSUME NEW c \in {"gdb", "hosted"}, Open(c)
  PROVE  LinkInv'
<1>1. /\ client' = c /\ asked' = Nobody /\ learnt' = NotYet
      /\ toProbe' = <<>> /\ toHost' = <<>> /\ decoder' = IdleDecoder /\ chunk' = <<>>
      /\ executed' = <<>>
  BY Zenon DEF Open
<1>2. OnLine'
  BY <1>1, EmptySeqs, Zenon DEF OnLine, Unasked, Unparsed
<1>3. Answers'
  BY <1>1, EmptySeqs, Zenon DEF Answers, Answering
<1>4. Understood'
  BY <1>1, Zenon DEF Understood
<1> QED BY <1>2, <1>3, <1>4, Zenon DEF LinkInv

(* The client is gone, or the task reads in vain what it left.             *)
LEMMA LineShrinks ==
  ASSUME OnLine, client' = "none", asked' = asked, executed' = executed, decoder' = decoder,
         chunk' \in Seq(Octet), toProbe' \in Seq(Octet), Unparsed' \in Seq(Octet),
         IsPrefix2(Unparsed', Unparsed), asked = Nobody => learnt' = learnt
  PROVE  OnLine'
<1>1. Unparsed \in Seq(Octet)
  BY AsksKeeps DEF OnLine, Unparsed
<1>2. AskedBytes' = AskedBytes /\ How' = How
  BY SameAsked, Zenon
<1>3. IsAsked => IsAsked'
  BY <1>2, Zenon DEF IsAsked
<1>4. CASE Unasked
  <2>1. Unparsed' = <<>>
    <3>1. Len(Unparsed') <= Len(<<>>)
      BY <1>4, Zenon DEF IsPrefix2, Unasked
    <3>2. \A s \in Seq(Octet) : Len(s) <= Len(<<>>) => s = <<>>
      OBVIOUS
    <3> QED BY <3>1, <3>2, Zenon
  <2> QED BY <1>4, <2>1, Zenon DEF Unasked, OnLine
<1>5. CASE Going
  <2>1. Ahead(Unparsed', decoder, How, AskedBytes, "none")
    BY <1>1, <1>5, LineCut, Zenon DEF Going
  <2> QED BY <1>2, <1>3, <1>5, <2>1, Zenon DEF Going, OnLine
<1>6. CASE Over
  <2>1. Still(Unparsed', decoder)
    BY <1>1, <1>6, LineCut, Zenon DEF Over
  <2> QED BY <1>2, <1>3, <1>6, <2>1, Zenon DEF Over, OnLine
<1> QED BY <1>4, <1>5, <1>6, Zenon DEF OnLine

LEMMA CloseStep ==
  ASSUME LinkInv, Close
  PROVE  LinkInv'
<1>1. /\ client' = "none" /\ toHost' = <<>> /\ asked' = asked /\ chunk' = chunk
      /\ decoder' = decoder /\ executed' = executed /\ made' = made
      /\ \E n \in {0, Len(toProbe) \div 2, Len(toProbe)} : toProbe' = SubSeq(toProbe, 1, n)
  BY Zenon DEF Close, stub
<1>2. learnt' = IF ~Waiting THEN learnt
                ELSE IF asked.by = "gdb" THEN Told("gone", <<>>)
                ELSE ReadReply(Stubs[asked.call].reads, <<>>)
  BY Zenon DEF Close
<1>3. chunk \in Seq(Octet) /\ toProbe \in Seq(Octet)
  BY Zenon DEF LinkInv, OnLine
<1>4. PICK n \in Nat : n <= Len(toProbe) /\ toProbe' = SubSeq(toProbe, 1, n)
  <2>1. PICK n \in {0, Len(toProbe) \div 2, Len(toProbe)} : toProbe' = SubSeq(toProbe, 1, n)
    BY <1>1, Zenon
  <2>2. \A m \in Nat : 0 <= m /\ m \div 2 \in Nat /\ m \div 2 <= m /\ m <= m /\ 0 \in Nat
    OBVIOUS
  <2>3. Len(toProbe) \in Nat
    BY <1>3
  <2>4. n \in Nat /\ n <= Len(toProbe)
    BY <2>1, <2>2, <2>3, Zenon
  <2> QED BY <2>1, <2>4, Zenon
<1>5. /\ toProbe' \in Seq(Octet) /\ chunk \o toProbe' \in Seq(Octet)
      /\ IsPrefix2(chunk \o toProbe', chunk \o toProbe)
  <2>1. /\ SubSeq(toProbe, 1, n) \in Seq(Octet) /\ chunk \o SubSeq(toProbe, 1, n) \in Seq(Octet)
        /\ IsPrefix2(chunk \o SubSeq(toProbe, 1, n), chunk \o toProbe)
    BY <1>3, <1>4, CloseKeeps, Zenon
  <2> QED BY <1>4, <2>1, Zenon
<1>6. Unparsed' \in Seq(Octet) /\ IsPrefix2(Unparsed', Unparsed)
  BY <1>1, <1>5, Zenon DEF Unparsed
<1>7. OnLine'
  <2>1. OnLine /\ chunk' \in Seq(Octet)
    BY <1>1, <1>3, Zenon DEF LinkInv
  <2>2. asked = Nobody => learnt' = learnt
    BY <1>2, Zenon DEF Waiting
  <2> QED BY <1>1, <1>5, <1>6, <2>1, <2>2, LineShrinks, Zenon
<1>8. Answers'
  BY <1>1, Zenon DEF Answers
<1>9. Understood'
  <2>1. Understood
    BY Zenon DEF LinkInv
  <2>2. CASE ~Waiting
    BY <1>1, <1>2, <2>1, <2>2, Zenon DEF Understood
  <2>3. CASE Waiting
    BY <1>1, <1>2, <2>3, Zenon DEF Understood
  <2> QED BY <2>2, <2>3
<1> QED BY <1>7, <1>8, <1>9, Zenon DEF LinkInv

LEMMA TaskEndStep ==
  ASSUME LinkInv, TaskEnd
  PROVE  LinkInv'
<1>1. /\ client = "none" /\ chunk = <<>> /\ toProbe' = <<>> /\ client' = client
      /\ asked' = asked /\ learnt' = learnt /\ toHost' = toHost /\ decoder' = decoder
      /\ chunk' = chunk /\ executed' = executed /\ made' = made
  BY Zenon DEF TaskEnd
<1>2. OnLine'
  <2>1. OnLine
    BY Zenon DEF LinkInv
  <2>2. Unparsed' = <<>>
    BY <1>1, EmptySeqs, Zenon DEF Unparsed
  <2>3. Unparsed \in Seq(Octet)
    BY <2>1, AsksKeeps DEF OnLine, Unparsed
  <2>4. IsPrefix2(Unparsed', Unparsed)
    <3>1. \A s \in Seq(Octet) : Len(<<>>) <= Len(s) /\ \A i \in 1..Len(<<>>) : <<>>[i] = s[i]
      OBVIOUS
    <3> QED BY <2>2, <2>3, <3>1, Zenon DEF IsPrefix2
  <2> QED BY <1>1, <2>1, <2>2, <2>4, EmptySeqs, LineShrinks, Zenon
<1>3. Answers'
  BY <1>1, Zenon DEF LinkInv, Answers
<1>4. Understood'
  BY <1>1, Zenon DEF LinkInv, Understood
<1> QED BY <1>2, <1>3, <1>4, Zenon DEF LinkInv

LEMMA ReceiveStep ==
  ASSUME LinkInv, Receive
  PROVE  LinkInv'
<1>1. /\ chunk = <<>> /\ client' = client /\ asked' = asked /\ learnt' = learnt
      /\ toHost' = toHost /\ decoder' = decoder /\ executed' = executed /\ made' = made
  BY Zenon DEF Receive
<1>2. chunk \in Seq(Octet) /\ toProbe \in Seq(Octet)
  BY Zenon DEF LinkInv, OnLine
<1>3. PICK n \in Nat : n <= Len(toProbe) /\ chunk' = SubSeq(toProbe, 1, n)
                       /\ toProbe' = SubSeq(toProbe, n + 1, Len(toProbe))
  <2>1. PICK k \in ChunkSizes :
          /\ chunk' = SubSeq(toProbe, 1, IF k < Len(toProbe) THEN k ELSE Len(toProbe))
          /\ toProbe' = SubSeq(toProbe, (IF k < Len(toProbe) THEN k ELSE Len(toProbe)) + 1,
                               Len(toProbe))
    BY Zenon DEF Receive
  <2>2. k \in Nat /\ Len(toProbe) \in Nat
    BY <1>2, LinkAssumption
  <2>3. \A a, b \in Nat : (IF a < b THEN a ELSE b) \in Nat /\ (IF a < b THEN a ELSE b) <= b
    OBVIOUS
  <2> DEFINE n == IF k < Len(toProbe) THEN k ELSE Len(toProbe)
  <2>4. n \in Nat /\ n <= Len(toProbe)
    BY <2>2, <2>3, Zenon
  <2>5. chunk' = SubSeq(toProbe, 1, n) /\ toProbe' = SubSeq(toProbe, n + 1, Len(toProbe))
    BY <2>1, Zenon
  <2> HIDE DEF n
  <2> QED BY <2>4, <2>5, Zenon
<1>4. chunk' \in Seq(Octet) /\ toProbe' \in Seq(Octet) /\ chunk' \o toProbe' = toProbe
  <2>1. /\ SubSeq(toProbe, 1, n) \in Seq(Octet)
        /\ SubSeq(toProbe, n + 1, Len(toProbe)) \in Seq(Octet)
        /\ SubSeq(toProbe, 1, n) \o SubSeq(toProbe, n + 1, Len(toProbe)) = toProbe
    BY <1>2, <1>3, ReceiveKeeps, Zenon
  <2> QED BY <1>3, <2>1, Zenon
<1>5. Unparsed' = Unparsed
  <2>1. \A s \in Seq(Octet) : <<>> \o s = s
    OBVIOUS
  <2> QED BY <1>1, <1>2, <1>4, <2>1, Zenon DEF Unparsed
<1>6. AskedBytes' = AskedBytes /\ How' = How
  BY <1>1, SameAsked, Zenon
<1>7. OnLine'
  <2>1. Unasked => Unasked'
    BY <1>1, <1>5, Zenon DEF Unasked
  <2>2. IsAsked => IsAsked'
    BY <1>1, <1>6, Zenon DEF IsAsked
  <2>3. Going => Going'
    BY <1>1, <1>5, <1>6, <2>2, Zenon DEF Going
  <2>4. Over => Over'
    BY <1>1, <1>5, <1>6, <2>2, Zenon DEF Over
  <2> QED BY <1>4, <2>1, <2>3, <2>4, Zenon DEF LinkInv, OnLine
<1>8. Answers'
  BY <1>1, Zenon DEF LinkInv, Answers, Answering
<1>9. Understood'
  BY <1>1, Zenon DEF LinkInv, Understood
<1> QED BY <1>7, <1>8, <1>9, Zenon DEF LinkInv

(* The client asks.                                                        *)
LEMMA AsksStep ==
  ASSUME LinkInv, client \in {"gdb", "hosted"}, ~Waiting,
         NEW request, NEW W \in Seq(Octet), Asks(request, W), request.by = client,
         AskedBytes' \in Seq(Octet) \ {<<>>},
         \E dec, m : Script(W, dec, m, How', AskedBytes')
  PROVE  LinkInv'
<1>1. /\ asked' = request /\ learnt' = NotYet /\ toProbe' = toProbe \o W /\ executed' = <<>>
      /\ client' = client /\ toHost' = toHost /\ decoder' = decoder /\ chunk' = chunk
  BY Zenon DEF Asks
<1>2. chunk \in Seq(Octet) /\ toProbe \in Seq(Octet)
  BY Zenon DEF LinkInv, OnLine
<1>3. toProbe' \in Seq(Octet) /\ Unparsed' = Unparsed \o W /\ Unparsed \in Seq(Octet)
  <2>1. /\ chunk \o toProbe \in Seq(Octet) /\ toProbe \o W \in Seq(Octet)
        /\ chunk \o (toProbe \o W) = (chunk \o toProbe) \o W
    <3>1. \A x, y \in Seq(Octet) : x \o y \in Seq(Octet)
      BY AsksKeeps
    <3>2. \A x, y, z \in Seq(Octet) : x \o (y \o z) = (x \o y) \o z
      BY AsksKeeps
    <3>3. chunk \o toProbe \in Seq(Octet) /\ toProbe \o W \in Seq(Octet)
      BY <1>2, <3>1, Zenon
    <3>4. chunk \o (toProbe \o W) = (chunk \o toProbe) \o W
      BY <1>2, <3>2, Zenon
    <3> QED BY <3>3, <3>4, Zenon
  <2> QED BY <1>1, <2>1, Zenon DEF Unparsed
<1>4. Still(Unparsed, decoder) /\ ~Answering
  <2>1. CASE Unasked
    BY <2>1, EmptySeqs, Zenon DEF Unasked, Answering
  <2>2. CASE Going
    <3>1. asked = Nobody \/ learnt # NotYet
      BY Zenon DEF Waiting
    <3>2. learnt = NotYet
      BY <2>2, Zenon DEF Going
    <3>3. asked # Nobody
      BY <2>2, NobodyIs, Zenon DEF Going, IsAsked
    <3> QED BY <3>1, <3>2, <3>3, Zenon
  <2>3. CASE Over
    <3>1. asked # Nobody
      BY <2>3, NobodyIs, Zenon DEF Over, IsAsked
    <3> QED BY <2>3, <3>1, Zenon DEF Over, Waiting, Answering
  <2> QED BY <2>1, <2>2, <2>3, Zenon DEF LinkInv, OnLine
<1>5. OnLine'
  <2>1. PICK dec, m : Script(W, dec, m, How', AskedBytes')
    BY Zenon
  <2>2. Ahead(Unparsed \o W, decoder, How', AskedBytes', client')
    BY <1>3, <1>4, <2>1, AheadStarts, Zenon
  <2>3. Ahead(Unparsed', decoder', How', AskedBytes', client')
    BY <1>1, <1>3, <2>2, Zenon
  <2>4. IsAsked'
    BY <1>1, Zenon DEF IsAsked
  <2>5. Going'
    BY <1>1, <2>3, <2>4, Zenon DEF Going
  <2> QED BY <1>1, <1>2, <1>3, <2>5, Zenon DEF OnLine
<1>6. Answers'
  <2>1. ~Answering'
    BY <1>1, Zenon DEF Answering
  <2> QED BY <1>1, <1>4, <2>1, Zenon DEF LinkInv, Answers
<1>7. Understood'
  BY <1>1, Zenon DEF Understood
<1> QED BY <1>5, <1>6, <1>7, Zenon DEF LinkInv

LEMMA GdbAsksStep ==
  ASSUME LinkInv, NEW packet \in Payloads, GdbAsks(packet)
  PROVE  LinkInv'
<1>1. packet \in Seq(Octet) /\ Len(packet) <= INPUT_BUFFER_SIZE /\ packet # <<>>
  <2>1. packet \in Seq(Octet) /\ Len(packet) \in 1..INPUT_BUFFER_SIZE
    BY LinkAssumption, Zenon
  <2>2. INPUT_BUFFER_SIZE \in Nat
    BY InputBufferAssumption
  <2>3. \A n \in Nat : \A k \in 1..n : k <= n /\ k # 0
    OBVIOUS
  <2>4. Len(<<>>) = 0
    OBVIOUS
  <2> QED BY <2>1, <2>2, <2>3, <2>4, Zenon
<1> DEFINE request == [by |-> "gdb", packet |-> packet]
<1>2. request.by = "gdb" /\ request.packet = packet
  OBVIOUS
<1> HIDE DEF request
<1>3. client = "gdb" /\ ~Waiting /\ Asks(request, GdbFrame(packet))
  BY Zenon DEF GdbAsks, request
<1>4. asked' = request
  BY <1>3, Zenon DEF Asks
<1>5. AskedBytes' = packet /\ How' = "Done"
  BY <1>2, <1>4, Zenon DEF AskedBytes, How
<1>6. /\ GdbFrame(packet) \in Seq(Octet)
      /\ \E dec : Script(GdbFrame(packet), dec, Len(GdbFrame(packet)), "Done", packet)
  BY <1>1, GdbScript, Zenon
<1>7. \E dec, m : Script(GdbFrame(packet), dec, m, How', AskedBytes')
  BY <1>5, <1>6, Zenon
<1>8. AskedBytes' \in Seq(Octet) \ {<<>>} /\ client \in {"gdb", "hosted"} /\ request.by = client
  BY <1>1, <1>2, <1>3, <1>5
<1> QED BY <1>3, <1>6, <1>7, <1>8, AsksStep, Zenon

LEMMA HostCallsStep ==
  ASSUME LinkInv, NEW call \in DOMAIN Stubs, NEW args \in ArgumentLists(Stubs[call].sends),
         HostCalls(call, args)
  PROVE  LinkInv'
<1> DEFINE body == Body(Stubs[call], args)
<1>1. body \in Seq(Plain) /\ Len(body) \in 2..INPUT_BUFFER_SIZE
  BY StubsAre, BodySent, Zenon
<1> HIDE DEF body
<1>2. body \in Seq(Octet) /\ body # <<>> /\ Len(body) <= INPUT_BUFFER_SIZE
  <2>1. body \in Seq(Octet)
    BY <1>1, PlainTyped, SeqWider, Zenon
  <2>2. \A k \in 2..INPUT_BUFFER_SIZE : k <= INPUT_BUFFER_SIZE /\ k # 0
    BY InputBufferAssumption
  <2>3. Len(<<>>) = 0
    OBVIOUS
  <2> QED BY <1>1, <2>1, <2>2, <2>3, Zenon
<1> DEFINE request == [by |-> "hosted", call |-> call, args |-> args]
<1>3. request.by = "hosted" /\ request.call = call /\ request.args = args
  OBVIOUS
<1> HIDE DEF request
<1>4. client = "hosted" /\ ~Waiting /\ Asks(request, Frame(Stubs[call], args))
  BY Zenon DEF HostCalls, request
<1>5. asked' = request
  BY <1>4, Zenon DEF Asks
<1>6. AskedBytes' = body /\ How' = "RpcDone"
  <2>1. asked'.by # "gdb"
    BY <1>3, <1>5
  <2>2. AskedBytes' = Body(Stubs[asked'.call], asked'.args) /\ How' = "RpcDone"
    BY <2>1, Zenon DEF AskedBytes, How
  <2> QED BY <1>3, <1>5, <2>2, Zenon DEF body
<1>7. /\ Frame(Stubs[call], args) \in Seq(Octet)
      /\ \E dec, m : Script(Frame(Stubs[call], args), dec, m, "RpcDone", body)
  BY <1>1, <1>2, CallScript, Zenon DEF body
<1>8. \E dec, m : Script(Frame(Stubs[call], args), dec, m, How', AskedBytes')
  BY <1>6, <1>7, Zenon
<1>9. AskedBytes' \in Seq(Octet) \ {<<>>} /\ client \in {"gdb", "hosted"} /\ request.by = client
  BY <1>2, <1>3, <1>4, <1>6
<1> QED BY <1>4, <1>7, <1>8, <1>9, AsksStep, Zenon

LEMMA RestAfter ==
  ASSUME NEW S, NEW s \in Seq(S), NEW a \in Nat
  PROVE  /\ SubSeq(s, a + 1, Len(s)) \in Seq(S)
         /\ \A i \in 1..Len(SubSeq(s, a + 1, Len(s))) :
              a + i \in (a + 1)..Len(s) /\ SubSeq(s, a + 1, Len(s))[i] = s[a + i]
<1>1. PICK L \in Nat : L = Len(s)
  OBVIOUS
<1> DEFINE t == SubSeq(s, a + 1, L)
<1>2. L <= Len(s)
  BY <1>1
<1>3. /\ t \in Seq(S) /\ Len(t) \in Nat
      /\ a <= L => Len(t) = L - a
      /\ L < a => t = <<>>
      /\ \A i \in 1..(L - a) : t[i] = s[a + i]
  BY <1>2, CutAt, Zenon
<1> HIDE DEF t
<1>4. ASSUME NEW i \in 1..Len(t) PROVE a + i \in (a + 1)..L /\ t[i] = s[a + i]
  <2>1. CASE a <= L
    <3>1. i \in 1..(L - a)
      BY <1>3, <2>1
    <3>2. a + i \in (a + 1)..L
      BY <1>1, <3>1
    <3> QED BY <1>3, <3>1, <3>2, Zenon
  <2>2. CASE ~(a <= L)
    <3>1. L < a
      BY <2>2
    <3>2. t = <<>>
      BY <1>3, <3>1, Zenon
    <3>3. \A j \in 1..Len(<<>>) : FALSE
      OBVIOUS
    <3> QED BY <3>2, <3>3, Zenon
  <2> QED BY <2>1, <2>2
<1> QED BY <1>1, <1>3, <1>4, Zenon DEF t

LEMMA HostReadsStep ==
  ASSUME LinkInv, HostReads
  PROVE  LinkInv'
<1>1. /\ client = "hosted" /\ Waiting /\ client' = client /\ asked' = asked
      /\ toProbe' = toProbe /\ decoder' = decoder /\ chunk' = chunk /\ executed' = executed
      /\ made' = made
  BY Zenon DEF HostReads, stub
<1>2. PICK start \in 1..Len(toHost) :
        /\ toHost[start] = RPC_REMOTE_RESP
        /\ \/ \E last \in 1..Len(toHost) :
                /\ last \in (start + 1)..Len(toHost)
                /\ toHost' = SubSeq(toHost, last + 1, Len(toHost))
           \/ toHost' = SubSeq(toHost, start + RPC_BUFFER_SIZE + 1, Len(toHost))
  BY Zenon DEF HostReads, IsFirst
<1>3. toHost \in Seq(Nat)
  BY <1>1, Zenon DEF LinkInv, Answers
<1>4. Answering /\ OneReplyIn(toHost)
  BY <1>1, <1>2, Zenon DEF LinkInv, Answers, NoReply
<1>5. PICK L \in Nat : L = Len(toHost)
  BY <1>3
<1>6. PICK a \in Nat : start <= a /\ toHost' = SubSeq(toHost, a + 1, Len(toHost))
  <2>1. start \in Nat
    BY <1>3
  <2>2. CASE \E last \in 1..Len(toHost) :
                /\ last \in (start + 1)..Len(toHost)
                /\ toHost' = SubSeq(toHost, last + 1, Len(toHost))
    <3>1. PICK last \in (start + 1)..L : toHost' = SubSeq(toHost, last + 1, Len(toHost))
      BY <1>5, <2>2, Zenon
    <3>2. last \in Nat /\ start <= last
      BY <2>1, <3>1
    <3> QED BY <3>1, <3>2, Zenon
  <2>3. CASE toHost' = SubSeq(toHost, start + RPC_BUFFER_SIZE + 1, Len(toHost))
    <3>1. RPC_BUFFER_SIZE \in Nat
      BY RpcAssumption
    <3>2. start + RPC_BUFFER_SIZE \in Nat /\ start <= start + RPC_BUFFER_SIZE
      BY <2>1, <3>1
    <3> QED BY <2>3, <3>2, Zenon
  <2> QED BY <1>2, <2>2, <2>3, Zenon
<1>7. toHost' \in Seq(Nat) /\ \A i \in 1..Len(toHost') :
        a + i \in (a + 1)..L /\ toHost'[i] = toHost[a + i]
  <2>1. /\ SubSeq(toHost, a + 1, Len(toHost)) \in Seq(Nat)
        /\ \A i \in 1..Len(SubSeq(toHost, a + 1, Len(toHost))) :
              a + i \in (a + 1)..Len(toHost)
              /\ SubSeq(toHost, a + 1, Len(toHost))[i] = toHost[a + i]
    BY <1>3, RestAfter, Zenon
  <2> QED BY <1>5, <1>6, <2>1, Zenon
<1>8. NoReply(toHost')
  <2> SUFFICES ASSUME NEW i \in 1..Len(toHost') PROVE toHost'[i] # RPC_REMOTE_RESP
    BY Zenon DEF NoReply
  <2>1. a + i \in (a + 1)..L /\ toHost'[i] = toHost[a + i]
    BY <1>7, Zenon
  <2>2. a + i \in 1..L /\ a + i # start
    <3>1. start \in Nat
      BY <1>3
    <3>2. a + i \in Int
      BY <2>1
    <3> QED BY <1>6, <2>1, <3>1, <3>2
  <2> QED BY <1>2, <1>4, <1>5, <2>1, <2>2, Zenon DEF OneReplyIn
<1>9. Over
  <2>1. asked # Nobody /\ executed # <<>>
    BY <1>1, <1>4, Zenon DEF Waiting, Answering
  <2> QED BY <2>1, Zenon DEF LinkInv, OnLine, Unasked, Going
<1>10. Over'
  <2>1. AskedBytes' = AskedBytes /\ Unparsed' = Unparsed
    BY <1>1, SameAsked, SameRest, Zenon
  <2>2. IsAsked'
    BY <1>1, <1>9, <2>1, Zenon DEF Over, IsAsked
  <2> QED BY <1>1, <1>9, <2>1, <2>2, Zenon DEF Over
<1>11. OnLine'
  BY <1>1, <1>10, Zenon DEF LinkInv, OnLine
<1>12. Answers'
  <2>1. NoReply(toHost') => OneReplyIn(toHost')
    BY Zenon DEF NoReply, OneReplyIn
  <2>2. client' = "hosted" /\ "hosted" # "none" /\ "hosted" # "gdb"
    BY <1>1
  <2> QED BY <1>7, <1>8, <2>1, <2>2, Zenon DEF Answers
<1>13. Understood'
  <2>1. asked.by = "hosted"
    BY <1>1, <1>9 DEF Over, IsAsked
  <2>2. asked'.by # "gdb"
    BY <1>1, <2>1
  <2> QED BY <2>2, Zenon DEF Understood
<1> QED BY <1>11, <1>12, <1>13, Zenon DEF LinkInv

(* What GDB finds when there is something to read.                         *)
LEMMA GdbFinds ==
  ASSUME LinkInv, client = "gdb", Waiting, toHost # <<>>
  PROVE  /\ Over /\ Answering /\ made.values \in Seq(Octet \ {42})
         /\ Heard(toHost, add_u8(made.values))
<1>1. Answering /\ made.values \in Replies
      /\ toHost = <<CHAR_ACK>> \o simple_send(made.values)
  BY Zenon DEF LinkInv, Answers
<1>2. Over
  <2>1. asked # Nobody /\ executed # <<>>
    BY <1>1, Zenon DEF Waiting, Answering
  <2> QED BY <2>1, Zenon DEF LinkInv, OnLine, Unasked, Going
<1>3. made.values \in Seq(Octet \ {42})
  BY <1>1, LinkAssumption
<1>4. Heard(<<CHAR_ACK>> \o simple_send(made.values), add_u8(made.values))
  BY <1>3, ReplyHeard, Zenon
<1> QED BY <1>1, <1>2, <1>3, <1>4, Zenon

LEMMA GdbNackedStep == LinkInv => ~GdbNacked
<1> SUFFICES ASSUME LinkInv, GdbNacked PROVE FALSE
  OBVIOUS
<1>1. client = "gdb" /\ Waiting /\ toHost # <<>> /\ toHost[1] = CHAR_NACK
  BY Zenon DEF GdbNacked
<1>2. toHost[1] = 43
  BY <1>1, GdbFinds, Zenon DEF Heard
<1> QED BY <1>1, <1>2 DEF CHAR_NACK

LEMMA GdbReadsStep ==
  ASSUME LinkInv, GdbReads
  PROVE  LinkInv'
<1>1. /\ client = "gdb" /\ Waiting /\ client' = client /\ asked' = asked
      /\ toProbe' = Append(toProbe, CHAR_ACK) /\ decoder' = decoder /\ chunk' = chunk
      /\ executed' = executed /\ made' = made
  BY Zenon DEF GdbReads, stub
<1>2. toHost # <<>>
  <2>1. Len(toHost) > 1
    BY Zenon DEF GdbReads
  <2> QED BY <2>1
<1>3. /\ Over /\ Answering /\ made.values \in Seq(Octet \ {42})
      /\ Heard(toHost, add_u8(made.values))
  BY <1>1, <1>2, GdbFinds, Zenon
<1>4. PICK sent : sent = add_u8(made.values) /\ sent \in Seq(Octet \ {35, 42})
                  /\ Unescaped(sent) = made.values
  BY <1>3, ReplyEscaped, Zenon
<1>5. PICK last \in 3..(Len(toHost) - 2) :
        /\ toHost[last] = CHAR_END
        /\ \A i \in 3..(last - 1) : toHost[i] # CHAR_END
        /\ learnt' = IF SubSeq(toHost, last, last + 2) = end(SubSeq(toHost, 3, last - 1))
                        /\ \A i \in 1..Len(SubSeq(toHost, 3, last - 1)) :
                             SubSeq(toHost, 3, last - 1)[i] # 42
                     THEN Told("heard", Unescaped(SubSeq(toHost, 3, last - 1)))
                     ELSE Told("garbled", SubSeq(toHost, 3, last - 1))
        /\ toHost' = SubSeq(toHost, last + 3, Len(toHost))
  BY Zenon DEF GdbReads
<1>6. /\ SubSeq(toHost, 3, last - 1) = sent /\ SubSeq(toHost, last, last + 2) = end(sent)
      /\ SubSeq(toHost, last + 3, Len(toHost)) = <<>>
  BY <1>3, <1>4, <1>5, Zenon DEF Heard, CHAR_END
<1>7. \A i \in 1..Len(sent) : sent[i] # 42
  <2>1. \A i \in 1..Len(sent) : sent[i] \in Octet \ {35, 42}
    BY <1>4
  <2> QED BY <2>1
<1>8. learnt' = Told("heard", made.values) /\ toHost' = <<>>
  BY <1>4, <1>5, <1>6, <1>7, Zenon
<1>9. OnLine'
  <2>1. chunk \in Seq(Octet) /\ toProbe \in Seq(Octet)
    BY Zenon DEF LinkInv, OnLine
  <2>2. toProbe' \in Seq(Octet)
    BY <1>1, <2>1 DEF CHAR_ACK, Octet
  <2>3. PICK r \in Seq(Octet) : r = Unparsed
    <3>1. chunk \o toProbe \in Seq(Octet)
      BY <2>1
    <3> QED BY <3>1, Zenon DEF Unparsed
  <2>4. Unparsed' = Append(r, 43)
    <3>1. chunk \o Append(toProbe, 43) = Append(chunk \o toProbe, 43)
      BY <2>1
    <3> QED BY <1>1, <2>3, <3>1, Zenon DEF Unparsed, CHAR_ACK
  <2>5. Still(Append(r, 43), decoder)
    <3>1. /\ Len(Append(r, 43)) = Len(r) + 1 /\ Len(r) \in Nat
          /\ \A i \in 1..Len(r) : Append(r, 43)[i] = r[i]
          /\ Append(r, 43)[Len(r) + 1] = 43
      OBVIOUS
    <3>2. \A n \in Nat : \A i \in 1..(n + 1) : i \in 1..n \/ i = n + 1
      OBVIOUS
    <3>3. 43 \in Harmless
      BY DEF Harmless, Octet
    <3>4. Still(r, decoder)
      BY <1>3, <2>3, Zenon DEF Over
    <3>5. ASSUME NEW i \in 1..(Len(r) + 1) PROVE Append(r, 43)[i] \in Harmless
      <4>1. i \in 1..Len(r) \/ i = Len(r) + 1
        BY <3>1, <3>2, Zenon
      <4> QED BY <3>1, <3>3, <3>4, <4>1, Zenon DEF Still
    <3> QED BY <3>1, <3>4, <3>5, Zenon DEF Still
  <2>6. AskedBytes' = AskedBytes
    BY <1>1, SameAsked, Zenon
  <2>7. IsAsked'
    BY <1>1, <1>3, <2>6, Zenon DEF Over, IsAsked
  <2>8. Over'
    BY <1>1, <1>3, <2>4, <2>5, <2>6, <2>7, Zenon DEF Over
  <2> QED BY <1>1, <2>1, <2>2, <2>8, Zenon DEF OnLine
<1>10. Answers'
  <2>1. ~Answering'
    BY <1>8, ToldsDiffer, Zenon DEF Answering
  <2>2. client' = "gdb" /\ "gdb" # "none" /\ "gdb" # "hosted"
    BY <1>1
  <2> QED BY <1>8, <2>1, <2>2, Zenon DEF Answers
<1>11. Understood'
  BY <1>1, <1>3, <1>8, Zenon DEF Understood, Answering
<1> QED BY <1>9, <1>10, <1>11, Zenon DEF LinkInv

-----------------------------------------------------------------------------
(* Parse.                                                                  *)

\* The byte parsed ends nothing, or ends what was asked
ParseTurn(fed) ==
  /\ decoder' = fed /\ chunk' = Tail(chunk)
  /\ UNCHANGED <<client, asked, learnt, toProbe, toHost, executed, made>>

ParseEnd ==
  /\ decoder' = IdleDecoder /\ chunk' = Tail(chunk)
  /\ executed' = Append(executed, AskedBytes)
  /\ UNCHANGED <<client, asked, learnt, toProbe>>

LEMMA TurnOnly ==
  ASSUME NEW fed, fed.automaton \notin EndStates,
         \/ ParseMore(fed) \/ ParsePacket(fed, fed.buffer) \/ ParseCall(fed, fed.buffer)
         \/ ParseUnknown(fed, fed.buffer) \/ ParseError(fed)
  PROVE  ParseTurn(fed)
<1>1. fed.automaton \notin {"Done", "RpcDone", "Error"}
  BY Zenon DEF EndStates
<1>2. ParseMore(fed)
  BY <1>1, Zenon DEF ParsePacket, ParseCall, ParseUnknown, IsDropped, ParseError
<1> QED BY <1>2, Zenon DEF ParseMore, Takes, ParseTurn

LEMMA EndsPacket ==
  ASSUME NEW fed, fed.automaton = "Done", fed.buffer = AskedBytes, AskedBytes # <<>>,
         \/ ParseMore(fed) \/ ParsePacket(fed, fed.buffer) \/ ParseCall(fed, fed.buffer)
         \/ ParseUnknown(fed, fed.buffer) \/ ParseError(fed)
  PROVE  /\ ParseEnd
         /\ made'.values \in Replies
         /\ toHost' = Output(<<CHAR_ACK>> \o simple_send(made'.values))
<1>1. "Done" \in EndStates /\ "Done" # "RpcDone" /\ "Done" # "Error"
  BY DEF EndStates
<1>2. ParsePacket(fed, AskedBytes)
  BY <1>1, Zenon DEF ParseMore, ParseCall, ParseUnknown, IsDropped, ParseError
<1>3. PICK reply \in Replies :
        /\ made' = [Nothing EXCEPT !.does = "exec", !.values = reply]
        /\ toHost' = Output(<<CHAR_ACK>> \o simple_send(reply))
  BY <1>2, Zenon DEF ParsePacket
<1>4. made'.values = reply
  BY <1>3 DEF Nothing
<1>5. ParseEnd
  BY <1>2, Zenon DEF ParsePacket, Takes, ParseEnd
<1> QED BY <1>3, <1>4, <1>5, Zenon

LEMMA EndsCall ==
  ASSUME NEW fed, fed.automaton = "RpcDone", fed.buffer = AskedBytes,
         AskedBytes \in Seq(Octet), AskedBytes # <<>>,
         \/ ParseMore(fed) \/ ParsePacket(fed, fed.buffer) \/ ParseCall(fed, fed.buffer)
         \/ ParseUnknown(fed, fed.buffer) \/ ParseError(fed)
  PROVE  /\ ParseEnd
         /\ toHost' = toHost \/ \E reply : IsReply(reply) /\ toHost' = Output(reply)
<1>1. "RpcDone" \in EndStates /\ "RpcDone" # "Done" /\ "RpcDone" # "Error"
  BY DEF EndStates
<1>2. ParseCall(fed, AskedBytes) \/ ParseUnknown(fed, AskedBytes)
  BY <1>1, Zenon DEF ParseMore, ParsePacket, ParseError
<1>3. CASE ParseCall(fed, AskedBytes)
  <2>1. IsCommand(AskedBytes) /\ ParseEnd
    BY <1>3, Zenon DEF ParseCall, Takes, ParseEnd
  <2>2. PICK command \in {CommandOf(AskedBytes)} :
          \E args \in {Arguments(command.takes, SubSeq(AskedBytes, 3, Len(AskedBytes)))} :
            \E o \in Outcomes(command, args) : toHost' = Output(Replied(command.replies, o))
    BY <1>3, Zenon DEF ParseCall
  <2>3. command = CommandOf(AskedBytes)
    OBVIOUS
  <2>4. PICK args \in {Arguments(command.takes, SubSeq(AskedBytes, 3, Len(AskedBytes)))} :
          \E o \in Outcomes(command, args) : toHost' = Output(Replied(command.replies, o))
    BY <2>2, Zenon
  <2>5. args = Arguments(CommandOf(AskedBytes).takes, SubSeq(AskedBytes, 3, Len(AskedBytes)))
    BY <2>3, Zenon
  <2>6. PICK o \in Outcomes(CommandOf(AskedBytes), args) :
          toHost' = Output(Replied(CommandOf(AskedBytes).replies, o))
    BY <2>3, <2>4, Zenon
  <2>7. IsReply(Replied(CommandOf(AskedBytes).replies, o))
    BY <2>1, <2>5, Answered, Zenon
  <2> QED BY <2>1, <2>6, <2>7, Zenon
<1>4. CASE ParseUnknown(fed, AskedBytes)
  BY <1>4, Zenon DEF ParseUnknown, Takes, ParseEnd
<1> QED BY <1>2, <1>3, <1>4

LEMMA ReplyAppended ==
  ASSUME NEW s \in Seq(Nat), NoReply(s), NEW r, IsReply(r)
  PROVE  s \o r \in Seq(Nat) /\ OneReplyIn(s \o r)
<1>1. /\ r \in Seq(Nat) /\ Len(r) >= 1 /\ r[1] = RPC_REMOTE_RESP
      /\ \A i \in 2..Len(r) : r[i] # RPC_REMOTE_RESP
  BY Zenon DEF IsReply
<1>2. PICK n \in Nat, m \in Nat : n = Len(s) /\ m = Len(r)
  <2>1. Len(s) \in Nat /\ Len(r) \in Nat
    BY <1>1
  <2> QED BY <2>1, Zenon
<1> DEFINE w == s \o r
<1> HIDE DEF w
<1>3. w \in Seq(Nat) /\ IsJoined(w, s, n, r, m)
  BY <1>1, <1>2, JoinedAt, Zenon DEF w
<1>4. ASSUME NEW i \in 1..(n + m), w[i] = RPC_REMOTE_RESP PROVE i = n + 1
  <2>1. CASE i \in 1..n
    <3>1. w[i] = s[i] /\ s[i] # RPC_REMOTE_RESP
      BY <1>2, <1>3, <2>1, Zenon DEF IsJoined, NoReply
    <3> QED BY <1>4, <3>1
  <2>2. CASE i \notin 1..n
    <3>1. PICK j \in 1..m : i = n + j
      BY <2>2
    <3>2. w[i] = r[j]
      BY <1>3, <3>1, Zenon DEF IsJoined
    <3>3. j \in 2..m \/ j = 1
      BY <1>2, <3>1
    <3>4. j \notin 2..m
      BY <1>1, <1>2, <1>4, <3>2, Zenon
    <3> QED BY <3>1, <3>3, <3>4
  <2> QED BY <2>1, <2>2
<1>5. OneReplyIn(w)
  BY <1>3, <1>4, Zenon DEF OneReplyIn, IsJoined
<1> QED BY <1>3, <1>5, Zenon DEF w

\* What is left to parse loses its first byte
LEMMA RestShrinks ==
  ASSUME OnLine, chunk # <<>>, chunk' = Tail(chunk), toProbe' = toProbe
  PROVE  /\ chunk' \in Seq(Octet) /\ toProbe' \in Seq(Octet)
         /\ Unparsed' = Tail(Unparsed)
<1>1. chunk \in Seq(Octet) /\ toProbe \in Seq(Octet)
  BY Zenon DEF OnLine
<1>2. Tail(chunk) \in Seq(Octet) /\ Tail(chunk) \o toProbe = Tail(chunk \o toProbe)
  BY <1>1, ParseKeeps, Zenon
<1> QED BY <1>1, <1>2, Zenon DEF Unparsed

(* What was asked is executed.                                             *)
LEMMA EndStep ==
  ASSUME LinkInv, Going, chunk # <<>>, ParseEnd, Still(Tail(Unparsed), IdleDecoder)
  PROVE  /\ OnLine' /\ Over' /\ executed' # <<>> /\ client' = client /\ learnt' = learnt
         /\ client \in {"none", asked.by} /\ asked' = asked /\ ~Answering
         /\ client # "none" => Answering'
<1>1. /\ decoder' = IdleDecoder /\ chunk' = Tail(chunk) /\ asked' = asked
      /\ executed' = Append(executed, AskedBytes) /\ client' = client /\ learnt' = learnt
      /\ toProbe' = toProbe
  BY Zenon DEF ParseEnd
<1>2. chunk' \in Seq(Octet) /\ toProbe' \in Seq(Octet) /\ Unparsed' = Tail(Unparsed)
  <2>1. OnLine
    BY Zenon DEF LinkInv
  <2> QED BY <1>1, <2>1, RestShrinks, Zenon
<1>3. AskedBytes' = AskedBytes
  BY <1>1, SameAsked, Zenon
<1>4. executed' = <<AskedBytes>> /\ executed' # <<>>
  <2>1. executed = <<>>
    BY Zenon DEF Going
  <2>2. \A b : Append(<<>>, b) = <<b>> /\ <<b>> # <<>>
    OBVIOUS
  <2> QED BY <1>1, <2>1, <2>2, Zenon
<1>5. IsAsked'
  BY <1>1, <1>3, Zenon DEF Going, IsAsked
<1>6. Over'
  BY <1>1, <1>2, <1>3, <1>4, <1>5, Zenon DEF Over
<1>7. OnLine'
  BY <1>2, <1>6, Zenon DEF OnLine
<1>8. ~Answering /\ (client # "none" => Answering')
  BY <1>1, <1>4, Zenon DEF Going, Answering
<1>9. client \in {"none", asked.by}
  BY Zenon DEF Going, IsAsked
<1> QED BY <1>1, <1>4, <1>6, <1>7, <1>8, <1>9, Zenon

LEMMA ParseStep ==
  ASSUME LinkInv, Parse
  PROVE  LinkInv'
<1>1. OnLine /\ chunk # <<>> /\ chunk \in Seq(Octet) /\ toProbe \in Seq(Octet)
  BY Zenon DEF LinkInv, OnLine, Parse
<1>2. Unparsed \in Seq(Octet) /\ Unparsed # <<>> /\ Unparsed[1] = chunk[1]
  BY <1>1, ParseKeeps, Zenon DEF Unparsed
<1>3. PICK fed : fed = Feed(decoder, Unparsed[1])
  BY Zenon
<1>4. \/ ParseMore(fed) \/ ParsePacket(fed, fed.buffer) \/ ParseCall(fed, fed.buffer)
      \/ ParseUnknown(fed, fed.buffer) \/ ParseError(fed)
  BY <1>2, <1>3, Zenon DEF Parse
<1>5. ASSUME ParseTurn(fed), Going' \/ Over'
      PROVE  LinkInv'
  <2>1. /\ chunk' = Tail(chunk) /\ toProbe' = toProbe /\ client' = client /\ asked' = asked
        /\ learnt' = learnt /\ toHost' = toHost /\ executed' = executed /\ made' = made
    BY <1>5, Zenon DEF ParseTurn
  <2>2. OnLine'
    BY <1>1, <1>5, <2>1, RestShrinks, Zenon DEF OnLine
  <2>3. Answers'
    BY <2>1, Zenon DEF LinkInv, Answers, Answering
  <2>4. Understood'
    BY <2>1, Zenon DEF LinkInv, Understood
  <2> QED BY <2>2, <2>3, <2>4, Zenon DEF LinkInv
<1>6. ASSUME ParseTurn(fed)
      PROVE  /\ AskedBytes' = AskedBytes /\ How' = How /\ Unparsed' = Tail(Unparsed)
             /\ IsAsked => IsAsked'
             /\ decoder' = fed /\ executed' = executed /\ client' = client /\ learnt' = learnt
  <2>1. /\ chunk' = Tail(chunk) /\ toProbe' = toProbe /\ client' = client /\ asked' = asked
        /\ learnt' = learnt /\ executed' = executed /\ decoder' = fed
    BY <1>6, Zenon DEF ParseTurn
  <2>2. AskedBytes' = AskedBytes /\ How' = How
    BY <2>1, SameAsked, Zenon
  <2>3. Unparsed' = Tail(Unparsed)
    BY <1>1, <2>1, RestShrinks, Zenon
  <2>4. IsAsked => IsAsked'
    BY <2>1, <2>2, Zenon DEF IsAsked
  <2> QED BY <2>1, <2>2, <2>3, <2>4, Zenon
<1>7. CASE Unasked
  BY <1>2, <1>7, Zenon DEF Unasked
<1>8. CASE Over
  <2>1. fed = IdleDecoder /\ fed.automaton \notin EndStates /\ Still(Tail(Unparsed), IdleDecoder)
    BY <1>2, <1>3, <1>8, StillTurn, Zenon DEF Over
  <2>2. ParseTurn(fed)
    BY <1>4, <2>1, TurnOnly, Zenon
  <2>3. Over'
    BY <1>6, <1>8, <2>1, <2>2, Zenon DEF Over
  <2> QED BY <1>5, <2>2, <2>3
<1>9. CASE Going
  <2>1. \/ fed.automaton \notin EndStates /\ Ahead(Tail(Unparsed), fed, How, AskedBytes, client)
        \/ /\ fed.automaton = How /\ fed.buffer = AskedBytes
           /\ Still(Tail(Unparsed), IdleDecoder)
    <3>1. Unparsed \in Seq(Octet) /\ Unparsed # <<>>
      BY <1>2
    <3>2. Ahead(Unparsed, decoder, How, AskedBytes, client)
      BY <1>9, Zenon DEF Going
    <3>3. Turned(fed, Tail(Unparsed), How, AskedBytes, client)
      BY <1>3, <3>1, <3>2, AheadTurn, Zenon
    <3> QED BY <3>3, Zenon DEF Turned
  <2>2. CASE fed.automaton \notin EndStates /\ Ahead(Tail(Unparsed), fed, How, AskedBytes, client)
    <3>1. ParseTurn(fed)
      BY <1>4, <2>2, TurnOnly, Zenon
    <3>2. Going'
      BY <1>6, <1>9, <2>2, <3>1, Zenon DEF Going
    <3> QED BY <1>5, <3>1, <3>2
  <2>3. CASE /\ fed.automaton = How /\ fed.buffer = AskedBytes
             /\ Still(Tail(Unparsed), IdleDecoder)
    <3>1. AskedBytes \in Seq(Octet) /\ AskedBytes # <<>> /\ asked.by \in {"gdb", "hosted"}
      BY <1>9 DEF Going, IsAsked
    <3>2. CASE asked.by = "gdb"
      <4>1. fed.automaton = "Done"
        BY <2>3, <3>2, Zenon DEF How
      <4>2. /\ ParseEnd /\ made'.values \in Replies
            /\ toHost' = Output(<<CHAR_ACK>> \o simple_send(made'.values))
        BY <1>4, <2>3, <3>1, <4>1, EndsPacket, Zenon
      <4>3. /\ OnLine' /\ executed' # <<>> /\ client' = client /\ learnt' = learnt
            /\ client \in {"none", asked.by} /\ asked' = asked /\ ~Answering
            /\ client # "none" => Answering'
        BY <1>1, <1>9, <2>3, <4>2, EndStep, Zenon
      <4>4. CASE client = "none"
        <5>1. toHost' = <<>>
          BY <4>2, <4>4, Zenon DEF LinkInv, Answers, Output
        <5>2. client' = "none" /\ "none" # "gdb" /\ "none" # "hosted"
          BY <4>3, <4>4
        <5>3. Answers'
          BY <5>1, <5>2, Zenon DEF Answers
        <5>4. Understood'
          BY <1>9, <3>2, <4>3, Zenon DEF LinkInv, Understood, Going
        <5> QED BY <4>3, <5>3, <5>4, Zenon DEF LinkInv
      <4>5. CASE client # "none"
        <5>1. client = "gdb" /\ client' = "gdb" /\ "gdb" # "none" /\ "gdb" # "hosted"
          BY <3>2, <4>3, <4>5
        <5>2. toHost = <<>>
          BY <4>3, <5>1, Zenon DEF LinkInv, Answers
        <5>3. PICK v \in Replies : v = made'.values
          BY <4>2
        <5>4. toHost' = <<>> \o (<<CHAR_ACK>> \o simple_send(v))
          BY <4>2, <5>1, <5>2, <5>3, Zenon DEF Output
        <5>5. <<CHAR_ACK>> \o simple_send(v) \in Seq(Octet)
          <6>1. v \in Seq(Octet \ {42})
            BY LinkAssumption
          <6> QED BY <6>1, ReplyHeard, Zenon
        <5>6. toHost' = <<CHAR_ACK>> \o simple_send(v)
          <6>1. \A s \in Seq(Octet) : <<>> \o s = s
            OBVIOUS
          <6> QED BY <5>4, <5>5, <6>1, Zenon
        <5>7. Answers'
          BY <4>3, <5>1, <5>3, <5>6, Zenon DEF Answers
        <5>8. Understood'
          BY <1>9, <4>3, <5>1, Zenon DEF Understood, Going
        <5> QED BY <4>3, <5>7, <5>8, Zenon DEF LinkInv
      <4> QED BY <4>4, <4>5
    <3>3. CASE asked.by = "hosted"
      <4>1. fed.automaton = "RpcDone"
        <5>1. asked.by # "gdb"
          BY <3>3
        <5> QED BY <2>3, <5>1, Zenon DEF How
      <4>2. /\ ParseEnd
            /\ toHost' = toHost \/ \E reply : IsReply(reply) /\ toHost' = Output(reply)
        BY <1>4, <2>3, <3>1, <4>1, EndsCall, Zenon
      <4>3. /\ OnLine' /\ executed' # <<>> /\ client' = client /\ learnt' = learnt
            /\ client \in {"none", asked.by} /\ asked' = asked /\ ~Answering
            /\ client # "none" => Answering'
        BY <1>1, <1>9, <2>3, <4>2, EndStep, Zenon
      <4>4. Understood'
        <5>1. asked'.by # "gdb"
          BY <3>3, <4>3
        <5> QED BY <5>1, Zenon DEF Understood
      <4>5. CASE client = "none"
        <5>1. toHost' = <<>>
          BY <4>2, <4>5, Zenon DEF LinkInv, Answers, Output
        <5>2. client' = "none" /\ "none" # "gdb" /\ "none" # "hosted"
          BY <4>3, <4>5
        <5>3. Answers'
          BY <5>1, <5>2, Zenon DEF Answers
        <5> QED BY <4>3, <4>4, <5>3, Zenon DEF LinkInv
      <4>6. CASE client # "none"
        <5>1. client = "hosted" /\ client' = "hosted" /\ "hosted" # "none" /\ "hosted" # "gdb"
          BY <3>3, <4>3, <4>6
        <5>2. toHost \in Seq(Nat) /\ NoReply(toHost)
          BY <4>3, <5>1, Zenon DEF LinkInv, Answers
        <5>3. toHost' \in Seq(Nat) /\ OneReplyIn(toHost')
          <6>1. CASE toHost' = toHost
            BY <5>2, <6>1, Zenon DEF NoReply, OneReplyIn
          <6>2. CASE \E reply : IsReply(reply) /\ toHost' = Output(reply)
            <7>1. PICK reply : IsReply(reply) /\ toHost' = toHost \o reply
              BY <4>6, <6>2, Zenon DEF Output
            <7> QED BY <5>2, <7>1, ReplyAppended, Zenon
          <6> QED BY <4>2, <6>1, <6>2, Zenon
        <5>4. Answers'
          BY <4>3, <4>6, <5>1, <5>3, Zenon DEF Answers
        <5> QED BY <4>3, <4>4, <5>4, Zenon DEF LinkInv
      <4> QED BY <4>5, <4>6
    <3> QED BY <3>1, <3>2, <3>3
  <2> QED BY <2>1, <2>2, <2>3
<1> QED BY <1>1, <1>7, <1>8, <1>9, Zenon DEF OnLine

-----------------------------------------------------------------------------
(* The theorems.                                                           *)

LEMMA InitLink == RemoteInit => LinkInv
<1> SUFFICES ASSUME RemoteInit PROVE LinkInv
  OBVIOUS
<1>1. /\ client = "none" /\ asked = Nobody /\ learnt = NotYet /\ toProbe = <<>>
      /\ toHost = <<>> /\ decoder = IdleDecoder /\ chunk = <<>> /\ executed = <<>>
  BY Zenon DEF RemoteInit
<1>2. OnLine
  BY <1>1, EmptySeqs, Zenon DEF OnLine, Unasked, Unparsed
<1>3. Answers
  BY <1>1, EmptySeqs, Zenon DEF Answers, Answering
<1>4. Understood
  BY <1>1, Zenon DEF Understood
<1> QED BY <1>2, <1>3, <1>4, Zenon DEF LinkInv

LEMMA LinkStep == (~overran => LinkInv) /\ [RemoteNext]_remoteVars => (~overran => LinkInv)'
<1> SUFFICES ASSUME ~overran => LinkInv, [RemoteNext]_remoteVars, ~overran'
             PROVE  LinkInv'
  OBVIOUS
<1>1. CASE \E c \in {"gdb", "hosted"} : Open(c)
  BY <1>1, OpenStep, Zenon
<1>2. CASE Close
  BY <1>2, CloseStep, Zenon DEF Close
<1>3. CASE TaskEnd
  BY <1>3, TaskEndStep, Zenon DEF TaskEnd
<1>4. CASE \E p \in Payloads \cup Overlong : GdbAsks(p)
  <2>1. PICK p \in Payloads \cup Overlong : GdbAsks(p)
    BY <1>4, Zenon
  <2>2. p \in Payloads /\ ~overran
    BY <2>1, Zenon DEF GdbAsks
  <2> QED BY <2>1, <2>2, GdbAsksStep, Zenon
<1>5. CASE \E call \in DOMAIN Stubs :
             \E args \in ArgumentLists(Stubs[call].sends) : HostCalls(call, args)
  <2>1. PICK call \in DOMAIN Stubs :
          \E args \in ArgumentLists(Stubs[call].sends) : HostCalls(call, args)
    BY <1>5, Zenon
  <2>2. PICK args \in ArgumentLists(Stubs[call].sends) : HostCalls(call, args)
    BY <2>1, Zenon
  <2>3. ~overran
    BY <2>2, Zenon DEF HostCalls
  <2> QED BY <2>2, <2>3, HostCallsStep, Zenon
<1>6. CASE HostReads
  BY <1>6, HostReadsStep, Zenon DEF HostReads
<1>7. CASE GdbReads
  BY <1>7, GdbReadsStep, Zenon DEF GdbReads
<1>8. CASE GdbNacked
  BY <1>8, GdbNackedStep, Zenon DEF GdbNacked
<1>9. CASE Receive
  BY <1>9, ReceiveStep, Zenon DEF Receive
<1>10. CASE Parse
  <2>1. ~overran
    BY <1>10, Zenon DEF Parse, ParseMore, ParsePacket, ParseCall, ParseUnknown, ParseError, Takes
  <2> QED BY <1>10, <2>1, ParseStep, Zenon
<1>11. CASE UNCHANGED remoteVars
  <2>1. /\ client' = client /\ asked' = asked /\ learnt' = learnt /\ toProbe' = toProbe
        /\ toHost' = toHost /\ decoder' = decoder /\ chunk' = chunk /\ executed' = executed
        /\ made' = made /\ overran' = overran
    BY <1>11, Zenon DEF remoteVars, link, stub
  <2>2. AskedBytes' = AskedBytes /\ How' = How /\ Unparsed' = Unparsed
    BY <2>1, SameAsked, SameRest, Zenon
  <2>3. IsAsked => IsAsked'
    BY <2>1, <2>2, Zenon DEF IsAsked
  <2>4. OnLine'
    <3>1. OnLine
      BY <2>1, Zenon DEF LinkInv
    <3>2. Unasked => Unasked'
      BY <2>1, <2>2, Zenon DEF Unasked
    <3>3. Going => Going'
      BY <2>1, <2>2, <2>3, Zenon DEF Going
    <3>4. Over => Over'
      BY <2>1, <2>2, <2>3, Zenon DEF Over
    <3> QED BY <2>1, <3>1, <3>2, <3>3, <3>4, Zenon DEF OnLine
  <2>5. Answers'
    BY <2>1, Zenon DEF LinkInv, Answers, Answering
  <2>6. Understood'
    BY <2>1, Zenon DEF LinkInv, Understood
  <2> QED BY <2>4, <2>5, <2>6, Zenon DEF LinkInv
<1> QED BY <1>1, <1>2, <1>3, <1>4, <1>5, <1>6, <1>7, <1>8, <1>9, <1>10, <1>11, Zenon
        DEF RemoteNext

(* Whatever the sizes and however the bytes are cut, what the client asked *)
(* is on its way, executed or lost with its client, and nothing else is.   *)
THEOREM LinkInvariant == RemoteSpec => [](~overran => LinkInv)
<1>1. RemoteInit => (~overran => LinkInv)
  BY InitLink
<1> QED BY <1>1, LinkStep, PTL DEF RemoteSpec

(* The probe executes what the client asked: nothing else, once, and not   *)
(* later than the moment everything sent has been parsed.                  *)
THEOREM ExecutesAsked == RemoteSpec => []ExecutedIsAsked
<1>1. (~overran => LinkInv) => ExecutedIsAsked
  <2> SUFFICES ASSUME ~overran, LinkInv PROVE ExecutedIsAsked
    BY Zenon DEF ExecutedIsAsked
  <2>1. CASE Unasked
    BY <2>1, Zenon DEF Unasked, ExecutedIsAsked
  <2>2. CASE Going
    <3>1. asked # Nobody /\ executed = <<>>
      BY <2>2, NobodyIs, Zenon DEF Going, IsAsked
    <3>2. ~(client # "none" /\ toProbe = <<>> /\ chunk = <<>>)
      <4> SUFFICES ASSUME client # "none", toProbe = <<>>, chunk = <<>> PROVE FALSE
        OBVIOUS
      <4>1. Unparsed = <<>>
        BY EmptySeqs, Zenon DEF Unparsed
      <4>2. PICK W \in Seq(Octet), k \in Int : \E dec, m :
              /\ Script(W, dec, m, How, AskedBytes) /\ Coming(<<>>, decoder, W, dec, m, k)
              /\ k + Len(<<>>) >= m
        BY <2>2, <4>1, Zenon DEF Going, Ahead
      <4>3. PICK dec, m :
              /\ Script(W, dec, m, How, AskedBytes) /\ Coming(<<>>, decoder, W, dec, m, k)
              /\ k + Len(<<>>) >= m
        BY <4>2, Zenon
      <4>4. m \in 1..Len(W) /\ k < m
        BY <4>3, Zenon DEF Script, Coming
      <4>5. Len(<<>>) = 0 /\ m \in Int
        BY <4>4
      <4> QED BY <4>3, <4>4, <4>5
    <3> QED BY <3>1, <3>2, Zenon DEF ExecutedIsAsked
  <2>3. CASE Over
    <3>1. asked # Nobody /\ executed = <<AskedBytes>>
      BY <2>3, NobodyIs, Zenon DEF Over, IsAsked
    <3> QED BY <3>1, Zenon DEF ExecutedIsAsked
  <2> QED BY <2>1, <2>2, <2>3, Zenon DEF LinkInv, OnLine
<1> QED BY <1>1, LinkInvariant, PTL

(* GDB hears every reply as the stub meant it, whatever characters are in  *)
(* it: nothing is garbled and nothing refused.                             *)
THEOREM HeardAsMeant == RemoteSpec => []RepliesUnderstood
<1>1. (~overran => LinkInv) => RepliesUnderstood
  <2> SUFFICES ASSUME ~overran, LinkInv, asked.by = "gdb"
               PROVE  learnt.status \in {"not yet", "gone"} \/ learnt = Told("heard", made.values)
    BY Zenon DEF RepliesUnderstood
  <2>1. \/ learnt = NotYet \/ learnt = Told("gone", <<>>) \/ learnt = Told("heard", made.values)
    BY Zenon DEF LinkInv, Understood
  <2>2. NotYet.status = "not yet" /\ Told("gone", <<>>).status = "gone"
    BY DEF NotYet, Told
  <2> QED BY <2>1, <2>2, Zenon
<1> QED BY <1>1, LinkInvariant, PTL

-----------------------------------------------------------------------------
(* The parameters of a call, as they are sent and as they are taken.       *)

\* The ith part lies behind those before it
Lies(f, ss, n, i) ==
  /\ Len(f[i]) = Len(f[i - 1]) + Len(ss[i]) /\ Len(f[i]) <= Len(f[n])
  /\ \A j \in 1..Len(ss[i]) : f[n][Len(f[i - 1]) + j] = ss[i][j]

(* Where Flatten puts each part.                                           *)
LEMMA PartAt ==
  ASSUME NEW S, NEW ss \in Seq(Seq(S)), NEW n \in Nat, n = Len(ss),
         NEW f \in [0..n -> Seq(S)], Grows(f, ss)
  PROVE  \A i \in 1..n : Lies(f, ss, n, i)
<1> SUFFICES ASSUME NEW i \in 1..n PROVE Lies(f, ss, n, i)
  OBVIOUS
<1>1. \A k \in 1..n : f[k] = f[k - 1] \o ss[k] /\ f[k - 1] \in Seq(S) /\ ss[k] \in Seq(S)
                      /\ k \in 0..n /\ k - 1 \in 0..n
  <2>1. \A k \in 1..n : k \in 0..n /\ k - 1 \in 0..n
    OBVIOUS
  <2>2. ASSUME NEW k \in 1..n PROVE ss[k] \in Seq(S) /\ f[k - 1] \in Seq(S)
    <3>1. k - 1 \in 0..n
      BY <2>1
    <3>2. f[k - 1] \in Seq(S)
      BY <3>1
    <3>3. ss[k] \in Seq(S)
      BY ElementOfSeq
    <3> QED BY <3>2, <3>3
  <2>3. \A k \in 1..n : f[k] = f[k - 1] \o ss[k]
    BY DEF Grows
  <2> QED BY <2>1, <2>2, <2>3, Zenon
<1>2. ASSUME NEW k \in 0..n PROVE f[k] \in Seq(S) /\ Len(f[k]) \in Nat
  <2>1. f[k] \in Seq(S)
    OBVIOUS
  <2> QED BY <2>1
<1>3. \A a, b \in Seq(S) : /\ Len(a \o b) = Len(a) + Len(b) /\ Len(a) \in Nat /\ Len(b) \in Nat
                           /\ \A j \in 1..Len(a) : (a \o b)[j] = a[j]
                           /\ \A j \in 1..Len(b) : (a \o b)[Len(a) + j] = b[j]
  OBVIOUS
<1>4. /\ Len(f[i]) = Len(f[i - 1]) + Len(ss[i])
      /\ \A j \in 1..Len(ss[i]) : f[i][Len(f[i - 1]) + j] = ss[i][j]
  <2>1. PICK x \in Seq(S), y \in Seq(S) : x = f[i - 1] /\ y = ss[i] /\ f[i] = x \o y
    BY <1>1
  <2>2. /\ Len(x \o y) = Len(x) + Len(y)
        /\ \A j \in 1..Len(y) : (x \o y)[Len(x) + j] = y[j]
    BY <1>3
  <2> QED BY <2>1, <2>2, Zenon
\* What is there stays there
<1> DEFINE A == {d \in 0..(n - i) : /\ Len(f[i]) <= Len(f[i + d])
                                    /\ \A j \in 1..Len(f[i]) : f[i + d][j] = f[i][j]}
<1>5. 0 \in A
  <2>1. i \in 0..n /\ i + 0 = i /\ 0 \in 0..(n - i)
    OBVIOUS
  <2>2. Len(f[i]) <= Len(f[i])
    BY <1>2, <2>1
  <2> QED BY <2>1, <2>2
<1>6. ASSUME NEW d \in 1..(n - i), d - 1 \in A PROVE d \in A
  <2>1. i + d \in 1..n /\ (i + d) - 1 = i + (d - 1) /\ d \in 0..(n - i)
    OBVIOUS
  <2>2. PICK x \in Seq(S), y \in Seq(S) : x = f[i + (d - 1)] /\ y = ss[i + d] /\ f[i + d] = x \o y
    BY <1>1, <2>1
  <2>3. Len(f[i]) <= Len(x) /\ \A j \in 1..Len(f[i]) : x[j] = f[i][j]
    BY <1>6, <2>2
  <2>4. Len(x \o y) = Len(x) + Len(y) /\ Len(x) \in Nat /\ Len(y) \in Nat
        /\ \A j \in 1..Len(x) : (x \o y)[j] = x[j]
    BY <1>3, Zenon
  <2>5. PICK l \in Nat : l = Len(f[i])
    BY <1>2
  <2>6. l <= Len(x \o y) /\ \A j \in 1..l : j \in 1..Len(x)
    BY <2>3, <2>4, <2>5
  <2>7. \A j \in 1..l : f[i + d][j] = f[i][j]
    BY <2>2, <2>3, <2>4, <2>5, <2>6, Zenon
  <2> QED BY <2>1, <2>2, <2>5, <2>6, <2>7
<1>7. n - i \in Nat
  OBVIOUS
<1>8. n - i \in A
  <2>1. \A d \in 0..(n - i) : d \in A
    BY <1>5, <1>6, <1>7, Count
  <2>2. n - i \in 0..(n - i)
    OBVIOUS
  <2> QED BY <2>1, <2>2, Zenon
<1>9. Len(f[i]) <= Len(f[n]) /\ \A j \in 1..Len(f[i]) : f[n][j] = f[i][j]
  <2>1. i + (n - i) = n
    OBVIOUS
  <2> QED BY <1>8, <2>1
<1> HIDE DEF A
<1>10. ASSUME NEW j \in 1..Len(ss[i]) PROVE f[n][Len(f[i - 1]) + j] = ss[i][j]
  <2>1. PICK x \in Nat, y \in Nat : x = Len(f[i - 1]) /\ y = Len(ss[i])
    BY <1>1, <1>3
  <2>2. x + j \in 1..Len(f[i])
    <3>1. Len(f[i]) = x + y /\ j \in 1..y
      BY <1>4, <2>1, Zenon
    <3> QED BY <3>1
  <2>3. f[n][x + j] = f[i][x + j] /\ f[i][x + j] = ss[i][j]
    <3>1. f[n][x + j] = f[i][x + j]
      BY <1>9, <2>2, Zenon
    <3>2. f[i][x + j] = ss[i][j]
      BY <1>4, <2>1, Zenon
    <3> QED BY <3>1, <3>2, Zenon
  <2> QED BY <2>1, <2>3
<1> QED BY <1>4, <1>9, <1>10, Zenon DEF Lies

(* What hexify writes reads back.                                          *)
LEMMA HexifiedAt ==
  ASSUME NEW bytes \in Seq(Octet), NEW n \in Nat, n = Len(bytes)
  PROVE  /\ hexify(bytes) \in Seq(Digits) /\ Len(hexify(bytes)) = 2 * n
         /\ \A i \in 1..n :
              ascii_octet_to_hex(hexify(bytes)[2 * i - 1], hexify(bytes)[2 * i]) = bytes[i]
<1> DEFINE ss == [i \in 1..n |-> u8_to_ascii(bytes[i])]
<1>1. \A i \in 1..n : bytes[i] \in Octet
  BY ElementOfSeq
<1>2. \A i \in 1..n : \E a, b \in Digits : u8_to_ascii(bytes[i]) = <<a, b>>
                                            /\ ascii_octet_to_hex(a, b) = bytes[i]
  BY <1>1, OctetRead, Zenon
<1>3. \A i \in 1..n : ss[i] \in Seq(Digits) /\ Len(ss[i]) = 2
                      /\ ascii_octet_to_hex(ss[i][1], ss[i][2]) = bytes[i]
  <2> TAKE i \in 1..n
  <2>1. PICK a \in Digits, b \in Digits :
          u8_to_ascii(bytes[i]) = <<a, b>> /\ ascii_octet_to_hex(a, b) = bytes[i]
    BY <1>2
  <2>2. <<a, b>> \in Seq(Digits) /\ Len(<<a, b>>) = 2 /\ <<a, b>>[1] = a /\ <<a, b>>[2] = b
    OBVIOUS
  <2>3. ss[i] = <<a, b>>
    BY <2>1
  <2> QED BY <2>1, <2>2, <2>3, Zenon
<1>4. hexify(bytes) = Flatten(ss)
  BY Zenon DEF hexify
<1>5. Len(ss) = n /\ ss \in Seq(Seq(Digits))
  <2> HIDE DEF ss
  <2>1. ss \in [1..n -> Seq(Digits)]
    BY <1>3, Zenon DEF ss
  <2> QED BY <2>1, FunSeq, Zenon
<1> HIDE DEF ss
<1>6. PICK f \in [0..n -> Seq(Digits)] : Grows(f, ss) /\ Flatten(ss) = f[n]
  BY <1>5, FlattenGrows, Zenon
<1>7. \A i \in 1..n :
           /\ Len(f[i]) = Len(f[i - 1]) + Len(ss[i])
           /\ \A j \in 1..Len(ss[i]) : f[n][Len(f[i - 1]) + j] = ss[i][j]
  <2>1. Len(ss) = n /\ n = Len(ss) /\ ss \in Seq(Seq(Digits)) /\ Grows(f, ss)
    BY <1>5, <1>6
  <2>2. \A i \in 1..n : Lies(f, ss, n, i)
    BY <2>1, PartAt, Zenon
  <2> QED BY <2>2, Zenon DEF Lies
<1> DEFINE A == {i \in 0..n : Len(f[i]) = 2 * i}
<1>8. \A i \in 0..n : i \in A
  <2>1. 0 \in A
    <3>1. f[0] = <<>> /\ 0 \in 0..n
      BY <1>6 DEF Grows
    <3> QED BY <3>1
  <2>2. ASSUME NEW i \in 1..n, i - 1 \in A PROVE i \in A
    <3>1. Len(f[i - 1]) = 2 * (i - 1) /\ i \in 0..n
      BY <2>2
    <3>2. Len(f[i]) = Len(f[i - 1]) + 2
      BY <1>3, <1>7, Zenon
    <3> QED BY <3>1, <3>2
  <2> QED BY <2>1, <2>2, Count
<1>9. f[n] \in Seq(Digits) /\ Len(f[n]) = 2 * n
  BY <1>8
<1>10. ASSUME NEW i \in 1..n
       PROVE  ascii_octet_to_hex(f[n][2 * i - 1], f[n][2 * i]) = bytes[i]
  <2>1. i - 1 \in 0..n
    OBVIOUS
  <2>2. Len(f[i - 1]) = 2 * (i - 1)
    BY <1>8, <2>1
  <2>3. 1 \in 1..Len(ss[i]) /\ 2 \in 1..Len(ss[i])
    BY <1>3
  <2>4. f[n][Len(f[i - 1]) + 1] = ss[i][1] /\ f[n][Len(f[i - 1]) + 2] = ss[i][2]
    BY <1>7, <2>3, Zenon
  <2>5. Len(f[i - 1]) + 1 = 2 * i - 1 /\ Len(f[i - 1]) + 2 = 2 * i
    BY <2>2
  <2> QED BY <1>3, <2>4, <2>5, Zenon
<1> QED BY <1>4, <1>6, <1>9, <1>10, Zenon

\* How the probe takes what is sent this way
Taken == [length |-> "u32_be", hex |-> "end", bool |-> "bool", u8_hex |-> "u8",
          u16_le |-> "u16", u16_be |-> "u16_be", u32_le |-> "u32", u32_be |-> "u32_be"]

LEMMA OctetsBack ==
  ASSUME NEW bytes \in Seq(Octet)
  PROVE  u8_hex_string_to_u8s(hexify(bytes)) = bytes
<1>1. PICK n \in Nat : n = Len(bytes)
  OBVIOUS
<1>2. PICK h : h = hexify(bytes) /\ Len(h) = 2 * n
               /\ \A i \in 1..n : ascii_octet_to_hex(h[2 * i - 1], h[2 * i]) = bytes[i]
  BY <1>1, HexifiedAt, Zenon
<1>3. Len(h) \div 2 = n
  BY <1>2
<1>4. u8_hex_string_to_u8s(h) = [i \in 1..n |-> ascii_octet_to_hex(h[2 * i - 1], h[2 * i])]
  BY <1>3, Zenon DEF u8_hex_string_to_u8s
<1>5. u8_hex_string_to_u8s(h) = [i \in 1..n |-> bytes[i]]
  BY <1>2, <1>4, Zenon
<1>6. bytes = [i \in 1..n |-> bytes[i]]
  BY <1>1
<1> QED BY <1>2, <1>5, <1>6, Zenon

\* The bytes of a word, least significant first
IsBytes(v, a, b, c, d) ==
  /\ a \in Octet /\ b \in Octet /\ c \in Octet /\ d \in Octet
  /\ v = a + 256 * (b + 256 * (c + 256 * d))
  /\ le_bytes(v, 4) = <<a, b, c, d>> /\ be_bytes(v, 4) = <<d, c, b, a>>

(* A word is four octets, and so are its two encodings.                    *)
LEMMA WordBytes ==
  ASSUME NEW v \in Word32
  PROVE  \E a, b, c, d : IsBytes(v, a, b, c, d)
<1> DEFINE a == (v \div Weight[1]) % 256
           b == (v \div Weight[2]) % 256
           c == (v \div Weight[3]) % 256
           d == (v \div Weight[4]) % 256
<1>1. a \in Octet /\ b \in Octet /\ c \in Octet /\ d \in Octet
  <2>1. /\ v \div Weight[1] \in Nat /\ v \div Weight[2] \in Nat
        /\ v \div Weight[3] \in Nat /\ v \div Weight[4] \in Nat
    BY SMT DEF Word32, Weight
  <2> QED BY <2>1, LowByte, Zenon
<1>2. v = a + 256 * (b + 256 * (c + 256 * d))
  <2>0. /\ v \in Nat /\ v \div 16777216 < 256
        /\ Weight[1] = 1 /\ Weight[2] = 256 /\ Weight[3] = 65536 /\ Weight[4] = 16777216
    BY SMT DEF Word32, Weight
  <2>1. d = v \div 16777216
    BY <2>0, SMT
  <2>2. v \div 65536 = 256 * (v \div 16777216) + ((v \div 65536) % 256)
    <3>1. v \div 16777216 = (v \div 65536) \div 256 /\ v \div 65536 \in Nat
      BY <2>0, SMT
    <3> QED BY <3>1, SMT
  <2>3. v \div 256 = 256 * (v \div 65536) + ((v \div 256) % 256)
    <3>1. v \div 65536 = (v \div 256) \div 256 /\ v \div 256 \in Nat
      BY <2>0, SMT
    <3> QED BY <3>1, SMT
  <2>4. v = 256 * (v \div 256) + (v % 256)
    BY <2>0, SMT
  <2>5. a = v % 256 /\ b = (v \div 256) % 256 /\ c = (v \div 65536) % 256
    BY <2>0, SMT
  <2> HIDE DEF a, b, c, d
  <2> QED BY <2>1, <2>2, <2>3, <2>4, <2>5, SMT
<1>4. le_bytes(v, 4) = <<a, b, c, d>>
  <2>1. le_bytes(v, 4) = [i \in 1..4 |-> (v \div Weight[i]) % 256]
    BY Zenon DEF le_bytes
  <2>2. \A i \in 1..4 : (v \div Weight[i]) % 256 = <<a, b, c, d>>[i]
    OBVIOUS
  <2>3. [i \in 1..4 |-> (v \div Weight[i]) % 256] = [i \in 1..4 |-> <<a, b, c, d>>[i]]
    BY <2>2, Zenon
  <2> HIDE DEF a, b, c, d
  <2>4. PICK w : w = le_bytes(v, 4) /\ w = [i \in 1..4 |-> <<a, b, c, d>>[i]]
    BY <2>1, <2>3, Zenon
  <2>5. w = <<a, b, c, d>>
    BY <2>4
  <2> QED BY <2>4, <2>5, Zenon
<1>5. be_bytes(v, 4) = <<d, c, b, a>>
  <2>1. be_bytes(v, 4) = [i \in 1..4 |-> (v \div Weight[4 - i + 1]) % 256]
    BY Zenon DEF be_bytes
  <2>2. ASSUME NEW i \in 1..4 PROVE (v \div Weight[4 - i + 1]) % 256 = <<d, c, b, a>>[i]
    <3>1. CASE i = 1
      BY <3>1
    <3>2. CASE i = 2
      BY <3>2
    <3>3. CASE i = 3
      BY <3>3
    <3>4. CASE i = 4
      BY <3>4
    <3> QED BY <3>1, <3>2, <3>3, <3>4
  <2>3. [i \in 1..4 |-> (v \div Weight[4 - i + 1]) % 256] = [i \in 1..4 |-> <<d, c, b, a>>[i]]
    BY <2>2, Zenon
  <2> HIDE DEF a, b, c, d
  <2>4. PICK w : w = be_bytes(v, 4) /\ w = [i \in 1..4 |-> <<d, c, b, a>>[i]]
    BY <2>1, <2>3, Zenon
  <2>5. w = <<d, c, b, a>>
    BY <2>4
  <2> QED BY <2>4, <2>5, Zenon
<1> HIDE DEF a, b, c, d
<1> QED BY <1>1, <1>2, <1>4, <1>5, Zenon DEF IsBytes

(* A word sent low octet first reads back.                                 *)
LEMMA WordBackLE ==
  ASSUME NEW v \in Word32
  PROVE  u8s_string_to_u32_le(add_u32_le(v)) = v
<1>1. PICK a, b, c, d : IsBytes(v, a, b, c, d)
  BY WordBytes, Zenon
<1>2. /\ a \in Nat /\ b \in Nat /\ c \in Nat /\ d \in Nat
      /\ v = a + 256 * (b + 256 * (c + 256 * d))
  BY <1>1 DEF IsBytes, Octet
<1> DEFINE bytes == u8_hex_string_to_u8s(add_u32_le(v))
           from == CHOOSE from : from = [i \in 1..(Len(bytes) + 1) |->
                     IF i > Len(bytes) THEN 0 ELSE bytes[i] + 256 * from[i + 1]]
<1>3. bytes = <<a, b, c, d>>
  <2>1. <<a, b, c, d>> \in Seq(Octet) /\ add_u32_le(v) = hexify(<<a, b, c, d>>)
    BY <1>1 DEF add_u32_le, IsBytes
  <2> QED BY <2>1, OctetsBack, Zenon
<1>4. u8s_string_to_u32_le(add_u32_le(v)) = from[1]
  BY Zenon DEF u8s_string_to_u32_le
<1> HIDE DEF bytes
<1>5. Len(bytes) = 4 /\ bytes[1] = a /\ bytes[2] = b /\ bytes[3] = c /\ bytes[4] = d
  BY <1>3
<1>6. \E g : g = [i \in 1..(Len(bytes) + 1) |->
                   IF i > Len(bytes) THEN 0 ELSE bytes[i] + 256 * g[i + 1]]
  <2> DEFINE g == <<a + 256 * (b + 256 * (c + 256 * d)), b + 256 * (c + 256 * d),
                    c + 256 * d, d, 0>>
  <2>1. \A i \in 1..5 : g[i] = IF i > 4 THEN 0 ELSE bytes[i] + 256 * g[i + 1]
    <3>1. g[1] = a + 256 * g[2] /\ g[2] = b + 256 * g[3] /\ g[3] = c + 256 * g[4] /\ g[5] = 0
      OBVIOUS
    <3>2. g[4] = d + 256 * g[5]
      BY <1>2
    <3> HIDE DEF g
    <3> QED BY <1>5, <3>1, <3>2
  <2>2. g = [i \in 1..5 |-> g[i]]
    OBVIOUS
  <2>3. Len(bytes) + 1 = 5
    BY <1>5
  <2> HIDE DEF g
  <2>4. g = [i \in 1..(Len(bytes) + 1) |->
               IF i > Len(bytes) THEN 0 ELSE bytes[i] + 256 * g[i + 1]]
    BY <1>5, <2>1, <2>2, <2>3
  <2> QED BY <2>4, Zenon
<1>7. from = [i \in 1..(Len(bytes) + 1) |-> IF i > Len(bytes) THEN 0 ELSE bytes[i] + 256 * from[i + 1]]
  BY <1>6, Zenon
<1> HIDE DEF from
<1>8. \A i \in 1..5 : from[i] = IF i > 4 THEN 0 ELSE bytes[i] + 256 * from[i + 1]
  BY <1>5, <1>7
<1>9. from[5] = 0 /\ from[4] = d + 256 * from[5] /\ from[3] = c + 256 * from[4]
      /\ from[2] = b + 256 * from[3] /\ from[1] = a + 256 * from[2]
  BY <1>5, <1>8
<1> QED BY <1>2, <1>4, <1>9

(* A word sent high octet first reads back.                                *)
LEMMA WordBackBE ==
  ASSUME NEW v \in Word32
  PROVE  u8s_string_to_u32(add_u32(v)) = v
<1>1. PICK a, b, c, d : IsBytes(v, a, b, c, d)
  BY WordBytes, Zenon
<1>2. /\ a \in Nat /\ b \in Nat /\ c \in Nat /\ d \in Nat
      /\ v = a + 256 * (b + 256 * (c + 256 * d))
  BY <1>1 DEF IsBytes, Octet
<1>3. PICK s : s = add_u32(v) /\ s = hexify(<<d, c, b, a>>)
  BY <1>1, Zenon DEF IsBytes, add_u32
<1>4. /\ s \in Seq(Digits) /\ Len(s) = 2 * 4
      /\ \A i \in 1..4 : ascii_octet_to_hex(s[2 * i - 1], s[2 * i]) = <<d, c, b, a>>[i]
  <2>1. <<d, c, b, a>> \in Seq(Octet) /\ Len(<<d, c, b, a>>) = 4 /\ 4 \in Nat
    BY <1>1 DEF IsBytes
  <2> QED BY <1>3, <2>1, HexifiedAt, Zenon
<1>5. /\ Len(s) = 8
      /\ ascii_octet_to_hex(s[1], s[2]) = d /\ ascii_octet_to_hex(s[3], s[4]) = c
      /\ ascii_octet_to_hex(s[5], s[6]) = b /\ ascii_octet_to_hex(s[7], s[8]) = a
  <2>1. ascii_octet_to_hex(s[2 * 1 - 1], s[2 * 1]) = d
    BY <1>4
  <2>2. ascii_octet_to_hex(s[2 * 2 - 1], s[2 * 2]) = c
    BY <1>4
  <2>3. ascii_octet_to_hex(s[2 * 3 - 1], s[2 * 3]) = b
    BY <1>4
  <2>4. ascii_octet_to_hex(s[2 * 4 - 1], s[2 * 4]) = a
    BY <1>4
  <2>5. Len(s) = 8
    BY <1>4
  <2> QED BY <2>1, <2>2, <2>3, <2>4, <2>5
<1>6. PICK f : /\ u8s_string_to_u32(s) = f[8] /\ f[0] = 0 /\ f[8] \in Nat
               /\ \A i \in 1..8 : f[i - 1] \in Nat /\ f[i] = 16 * f[i - 1] + _hex(s[i])
  <2>1. 8 \in Nat /\ 8 = Len(s)
    BY <1>5
  <2> QED BY <2>1, DigitsTurn, Zenon
\* Two digits at a time
<1>7. \A i \in {2, 4, 6, 8} : /\ f[i - 2] \in Nat
                              /\ f[i] = 256 * f[i - 2] + ascii_octet_to_hex(s[i - 1], s[i])
  <2> TAKE i \in {2, 4, 6, 8}
  <2>1. i \in 1..8 /\ i - 1 \in 1..8 /\ (i - 1) - 1 = i - 2
    OBVIOUS
  <2>2. f[i - 2] \in Nat /\ f[i - 1] = 16 * f[i - 2] + _hex(s[i - 1])
        /\ f[i] = 16 * f[i - 1] + _hex(s[i])
    BY <1>6, <2>1
  <2>3. PICK x \in Nat, y \in Nat : x = _hex(s[i - 1]) /\ y = _hex(s[i])
    BY <1>4, <1>5, <2>1, HexTyped
  <2>4. ascii_octet_to_hex(s[i - 1], s[i]) = 16 * x + y
    BY <2>3, Zenon DEF ascii_octet_to_hex
  <2> QED BY <2>2, <2>3, <2>4
<1>8. f[2] = 256 * f[0] + d /\ f[4] = 256 * f[2] + c /\ f[6] = 256 * f[4] + b /\ f[8] = 256 * f[6] + a
  BY <1>5, <1>7
<1>9. v = f[8]
  BY <1>2, <1>6, <1>8
<1> QED BY <1>3, <1>6, <1>9, Zenon

(* Half a word is two octets.                                              *)
LEMMA HalfBytes ==
  ASSUME NEW v \in Word16
  PROVE  \E a, b : /\ a \in Octet /\ b \in Octet /\ v = a + 256 * b
                   /\ le_bytes(v, 2) = <<a, b>> /\ be_bytes(v, 2) = <<b, a>>
<1> DEFINE a == (v \div Weight[1]) % 256
           b == (v \div Weight[2]) % 256
<1>1. v \in Nat /\ v \div 256 < 256 /\ Weight[1] = 1 /\ Weight[2] = 256
  BY SMT DEF Word16, Weight
<1>2. a \in Octet /\ b \in Octet
  BY <1>1, SMT DEF Octet
<1>3. v = a + 256 * b
  <2>1. v = 256 * (v \div 256) + (v % 256)
    BY <1>1, SMT
  <2>2. a = v % 256 /\ b = v \div 256
    BY <1>1, SMT
  <2> HIDE DEF a, b
  <2> QED BY <1>1, <2>1, <2>2, SMT
<1>4. le_bytes(v, 2) = <<a, b>>
  <2>1. le_bytes(v, 2) = [i \in 1..2 |-> (v \div Weight[i]) % 256]
    BY Zenon DEF le_bytes
  <2>2. \A i \in 1..2 : (v \div Weight[i]) % 256 = <<a, b>>[i]
    OBVIOUS
  <2>3. [i \in 1..2 |-> (v \div Weight[i]) % 256] = [i \in 1..2 |-> <<a, b>>[i]]
    BY <2>2, Zenon
  <2> HIDE DEF a, b
  <2>4. PICK w : w = le_bytes(v, 2) /\ w = [i \in 1..2 |-> <<a, b>>[i]]
    BY <2>1, <2>3, Zenon
  <2>5. w = <<a, b>>
    BY <2>4
  <2> QED BY <2>4, <2>5, Zenon
<1>5. be_bytes(v, 2) = <<b, a>>
  <2>1. be_bytes(v, 2) = [i \in 1..2 |-> (v \div Weight[2 - i + 1]) % 256]
    BY Zenon DEF be_bytes
  <2>2. ASSUME NEW i \in 1..2 PROVE (v \div Weight[2 - i + 1]) % 256 = <<b, a>>[i]
    <3>1. CASE i = 1
      BY <3>1
    <3>2. CASE i = 2
      BY <3>2
    <3> QED BY <3>1, <3>2
  <2>3. [i \in 1..2 |-> (v \div Weight[2 - i + 1]) % 256] = [i \in 1..2 |-> <<b, a>>[i]]
    BY <2>2, Zenon
  <2> HIDE DEF a, b
  <2>4. PICK w : w = be_bytes(v, 2) /\ w = [i \in 1..2 |-> <<b, a>>[i]]
    BY <2>1, <2>3, Zenon
  <2>5. w = <<b, a>>
    BY <2>4
  <2> QED BY <2>4, <2>5, Zenon
<1> HIDE DEF a, b
<1> QED BY <1>2, <1>3, <1>4, <1>5, Zenon

(* Two octets as four digits.                                              *)
LEMMA TwoOctets ==
  ASSUME NEW a \in Octet, NEW b \in Octet
  PROVE  /\ next_u8(SubSeq(hexify(<<a, b>>), 1, 2)) = a
         /\ next_u8(SubSeq(hexify(<<a, b>>), 3, 4)) = b
         /\ hexify(<<a, b>>) \in Seq(Digits) /\ Len(hexify(<<a, b>>)) = 4
<1>1. PICK s : s = hexify(<<a, b>>)
  OBVIOUS
<1>2. /\ s \in Seq(Digits) /\ Len(s) = 2 * 2
      /\ \A i \in 1..2 : ascii_octet_to_hex(s[2 * i - 1], s[2 * i]) = <<a, b>>[i]
  <2>1. <<a, b>> \in Seq(Octet) /\ Len(<<a, b>>) = 2 /\ 2 \in Nat
    OBVIOUS
  <2> QED BY <1>1, <2>1, HexifiedAt, Zenon
<1>3. Len(s) = 4 /\ ascii_octet_to_hex(s[1], s[2]) = a /\ ascii_octet_to_hex(s[3], s[4]) = b
  <2>1. ascii_octet_to_hex(s[2 * 1 - 1], s[2 * 1]) = a
    BY <1>2
  <2>2. ascii_octet_to_hex(s[2 * 2 - 1], s[2 * 2]) = b
    BY <1>2
  <2> QED BY <1>2, <2>1, <2>2
<1>4. next_u8(SubSeq(s, 1, 2)) = ascii_octet_to_hex(s[1], s[2])
  <2>1. SubSeq(s, 1, 2)[1] = s[1] /\ SubSeq(s, 1, 2)[2] = s[2]
    BY <1>2, <1>3
  <2> QED BY <2>1, Zenon DEF next_u8
<1>5. next_u8(SubSeq(s, 3, 4)) = ascii_octet_to_hex(s[3], s[4])
  <2>1. SubSeq(s, 3, 4)[1] = s[3] /\ SubSeq(s, 3, 4)[2] = s[4]
    BY <1>2, <1>3
  <2> QED BY <2>1, Zenon DEF next_u8
<1> QED BY <1>1, <1>2, <1>3, <1>4, <1>5, Zenon

(* A word takes eight digits.                                              *)
LEMMA WordSent ==
  ASSUME NEW v \in Word32
  PROVE  /\ add_u32(v) \in Seq(Digits) /\ Len(add_u32(v)) = 8
         /\ add_u32_le(v) \in Seq(Digits) /\ Len(add_u32_le(v)) = 8
<1>1. PICK a, b, c, d : IsBytes(v, a, b, c, d)
  BY WordBytes, Zenon
<1>2. \A p, q, r, s \in Octet : /\ hexify(<<p, q, r, s>>) \in Seq(Digits)
                                /\ Len(hexify(<<p, q, r, s>>)) = 8
  <2> TAKE p, q, r, s \in Octet
  <2>1. <<p, q, r, s>> \in Seq(Octet) /\ Len(<<p, q, r, s>>) = 4 /\ 4 \in Nat /\ 2 * 4 = 8
    OBVIOUS
  <2> QED BY <2>1, HexifiedAt, Zenon
<1>3. /\ a \in Octet /\ b \in Octet /\ c \in Octet /\ d \in Octet
      /\ add_u32(v) = hexify(<<d, c, b, a>>) /\ add_u32_le(v) = hexify(<<a, b, c, d>>)
  BY <1>1, Zenon DEF add_u32, add_u32_le, IsBytes
<1>4. /\ hexify(<<d, c, b, a>>) \in Seq(Digits) /\ Len(hexify(<<d, c, b, a>>)) = 8
      /\ hexify(<<a, b, c, d>>) \in Seq(Digits) /\ Len(hexify(<<a, b, c, d>>)) = 8
  BY <1>2, <1>3, Zenon
<1> QED BY <1>3, <1>4, Zenon

\* A parameter the probe reads as it was meant, from all it was sent as
Arrives(how, arg) ==
  /\ NextParameter(Taken[how], Encode(how, arg)) = arg
  /\ Encode(how, arg) \in Seq(Digits)
  /\ how # "hex" => Len(Encode(how, arg)) = Width[Taken[how]]

(* A parameter of the width of its kind arrives as it was sent.            *)
LEMMA ParameterArrives ==
  ASSUME NEW how \in DOMAIN Taken, NEW arg \in Fitting(how)
  PROVE  Arrives(how, arg)
<1>0. DOMAIN Taken = {"length", "hex", "bool", "u8_hex", "u16_le", "u16_be", "u32_le", "u32_be"}
  BY DEF Taken
<1>1. CASE how = "hex"
  <2>1. /\ Fitting(how) = Seq(Octet) /\ Taken[how] = "end"
        /\ Encode(how, arg) = hexify(arg)
    BY <1>1 DEF Fitting, Taken, Encode
  <2>2. \A s : NextParameter("end", s) = u8_hex_string_to_u8s(s)
    BY DEF NextParameter
  <2>3. arg \in Seq(Octet)
    BY <2>1, Zenon
  <2>4. hexify(arg) \in Seq(Digits)
    <3>1. PICK n \in Nat : n = Len(arg)
      BY <2>3
    <3> QED BY <2>3, <3>1, HexifiedAt, Zenon
  <2> QED BY <1>1, <2>1, <2>2, <2>3, <2>4, OctetsBack, Zenon DEF Arrives
<1>2. CASE how = "bool"
  <2>1. /\ Fitting(how) = {0, 1} /\ Taken[how] = "bool" /\ Width["bool"] = 1
        /\ Encode(how, arg) = <<48 + arg>>
    BY <1>2 DEF Fitting, Taken, Encode, Width
  <2>2. \A s : NextParameter("bool", s) = next_bool(s)
    BY DEF NextParameter
  <2>3. \A v \in {0, 1} : /\ next_bool(<<48 + v>>) = v /\ <<48 + v>> \in Seq(Digits)
                          /\ Len(<<48 + v>>) = 1
    BY DEF next_bool, Digits
  <2>4. arg \in {0, 1}
    BY <2>1, Zenon
  <2> QED BY <2>1, <2>2, <2>3, <2>4, Zenon DEF Arrives
<1>3. CASE how = "u8_hex"
  <2>1. /\ Fitting(how) = Octet /\ Taken[how] = "u8" /\ Width["u8"] = 2
        /\ Encode(how, arg) = u8_to_ascii(arg)
    BY <1>3 DEF Fitting, Taken, Encode, Width
  <2>2. \A s : NextParameter("u8", s) = next_u8(s)
    BY DEF NextParameter
  <2>3. arg \in Octet
    BY <2>1, Zenon
  <2>4. PICK a \in Digits, b \in Digits :
          u8_to_ascii(arg) = <<a, b>> /\ ascii_octet_to_hex(a, b) = arg
    BY <2>3, OctetRead, Zenon
  <2>5. <<a, b>> \in Seq(Digits) /\ Len(<<a, b>>) = 2 /\ <<a, b>>[1] = a /\ <<a, b>>[2] = b
    OBVIOUS
  <2> QED BY <2>1, <2>2, <2>4, <2>5, Zenon DEF Arrives, next_u8
<1>4. CASE how \in {"u16_le", "u16_be"}
  <2>1. Fitting(how) = Word16
    BY <1>4 DEF Fitting
  <2>2. PICK a, b : /\ a \in Octet /\ b \in Octet /\ arg = a + 256 * b
                    /\ le_bytes(arg, 2) = <<a, b>> /\ be_bytes(arg, 2) = <<b, a>>
    BY <2>1, HalfBytes, Zenon
  <2>3. a \in Nat /\ b \in Nat /\ 256 * b + a = arg
    BY <2>2 DEF Octet
  <2>4. CASE how = "u16_le"
    <3>1. Taken[how] = "u16" /\ Width["u16"] = 4 /\ Encode(how, arg) = hexify(<<a, b>>)
      BY <2>2, <2>4 DEF Taken, Encode, Width
    <3>2. \A s : NextParameter("u16", s) = next_u16(s)
      BY DEF NextParameter
    <3>3. next_u16(hexify(<<a, b>>)) = a + 256 * b
      BY <2>2, TwoOctets, Zenon DEF next_u16
    <3>4. next_u16(hexify(<<a, b>>)) = arg
      BY <2>2, <3>3, Zenon
    <3>5. hexify(<<a, b>>) \in Seq(Digits) /\ Len(hexify(<<a, b>>)) = 4
      BY <2>2, TwoOctets, Zenon
    <3> QED BY <3>1, <3>2, <3>4, <3>5, Zenon DEF Arrives
  <2>5. CASE how = "u16_be"
    <3>1. Taken[how] = "u16_be" /\ Width["u16_be"] = 4 /\ Encode(how, arg) = hexify(<<b, a>>)
      BY <2>2, <2>5 DEF Taken, Encode, Width
    <3>2. \A s : NextParameter("u16_be", s) = next_u16_be(s)
      BY DEF NextParameter
    <3>3. next_u16_be(hexify(<<b, a>>)) = 256 * b + a
      BY <2>2, TwoOctets, Zenon DEF next_u16_be
    <3>4. next_u16_be(hexify(<<b, a>>)) = arg
      BY <2>3, <3>3, Zenon
    <3>5. hexify(<<b, a>>) \in Seq(Digits) /\ Len(hexify(<<b, a>>)) = 4
      BY <2>2, TwoOctets, Zenon
    <3> QED BY <3>1, <3>2, <3>4, <3>5, Zenon DEF Arrives
  <2> QED BY <1>4, <2>4, <2>5
<1>5. CASE how = "u32_le"
  <2>1. /\ Fitting(how) = Word32 /\ Taken[how] = "u32" /\ Width["u32"] = 8
        /\ Encode(how, arg) = add_u32_le(arg)
    BY <1>5 DEF Fitting, Taken, Encode, Width
  <2>2. \A s : NextParameter("u32", s) = u8s_string_to_u32_le(s)
    BY DEF NextParameter, next_u32
  <2>3. arg \in Word32
    BY <2>1, Zenon
  <2> QED BY <2>1, <2>2, <2>3, WordSent, WordBackLE, Zenon DEF Arrives
<1>6. CASE how \in {"u32_be", "length"}
  <2>1. /\ Fitting(how) = Word32 /\ Taken[how] = "u32_be" /\ Width["u32_be"] = 8
        /\ Encode(how, arg) = add_u32(arg)
    BY <1>6 DEF Fitting, Taken, Encode, Width
  <2>2. \A s : NextParameter("u32_be", s) = u8s_string_to_u32(s)
    BY DEF NextParameter, next_u32_be
  <2>3. arg \in Word32
    BY <2>1, Zenon
  <2> QED BY <2>1, <2>2, <2>3, WordSent, WordBackBE, Zenon DEF Arrives
<1> QED BY <1>0, <1>1, <1>2, <1>3, <1>4, <1>5, <1>6, Zenon

\* The parameters a command takes are those the stub sends, what takes all
\* that is left the last of them
Matches(takes, sends) ==
  /\ Len(takes) = Len(sends)
  /\ \A i \in 1..Len(sends) :
       /\ sends[i] \in DOMAIN Taken /\ takes[i] = Taken[sends[i]]
       /\ sends[i] = "hex" => i = Len(sends)

(* Only a block takes the rest of a call.                                  *)
LEMMA TakenWidths ==
  /\ \A how \in DOMAIN Taken : Width[Taken[how]] \in Nat
  /\ \A how \in DOMAIN Taken : Taken[how] = "end" => how = "hex"
  /\ \A how \in DOMAIN Taken : how = "hex" => Taken[how] = "end"
BY DEF Taken, Width

LEMMA SeqDigits == \A s \in Seq(Digits) : Len(s) \in Nat
OBVIOUS

\* Where Arguments takes the ith parameter from, and up to where
From(takes, i) == Sum([k \in 1..(i - 1) |-> Width[takes[k]]])
To(takes, sent, i) ==
  IF takes[i] = "end" \/ Len(sent) < From(takes, i) + Width[takes[i]]
  THEN Len(sent) ELSE From(takes, i) + Width[takes[i]]

(* Every parameter starts where those before it end.                       *)
LEMMA FromAt ==
  ASSUME NEW n \in Nat, NEW ss \in [1..n -> Seq(Digits)], NEW f \in [0..n -> Seq(Digits)],
         \A i \in 1..n : Lies(f, ss, n, i), f[0] = <<>>,
         NEW takes, NEW i \in 1..n,
         \A k \in 1..(i - 1) : Len(ss[k]) = Width[takes[k]]
  PROVE  From(takes, i) = Len(f[i - 1])
<1> DEFINE w == [k \in 1..(i - 1) |-> Width[takes[k]]]
<1>1. i - 1 \in Nat /\ i - 1 <= n /\ \A k \in 1..(i - 1) : k \in 1..n /\ k - 1 \in 0..n
  OBVIOUS
<1>2. \A k \in 1..(i - 1) : Width[takes[k]] \in Nat
  <2> TAKE k \in 1..(i - 1)
  <2>1. ss[k] \in Seq(Digits)
    BY <1>1
  <2> QED BY <2>1, SeqDigits
<1>3. w \in Seq(Nat) /\ Len(w) = i - 1 /\ \A k \in 1..(i - 1) : w[k] = Width[takes[k]]
  <2>0. \A k \in 1..(i - 1) : w[k] = Width[takes[k]]
    OBVIOUS
  <2>1. w \in [1..(i - 1) -> Nat]
    BY <1>2
  <2> HIDE DEF w
  <2> QED BY <1>1, <2>0, <2>1, FunSeq, Zenon
<1>4. From(takes, i) = Sum(w)
  BY Zenon DEF From
<1> HIDE DEF w
<1>5. PICK g \in [0..(i - 1) -> Nat] : Adds(g, w) /\ Sum(w) = g[i - 1]
  <2>1. \E g \in [0..Len(w) -> Nat] : Adds(g, w) /\ Sum(w) = g[Len(w)]
    BY <1>3, SumAdds, Zenon
  <2> QED BY <1>3, <2>1, Zenon
<1>6. g[0] = 0 /\ \A k \in 1..(i - 1) : g[k] = g[k - 1] + Width[takes[k]]
  BY <1>3, <1>5, Zenon DEF Adds
<1> DEFINE A == {k \in 0..(i - 1) : g[k] = Len(f[k])}
<1>7. 0 \in A
  <2>1. Len(f[0]) = 0 /\ 0 \in 0..(i - 1)
    BY <1>1
  <2> QED BY <1>6, <2>1
<1>8. ASSUME NEW k \in 1..(i - 1), k - 1 \in A PROVE k \in A
  <2>1. k \in 1..n /\ k \in 0..(i - 1)
    BY <1>1
  <2>2. Len(f[k]) = Len(f[k - 1]) + Len(ss[k])
    BY <2>1, Zenon DEF Lies
  <2>3. g[k - 1] = Len(f[k - 1])
    BY <1>8
  <2>4. g[k] = Len(f[k])
    BY <1>6, <2>2, <2>3, Zenon
  <2> QED BY <2>1, <2>4
<1>9. \A k \in 0..(i - 1) : k \in A
  BY <1>1, <1>7, <1>8, Count
<1>10. i - 1 \in A
  BY <1>9
<1> QED BY <1>4, <1>5, <1>10

(* What stands at a place is what is cut out there.                        *)
LEMMA CutOut ==
  ASSUME NEW S, NEW t \in Seq(S), NEW a \in Nat, NEW b \in Nat, NEW p \in Seq(S),
         b = a + Len(p), b <= Len(t), \A j \in 1..Len(p) : t[a + j] = p[j]
  PROVE  SubSeq(t, a + 1, b) = p
<1>0. PICK n \in Nat : n = Len(p) /\ b - a = n /\ a <= b
  <2>1. \A s \in Seq(S) : Len(s) \in Nat
    OBVIOUS
  <2>2. PICK n \in Nat : n = Len(p)
    BY <2>1
  <2> QED BY <2>2
<1>1. PICK c : c = SubSeq(t, a + 1, b)
  OBVIOUS
<1>2. c \in Seq(S) /\ Len(c) = n /\ \A i \in 1..n : c[i] = t[a + i]
  <2>1. /\ SubSeq(t, a + 1, b) \in Seq(S)
        /\ a <= b => Len(SubSeq(t, a + 1, b)) = b - a
        /\ \A i \in 1..(b - a) : SubSeq(t, a + 1, b)[i] = t[a + i]
    BY CutAt
  <2> QED BY <1>0, <1>1, <2>1
<1>3. c = [i \in 1..n |-> c[i]] /\ p = [i \in 1..n |-> p[i]]
  BY <1>0, <1>2
<1>4. \A i \in 1..n : c[i] = p[i]
  BY <1>0, <1>2, Zenon
<1> QED BY <1>1, <1>3, <1>4


\* The parts of what was sent, each as wide as the command expects
Parted(n, ss, takes) ==
  /\ Len(takes) = n
  /\ \A i \in 1..n : takes[i] = "end" => i = n
  /\ \A i \in 1..n : takes[i] # "end" => Len(ss[i]) = Width[takes[i]]

(* The command takes apart what was put together.                          *)
LEMMA TakenApart ==
  ASSUME NEW n \in Nat, NEW ss \in [1..n -> Seq(Digits)], NEW takes, Parted(n, ss, takes)
  PROVE  /\ Arguments(takes, Flatten(ss)) = [i \in 1..n |-> NextParameter(takes[i], ss[i])]
         /\ Flatten(ss) \in Seq(Digits)
<1>3. \A i \in 1..n : /\ ss[i] \in Seq(Digits)
                      /\ i # n => Len(ss[i]) = Width[takes[i]]
                      /\ takes[i] # "end" => Len(ss[i]) = Width[takes[i]]
                      /\ takes[i] = "end" => i = n
  <2>1. \A i \in 1..n : ss[i] \in Seq(Digits)
    OBVIOUS
  <2> QED BY <2>1, Zenon DEF Parted
<1>4. ss \in Seq(Seq(Digits)) /\ n = Len(ss)
  BY FunSeq
<1>5. PICK f \in [0..n -> Seq(Digits)] : Grows(f, ss) /\ Flatten(ss) = f[n]
  <2>1. \E f \in [0..Len(ss) -> Seq(Digits)] : Grows(f, ss) /\ Flatten(ss) = f[Len(ss)]
    BY <1>4, FlattenGrows, Zenon
  <2> QED BY <1>4, <2>1, Zenon
<1>6. \A i \in 1..n : Lies(f, ss, n, i)
  BY <1>4, <1>5, PartAt, Zenon
<1>7. f[0] = <<>> /\ f[n] \in Seq(Digits)
  <2>1. n \in 0..n
    OBVIOUS
  <2> QED BY <1>5, <2>1 DEF Grows
<1>8. PICK sent : sent = f[n] /\ sent = Flatten(ss)
  BY <1>5
<1>9. ASSUME NEW i \in 1..n
      PROVE  SubSeq(sent, From(takes, i) + 1, To(takes, sent, i)) = ss[i]
  <2>1. From(takes, i) = Len(f[i - 1])
    <3>1. \A k \in 1..(i - 1) : k \in 1..n /\ k # n
      OBVIOUS
    <3>2. \A k \in 1..(i - 1) : Len(ss[k]) = Width[takes[k]]
      BY <1>3, <3>1, Zenon
    <3> QED BY <1>6, <1>7, <3>2, FromAt
  <2>2. PICK a \in Nat, b \in Nat, l \in Nat :
          a = Len(f[i - 1]) /\ b = Len(f[i]) /\ l = Len(sent) /\ b = a + Len(ss[i]) /\ b <= l
    <3>1. i - 1 \in 0..n /\ i \in 0..n /\ n \in 0..n
      OBVIOUS
    <3>2. f[i - 1] \in Seq(Digits) /\ f[i] \in Seq(Digits) /\ f[n] \in Seq(Digits)
      BY <3>1
    <3>3. Len(f[i]) = Len(f[i - 1]) + Len(ss[i]) /\ Len(f[i]) <= Len(f[n])
      BY <1>6, Zenon DEF Lies
    <3> QED BY <1>8, <3>2, <3>3, SeqDigits, Zenon
  <2>3. To(takes, sent, i) = b
    <3>1. CASE takes[i] = "end"
      <4>1. i = n
        BY <1>3, <3>1, Zenon
      <4>2. b = Len(sent)
        BY <1>8, <2>2, <4>1, Zenon
      <4> QED BY <3>1, <4>2, Zenon DEF To
    <3>2. CASE takes[i] # "end"
      <4>1. Len(ss[i]) = Width[takes[i]]
        BY <1>3, <3>2, Zenon
      <4>2. From(takes, i) + Width[takes[i]] = b
        BY <2>1, <2>2, <4>1, Zenon
      <4>3. ~(Len(sent) < b)
        <5>1. l = Len(sent) /\ b <= l
          BY <2>2
        <5> QED BY <5>1
      <4> QED BY <3>2, <4>2, <4>3, Zenon DEF To
    <3> QED BY <3>1, <3>2
  <2>4. SubSeq(sent, a + 1, b) = ss[i]
    <3>1. \A j \in 1..Len(ss[i]) : sent[a + j] = ss[i][j]
      <4>1. \A j \in 1..Len(ss[i]) : f[n][Len(f[i - 1]) + j] = ss[i][j]
        BY <1>6, Zenon DEF Lies
      <4>2. a = Len(f[i - 1])
        BY <2>2
      <4> QED BY <1>8, <4>1, <4>2
    <3>2. sent \in Seq(Digits) /\ ss[i] \in Seq(Digits)
      BY <1>3, <1>7, <1>8, Zenon
    <3>3. b <= Len(sent)
      BY <2>2
    <3> QED BY <2>2, <3>1, <3>2, <3>3, CutOut, Zenon
  <2> QED BY <2>1, <2>2, <2>3, <2>4, Zenon
<1>10. Arguments(takes, sent)
         = [i \in 1..n |-> NextParameter(takes[i],
                             SubSeq(sent, From(takes, i) + 1, To(takes, sent, i)))]
  <2>1. Len(takes) = n
    BY Zenon DEF Parted
  <2> QED BY <2>1, Zenon DEF Arguments, From, To
<1>11. Arguments(takes, sent) = [i \in 1..n |-> NextParameter(takes[i], ss[i])]
  BY <1>9, <1>10, Zenon
<1> QED BY <1>7, <1>8, <1>11, Zenon

AllFit(sends, args, n) ==
  /\ n = Len(sends) /\ args = [i \in 1..n |-> args[i]]
  /\ \A i \in 1..n : args[i] \in Fitting(sends[i])

(* The parameters arrive, one by one.                                      *)
LEMMA ArgumentsArrive ==
  ASSUME NEW sends, NEW takes, Matches(takes, sends), NEW n \in Nat, NEW args,
         AllFit(sends, args, n)
  PROVE  /\ Arguments(takes, Sent(sends, args, n)) = args
         /\ Sent(sends, args, n) \in Seq(Digits)
<1> DEFINE ss == [i \in 1..n |-> Encode(sends[i], args[i])]
<1>0. args = [i \in 1..n |-> args[i]]
  BY Zenon DEF AllFit
<1>1. \A i \in 1..n : /\ sends[i] \in DOMAIN Taken /\ takes[i] = Taken[sends[i]]
                      /\ sends[i] = "hex" => i = n
  BY Zenon DEF Matches, AllFit
<1>2. \A i \in 1..n : /\ ss[i] = Encode(sends[i], args[i])
                      /\ Arrives(sends[i], args[i])
  <2> TAKE i \in 1..n
  <2>1. ss[i] = Encode(sends[i], args[i])
    OBVIOUS
  <2>2. Arrives(sends[i], args[i])
    BY <1>1, ParameterArrives, Zenon DEF AllFit
  <2> QED BY <2>1, <2>2
<1>3. ss = [i \in 1..n |-> ss[i]]
  OBVIOUS
<1> HIDE DEF ss
<1>4. ASSUME NEW i \in 1..n
      PROVE  /\ NextParameter(takes[i], ss[i]) = args[i] /\ ss[i] \in Seq(Digits)
             /\ takes[i] # "end" => Len(ss[i]) = Width[takes[i]]
             /\ takes[i] = "end" => i = n
  <2>1. /\ sends[i] \in DOMAIN Taken /\ takes[i] = Taken[sends[i]]
        /\ sends[i] = "hex" => i = n
        /\ ss[i] = Encode(sends[i], args[i])
    BY <1>1, <1>2, Zenon
  <2>2. /\ NextParameter(Taken[sends[i]], ss[i]) = args[i] /\ ss[i] \in Seq(Digits)
        /\ sends[i] # "hex" => Len(ss[i]) = Width[Taken[sends[i]]]
    BY <1>2, <2>1, Zenon DEF Arrives
  <2>3. takes[i] = "end" <=> sends[i] = "hex"
    BY <2>1, TakenWidths, Zenon
  <2> QED BY <2>1, <2>2, <2>3, Zenon
<1>5. ss \in [1..n -> Seq(Digits)]
  BY <1>3, <1>4
<1>6. Parted(n, ss, takes)
  BY <1>4, Zenon DEF Parted, Matches, AllFit
<1>7. /\ Arguments(takes, Flatten(ss)) = [i \in 1..n |-> NextParameter(takes[i], ss[i])]
      /\ Flatten(ss) \in Seq(Digits)
  BY <1>5, <1>6, TakenApart, Zenon
<1>8. Arguments(takes, Flatten(ss)) = [i \in 1..n |-> args[i]]
  BY <1>4, <1>7, Zenon
<1>9. Arguments(takes, Flatten(ss)) = args
  BY <1>0, <1>8, Zenon
<1> QED BY <1>7, <1>9, Zenon DEF ss, Sent

-----------------------------------------------------------------------------
(* The commands the stubs name.                                            *)

LEMMA LettersDiffer == \A k, l \in DOMAIN Ch : Ch[k] = Ch[l] => k = l
BY DEF Ch

\* What a command of the probe takes and does
HasCommand(class, cmd, takes, does) ==
  /\ class \in DOMAIN Classes /\ cmd \in DOMAIN Classes[class]
  /\ Classes[class][cmd].takes = takes /\ Classes[class][cmd].does = does

(* The commands of each class, letter by letter.                           *)
LEMMA GenCommands ==
  /\ HasCommand("G", "A", <<>>, "start")
  /\ HasCommand("G", "V", <<>>, "voltage")
  /\ HasCommand("G", "Z", <<"bool">>, "nrst_set")
  /\ HasCommand("G", "z", <<>>, "nrst_get")
  /\ HasCommand("G", "E", <<"bool">>, "target_clk_oe")
  /\ HasCommand("G", "F", <<"u32">>, "set_fq")
  /\ HasCommand("G", "f", <<>>, "get_fq")
  /\ HasCommand("G", "P", <<"bool">>, "pwr_set")
  /\ HasCommand("G", "p", <<>>, "pwr_get")
  /\ HasCommand("G", "R", <<>>, "gpio_reset")
BY DEF HasCommand, Classes, rpc_gen_impl, Command

LEMMA SwdpCommands ==
  /\ HasCommand("S", "S", <<>>, "init_swd")
BY DEF HasCommand, Classes, rpc_swdp_impl, Command

LEMMA HlCommands ==
  /\ HasCommand("H", "C", <<>>, "check")
  /\ HasCommand("H", "A", <<>>, "accel")
BY DEF HasCommand, Classes, rpc_hl_impl, Command

LEMMA SdiCommands ==
  /\ HasCommand("I", "S", <<>>, "sdi_reset")
  /\ HasCommand("I", "r", <<"u8">>, "sdi_read")
  /\ HasCommand("I", "w", <<"u8", "u32">>, "sdi_write")
  /\ HasCommand("I", "T", <<"u32", "u32", "u32", "u32", "bool">>, "set_sdi_wire")
BY DEF HasCommand, Classes, rpc_sdi_impl, Command

LEMMA RvCommands ==
  /\ HasCommand("B", "S", <<>>, "rv_reset")
  /\ HasCommand("B", "r", <<"u8">>, "rv_read")
  /\ HasCommand("B", "w", <<"u8", "u32">>, "rv_write")
BY DEF HasCommand, Classes, rpc_rv_impl, Command

LEMMA LnadivCommands ==
  /\ HasCommand("L", "W", <<"u16", "u32">>, "swd_write")
  /\ HasCommand("L", "R", <<"u16">>, "swd_read")
  /\ HasCommand("L", "A", <<"u32", "u32">>, "raw_swd_write")
  /\ HasCommand("L", "B", <<"u8", "u16", "u32">>, "swd_raw_access")
BY DEF HasCommand, Classes, rpc_lnadiv_impl, Command

LEMMA Adiv5Commands ==
  /\ HasCommand("A", "R", <<"u8", "u8", "u16_be", "u32_be">>, "dp_low_level")
  /\ HasCommand("A", "d", <<"u8", "u8", "u32_be">>, "dp_read")
  /\ HasCommand("A", "a", <<"u8", "u8", "u16_be">>, "ap_read")
  /\ HasCommand("A", "A", <<"u8", "u8", "u16_be", "u32_be">>, "ap_write")
  /\ HasCommand("A", "m", <<"u8", "u8", "u32_be", "u32_be", "u32_be">>, "mem_read")
  /\ HasCommand("A", "M", <<"u8", "u8", "u32_be", "u8", "u32_be", "u32_be", "end">>, "mem_write")
BY DEF HasCommand, Classes, rpc_adiv5_impl, Command

LEMMA SwindleCommands ==
  /\ HasCommand("Z", "C", <<"u32", "u32">>, "crc32")
  /\ HasCommand("Z", "G", <<>>, "get_fq")
  /\ HasCommand("Z", "S", <<"u32">>, "set_fq")
BY DEF HasCommand, Classes, rpc_swindle_impl, Command

(* Every class and every command has a letter.                             *)
LEMMA CommandLetters ==
  /\ DOMAIN Classes \subseteq DOMAIN Ch
  /\ \A class \in DOMAIN Classes : DOMAIN Classes[class] \subseteq DOMAIN Ch
BY DEF Classes, Ch, rpc_gen_impl, rpc_swdp_impl, rpc_hl_impl, rpc_sdi_impl, rpc_rv_impl,
       rpc_lnadiv_impl, rpc_adiv5_impl, rpc_swindle_impl

(* What the commands take is what the stubs send.                          *)
LEMMA ListsMatch ==
  /\ Matches(<<>>, <<>>)
  /\ Matches(<<"bool">>, <<"bool">>)
  /\ Matches(<<"u32">>, <<"u32_le">>)
  /\ Matches(<<"u8">>, <<"u8_hex">>)
  /\ Matches(<<"u8", "u32">>, <<"u8_hex", "u32_le">>)
  /\ Matches(<<"u32", "u32", "u32", "u32", "bool">>, <<"u32_le", "u32_le", "u32_le", "u32_le",
       "bool">>)
  /\ Matches(<<"u16", "u32">>, <<"u16_le", "u32_le">>)
  /\ Matches(<<"u16">>, <<"u16_le">>)
  /\ Matches(<<"u32", "u32">>, <<"u32_le", "u32_le">>)
  /\ Matches(<<"u8", "u16", "u32">>, <<"u8_hex", "u16_le", "u32_le">>)
  /\ Matches(<<"u8", "u8", "u16_be", "u32_be">>, <<"u8_hex", "u8_hex", "u16_be", "u32_be">>)
  /\ Matches(<<"u8", "u8", "u32_be">>, <<"u8_hex", "u8_hex", "u32_be">>)
  /\ Matches(<<"u8", "u8", "u16_be">>, <<"u8_hex", "u8_hex", "u16_be">>)
  /\ Matches(<<"u8", "u8", "u32_be", "u32_be", "u32_be">>, <<"u8_hex", "u8_hex", "u32_be",
       "u32_be", "length">>)
  /\ Matches(<<"u8", "u8", "u32_be", "u8", "u32_be", "u32_be", "end">>, <<"u8_hex", "u8_hex",
       "u32_be", "u8_hex", "u32_be", "length", "hex">>)
<1>1. Matches(<<>>, <<>>)
  BY DEF Matches, Taken
<1>2. Matches(<<"bool">>, <<"bool">>)
  BY DEF Matches, Taken
<1>3. Matches(<<"u32">>, <<"u32_le">>)
  BY DEF Matches, Taken
<1>4. Matches(<<"u8">>, <<"u8_hex">>)
  BY DEF Matches, Taken
<1>5. Matches(<<"u8", "u32">>, <<"u8_hex", "u32_le">>)
  BY DEF Matches, Taken
<1>6. Matches(<<"u32", "u32", "u32", "u32", "bool">>, <<"u32_le", "u32_le", "u32_le", "u32_le",
     "bool">>)
  BY DEF Matches, Taken
<1>7. Matches(<<"u16", "u32">>, <<"u16_le", "u32_le">>)
  BY DEF Matches, Taken
<1>8. Matches(<<"u16">>, <<"u16_le">>)
  BY DEF Matches, Taken
<1>9. Matches(<<"u32", "u32">>, <<"u32_le", "u32_le">>)
  BY DEF Matches, Taken
<1>10. Matches(<<"u8", "u16", "u32">>, <<"u8_hex", "u16_le", "u32_le">>)
  BY DEF Matches, Taken
<1>11. Matches(<<"u8", "u8", "u16_be", "u32_be">>, <<"u8_hex", "u8_hex", "u16_be", "u32_be">>)
  BY DEF Matches, Taken
<1>12. Matches(<<"u8", "u8", "u32_be">>, <<"u8_hex", "u8_hex", "u32_be">>)
  BY DEF Matches, Taken
<1>13. Matches(<<"u8", "u8", "u16_be">>, <<"u8_hex", "u8_hex", "u16_be">>)
  BY DEF Matches, Taken
<1>14. Matches(<<"u8", "u8", "u32_be", "u32_be", "u32_be">>, <<"u8_hex", "u8_hex", "u32_be",
     "u32_be", "length">>)
  BY DEF Matches, Taken
<1>15. Matches(<<"u8", "u8", "u32_be", "u8", "u32_be", "u32_be", "end">>, <<"u8_hex", "u8_hex",
     "u32_be", "u8_hex", "u32_be", "length", "hex">>)
  BY DEF Matches, Taken
<1> QED BY <1>1, <1>2, <1>3, <1>4, <1>5, <1>6, <1>7, <1>8, <1>9, <1>10, <1>11, <1>12, <1>13,
     <1>14, <1>15, Zenon

\* A stub names the command that does what it stands for and takes what it
\* sends; those of the pins name none
Runs(entry) ==
  /\ entry.class \in DOMAIN Classes
  /\ IF entry.means = "pin" THEN entry.cmd \in DOMAIN Ch \ DOMAIN Classes[entry.class]
     ELSE \E takes : /\ HasCommand(entry.class, entry.cmd, takes, entry.means)
                     /\ Matches(takes, entry.sends)

AllRun(table) == \A call \in DOMAIN table : Runs(table[call])

(* A stub whose lists match runs its command.                              *)
LEMMA StubRuns ==
  ASSUME NEW class, NEW cmd, NEW takes, NEW sends, NEW reads, NEW means, means # "pin",
         HasCommand(class, cmd, takes, means), Matches(takes, sends)
  PROVE  Runs(Stub(class, cmd, sends, reads, means))
<1> DEFINE entry == Stub(class, cmd, sends, reads, means)
<1>1. entry.class = class /\ entry.cmd = cmd /\ entry.sends = sends /\ entry.means = means
  BY DEF Stub
<1> HIDE DEF entry
<1>2. class \in DOMAIN Classes
  BY Zenon DEF HasCommand
<1>3. Runs(entry)
  BY <1>1, <1>2, Zenon DEF Runs
<1> QED BY <1>3, Zenon DEF entry

(* The stubs, one file at a time.                                          *)
LEMMA HostGenRuns == AllRun(HostGen)
<1>1. Runs(Stub("G", "A", <<>>, "u32", "start"))
  BY GenCommands, ListsMatch, StubRuns, Zenon
<1>2. Runs(Stub("G", "V", <<>>, "reply", "voltage"))
  BY GenCommands, ListsMatch, StubRuns, Zenon
<1>3. Runs(Stub("G", "Z", <<"bool">>, "ok", "nrst_set"))
  BY GenCommands, ListsMatch, StubRuns, Zenon
<1>4. Runs(Stub("G", "z", <<>>, "u8", "nrst_get"))
  BY GenCommands, ListsMatch, StubRuns, Zenon
<1>5. Runs(Stub("G", "E", <<"bool">>, "ok", "target_clk_oe"))
  BY GenCommands, ListsMatch, StubRuns, Zenon
<1>6. Runs(Stub("G", "F", <<"u32_le">>, "ok", "set_fq"))
  BY GenCommands, ListsMatch, StubRuns, Zenon
<1>7. Runs(Stub("G", "f", <<>>, "u32", "get_fq"))
  BY GenCommands, ListsMatch, StubRuns, Zenon
<1>8. Runs(Stub("G", "P", <<"bool">>, "ok", "pwr_set"))
  BY GenCommands, ListsMatch, StubRuns, Zenon
<1>9. Runs(Stub("G", "p", <<>>, "u8", "pwr_get"))
  BY GenCommands, ListsMatch, StubRuns, Zenon
<1>10. Runs(Stub("G", "R", <<>>, "ok", "gpio_reset"))
  BY GenCommands, ListsMatch, StubRuns, Zenon
<1> QED BY <1>1, <1>2, <1>3, <1>4, <1>5, <1>6, <1>7, <1>8, <1>9, <1>10 DEF AllRun, HostGen

LEMMA HostSwdpRuns == AllRun(HostSwdp)
<1>1. Runs(Stub("S", "S", <<>>, "ok", "init_swd"))
  BY SwdpCommands, ListsMatch, StubRuns, Zenon
<1> QED BY <1>1 DEF AllRun, HostSwdp

LEMMA HostHlRuns == AllRun(HostHl)
<1>1. Runs(Stub("H", "C", <<>>, "u8", "check"))
  BY HlCommands, ListsMatch, StubRuns, Zenon
<1>2. Runs(Stub("H", "A", <<>>, "u8", "accel"))
  BY HlCommands, ListsMatch, StubRuns, Zenon
<1> QED BY <1>1, <1>2 DEF AllRun, HostHl

LEMMA HostSdiRuns == AllRun(HostSdi)
<1>1. Runs(Stub("I", "S", <<>>, "word", "sdi_reset"))
  BY SdiCommands, ListsMatch, StubRuns, Zenon
<1>2. Runs(Stub("I", "r", <<"u8_hex">>, "word", "sdi_read"))
  BY SdiCommands, ListsMatch, StubRuns, Zenon
<1>3. Runs(Stub("I", "w", <<"u8_hex", "u32_le">>, "word", "sdi_write"))
  BY SdiCommands, ListsMatch, StubRuns, Zenon
<1>4. Runs(Stub("I", "T", <<"u32_le", "u32_le", "u32_le", "u32_le", "bool">>, "ok", "set_sdi_wire"))
  BY SdiCommands, ListsMatch, StubRuns, Zenon
<1> QED BY <1>1, <1>2, <1>3, <1>4 DEF AllRun, HostSdi

LEMMA HostRvRuns == AllRun(HostRv)
<1>1. Runs(Stub("B", "S", <<>>, "word", "rv_reset"))
  BY RvCommands, ListsMatch, StubRuns, Zenon
<1>2. Runs(Stub("B", "r", <<"u8_hex">>, "word", "rv_read"))
  BY RvCommands, ListsMatch, StubRuns, Zenon
<1>3. Runs(Stub("B", "w", <<"u8_hex", "u32_le">>, "word", "rv_write"))
  BY RvCommands, ListsMatch, StubRuns, Zenon
<1> QED BY <1>1, <1>2, <1>3 DEF AllRun, HostRv

LEMMA HostLnadivRuns == AllRun(HostLnadiv)
<1>1. Runs(Stub("L", "W", <<"u16_le", "u32_le">>, "word", "swd_write"))
  BY LnadivCommands, ListsMatch, StubRuns, Zenon
<1>2. Runs(Stub("L", "R", <<"u16_le">>, "word", "swd_read"))
  BY LnadivCommands, ListsMatch, StubRuns, Zenon
<1>3. Runs(Stub("L", "A", <<"u32_le", "u32_le">>, "word", "raw_swd_write"))
  BY LnadivCommands, ListsMatch, StubRuns, Zenon
<1>4. Runs(Stub("L", "B", <<"u8_hex", "u16_le", "u32_le">>, "access", "swd_raw_access"))
  BY LnadivCommands, ListsMatch, StubRuns, Zenon
<1> QED BY <1>1, <1>2, <1>3, <1>4 DEF AllRun, HostLnadiv

LEMMA HostAdiv5Runs == AllRun(HostAdiv5)
<1>1. Runs(Stub("A", "R", <<"u8_hex", "u8_hex", "u16_be", "u32_be">>, "access_v3", "dp_low_level"))
  BY Adiv5Commands, ListsMatch, StubRuns, Zenon
<1>2. Runs(Stub("A", "d", <<"u8_hex", "u8_hex", "u32_be">>, "adiv", "dp_read"))
  BY Adiv5Commands, ListsMatch, StubRuns, Zenon
<1>3. Runs(Stub("A", "a", <<"u8_hex", "u8_hex", "u16_be">>, "adiv", "ap_read"))
  BY Adiv5Commands, ListsMatch, StubRuns, Zenon
<1>4. Runs(Stub("A", "A", <<"u8_hex", "u8_hex", "u16_be", "u32_be">>, "adiv", "ap_write"))
  BY Adiv5Commands, ListsMatch, StubRuns, Zenon
<1>5. Runs(Stub("A", "m", <<"u8_hex", "u8_hex", "u32_be", "u32_be", "length">>, "block",
     "mem_read"))
  BY Adiv5Commands, ListsMatch, StubRuns, Zenon
<1>6. Runs(Stub("A", "M", <<"u8_hex", "u8_hex", "u32_be", "u8_hex", "u32_be", "length", "hex">>,
     "adiv", "mem_write"))
  BY Adiv5Commands, ListsMatch, StubRuns, Zenon
<1> QED BY <1>1, <1>2, <1>3, <1>4, <1>5, <1>6 DEF AllRun, HostAdiv5

LEMMA HostSwindleRuns == AllRun(HostSwindle)
<1>1. Runs(Stub("Z", "C", <<"u32_le", "u32_le">>, "word", "crc32"))
  BY SwindleCommands, ListsMatch, StubRuns, Zenon
<1>2. Runs(Stub("Z", "G", <<>>, "word", "get_fq"))
  BY SwindleCommands, ListsMatch, StubRuns, Zenon
<1>3. Runs(Stub("Z", "S", <<"u32_le">>, "ok", "set_fq"))
  BY SwindleCommands, ListsMatch, StubRuns, Zenon
<1> QED BY <1>1, <1>2, <1>3 DEF AllRun, HostSwindle

LEMMA HostByHandRuns == AllRun(HostByHand)
<1>1. Runs(Stub("Z", "S", <<"u32_le">>, "ok8", "set_fq"))
  BY SwindleCommands, ListsMatch, StubRuns, Zenon
<1>2. Runs(Stub("Z", "G", <<>>, "u32", "get_fq"))
  BY SwindleCommands, ListsMatch, StubRuns, Zenon
<1>3. Runs(Stub("B", "S", <<>>, "ok8", "rv_reset"))
  BY RvCommands, ListsMatch, StubRuns, Zenon
<1>4. Runs(Stub("B", "r", <<"u8_hex">>, "word", "rv_read"))
  BY RvCommands, ListsMatch, StubRuns, Zenon
<1>5. Runs(Stub("B", "w", <<"u8_hex", "u32_le">>, "ok8", "rv_write"))
  BY RvCommands, ListsMatch, StubRuns, Zenon
<1>6. Runs(Stub("Z", "C", <<"u32_le", "u32_le">>, "word", "crc32"))
  BY SwindleCommands, ListsMatch, StubRuns, Zenon
<1>7. Runs(Stub("G", "R", <<>>, "ignored", "gpio_reset"))
  BY GenCommands, ListsMatch, StubRuns, Zenon
<1> QED BY <1>1, <1>2, <1>3, <1>4, <1>5, <1>6, <1>7 DEF AllRun, HostByHand

LEMMA HostSwdRuns == AllRun(HostSwd)
<1>1. Runs(Stub("L", "W", <<"u16_le", "u32_le">>, "ok8", "swd_write"))
  BY LnadivCommands, ListsMatch, StubRuns, Zenon
<1>2. Runs(Stub("L", "A", <<"u32_le", "u32_le">>, "ignored", "raw_swd_write"))
  BY LnadivCommands, ListsMatch, StubRuns, Zenon
<1>3. Runs(Stub("L", "R", <<"u16_le">>, "u32", "swd_read"))
  BY LnadivCommands, ListsMatch, StubRuns, Zenon
<1>4. Runs(Stub("L", "B", <<"u8_hex", "u16_le", "u32_le">>, "access_rs", "swd_raw_access"))
  BY LnadivCommands, ListsMatch, StubRuns, Zenon
<1> QED BY <1>1, <1>2, <1>3, <1>4 DEF AllRun, HostSwd

LEMMA HostPinsRuns == AllRun(HostPins)
<1>1. DOMAIN rpc_gen_impl = {"A", "V", "Z", "z", "E", "F", "f", "P", "p", "R"}
  BY DEF rpc_gen_impl
<1>2. "G" \in DOMAIN Classes /\ Classes["G"] = rpc_gen_impl
  BY DEF Classes
<1>3. \A call \in DOMAIN HostPins : /\ HostPins[call].class = "G" /\ HostPins[call].means = "pin"
                                   /\ HostPins[call].cmd \in {"X", "W", "w"}
  BY DEF HostPins, Stub
<1>4. {"X", "W", "w"} \subseteq DOMAIN Ch
  BY DEF Ch
<1> QED BY <1>1, <1>2, <1>3, <1>4 DEF AllRun, Runs

(* Every stub runs its command.                                            *)
LEMMA StubsRun ==
  ASSUME NEW call \in DOMAIN Stubs
  PROVE  Runs(Stubs[call])
<1>1. \A table \in StubTables : AllRun(table)
  BY HostGenRuns, HostSwdpRuns, HostHlRuns, HostSdiRuns, HostRvRuns, HostLnadivRuns,
       HostAdiv5Runs, HostSwindleRuns, HostByHandRuns, HostSwdRuns, HostPinsRuns, Zenon
     DEF StubTables
<1>2. PICK table \in StubTables : call \in DOMAIN table
  BY DEF Stubs
<1> DEFINE t == CHOOSE t \in StubTables : call \in DOMAIN t
<1>3. t \in StubTables /\ call \in DOMAIN t
  BY <1>2, Zenon
<1>4. Stubs[call] = t[call]
  BY <1>2, Zenon DEF Stubs
<1> QED BY <1>1, <1>3, <1>4, Zenon DEF AllRun

(* A call starts with its letters.                                         *)
LEMMA BodyHead ==
  ASSUME NEW body, NEW a, NEW b, NEW t, NEW sends, NEW args, IsBody(body, a, b, t, sends, args)
  PROVE  /\ Len(body) >= 2 /\ body[1] = a /\ body[2] = b
         /\ SubSeq(body, 3, Len(body)) = t
<1>1. a \in Plain /\ b \in Plain /\ t \in Seq(Plain) /\ body = <<a, b>> \o t
  BY Zenon DEF IsBody
<1>2. PICK n \in Nat : n = Len(t)
  BY <1>1
<1>3. body \in Seq(Plain) /\ Len(body) = n + 2 /\ body[1] = a /\ body[2] = b
      /\ \A i \in 1..n : body[2 + i] = t[i]
  BY <1>1, <1>2
<1>4. SubSeq(body, 2 + 1, Len(body)) = t
  <2>1. Len(body) = 2 + Len(t) /\ Len(body) \in Nat /\ 2 \in Nat /\ Len(body) <= Len(body)
        /\ \A j \in 1..Len(t) : body[2 + j] = t[j]
    BY <1>2, <1>3
  <2> QED BY <1>1, <1>3, <2>1, CutOut, Zenon
<1>5. Len(body) >= 2 /\ 2 + 1 = 3
  BY <1>3
<1> QED BY <1>3, <1>4, <1>5

(* A letter finds its own entry.                                           *)
LEMMA LettersOf ==
  ASSUME NEW table, DOMAIN table \subseteq DOMAIN Ch, NEW l \in DOMAIN Ch
  PROVE  Letters(table, Ch[l]) = IF l \in DOMAIN table THEN {l} ELSE {}
BY LettersDiffer, Zenon DEF Letters

(* The probe finds for a call the command its stub stands for, and takes   *)
(* from it the arguments the stub was given.                               *)
LEMMA CallRead ==
  ASSUME NEW call \in DOMAIN Stubs, NEW args \in ArgumentLists(Stubs[call].sends),
         NEW body, body = Body(Stubs[call], args)
  PROVE  IF Stubs[call].means = "pin" THEN ~IsCommand(body)
         ELSE /\ IsCommand(body)
              /\ CommandOf(body) = Classes[Stubs[call].class][Stubs[call].cmd]
              /\ CommandOf(body).does = Stubs[call].means
              /\ Arguments(CommandOf(body).takes, SubSeq(body, 3, Len(body))) = args
<1>1. PICK entry : entry = Stubs[call]
  OBVIOUS
<1>2. IsStub(entry) /\ Runs(entry)
  BY <1>1, StubsAre, StubsRun, Zenon
<1>3. PICK t : IsBody(body, Ch[entry.class], Ch[entry.cmd], t, entry.sends, args)
  BY <1>1, <1>2, BodyLaid, Zenon
<1>4. /\ Len(body) >= 2 /\ body[1] = Ch[entry.class] /\ body[2] = Ch[entry.cmd]
      /\ SubSeq(body, 3, Len(body)) = t
  BY <1>3, BodyHead, Zenon
<1>5. entry.class \in DOMAIN Classes /\ entry.class \in DOMAIN Ch
  BY <1>2, CommandLetters, Zenon DEF Runs
<1>6. Letters(Classes, body[1]) = {entry.class}
  BY <1>4, <1>5, CommandLetters, LettersOf, Zenon
<1>7. CASE entry.means = "pin"
  <2>1. entry.cmd \in DOMAIN Ch /\ entry.cmd \notin DOMAIN Classes[entry.class]
    BY <1>2, <1>7 DEF Runs
  <2>2. Letters(Classes[entry.class], body[2]) = {}
    BY <1>4, <1>5, <2>1, CommandLetters, LettersOf, Zenon
  <2>3. ~IsCommand(body)
    BY <1>6, <2>2, Zenon DEF IsCommand
  <2> QED BY <1>1, <1>7, <2>3, Zenon
<1>8. CASE entry.means # "pin"
  <2>1. PICK takes : /\ HasCommand(entry.class, entry.cmd, takes, entry.means)
                     /\ Matches(takes, entry.sends)
    BY <1>2, <1>8, Zenon DEF Runs
  <2>2. entry.cmd \in DOMAIN Classes[entry.class] /\ entry.cmd \in DOMAIN Ch
    BY <1>5, <2>1, CommandLetters, Zenon DEF HasCommand
  <2>3. Letters(Classes[entry.class], body[2]) = {entry.cmd}
    BY <1>4, <1>5, <2>2, CommandLetters, LettersOf, Zenon
  <2>4. IsCommand(body)
    BY <1>4, <1>6, <2>3, Zenon DEF IsCommand
  <2>5. CommandOf(body) = Classes[entry.class][entry.cmd]
    <3>1. (CHOOSE l \in Letters(Classes, body[1]) : TRUE) = entry.class
      BY <1>6
    <3>2. (CHOOSE l \in Letters(Classes[entry.class], body[2]) : TRUE) = entry.cmd
      BY <2>3
    <3> QED BY <3>1, <3>2, Zenon DEF CommandOf
  <2>6. CommandOf(body).does = entry.means /\ CommandOf(body).takes = takes
    BY <2>1, <2>5, Zenon DEF HasCommand
  <2>7. PICK n \in Nat : n = Len(entry.sends) /\ \A i \in 1..n : i \in 1..7
    <3>1. entry.sends \in Seq(Kinds) /\ Len(entry.sends) <= 7
      BY <1>2, Zenon DEF IsStub
    <3> QED BY <3>1
  <2>8. entry.sends \in Seq(Kinds) /\ Len(entry.sends) <= 7 /\ args \in ArgumentLists(entry.sends)
    BY <1>1, <1>2, Zenon DEF IsStub
  <2>9. /\ args = [i \in 1..n |-> args[i]]
        /\ \A i \in 1..n : args[i] \in Fitting(entry.sends[i])
    BY <2>7, <2>8, ArgumentFits, Zenon
  <2>11. AllFit(entry.sends, args, n)
    BY <2>7, <2>9, Zenon DEF AllFit
  <2>12. t = Sent(entry.sends, args, n)
    BY <1>3, <2>7, Zenon DEF IsBody
  <2>13. Arguments(takes, Sent(entry.sends, args, n)) = args
    <3>1. Matches(takes, entry.sends) /\ n \in Nat
      BY <2>1, <2>7
    <3>2. AllFit(entry.sends, args, n)
      BY <2>11
    <3> QED BY <3>1, <3>2, ArgumentsArrive
  <2>14. Arguments(takes, t) = args
    BY <2>12, <2>13, Zenon
  <2> QED BY <1>1, <1>4, <1>8, <2>4, <2>5, <2>6, <2>14, Zenon
<1> QED BY <1>7, <1>8, Zenon

-----------------------------------------------------------------------------
(* A call means the same on both sides.                                    *)

\* What the probe made of the call of a hosted build
Meant ==
  asked.by = "hosted" =>
    /\ asked.call \in DOMAIN Stubs
    /\ asked.args \in ArgumentLists(Stubs[asked.call].sends)
    /\ executed = <<>> => made = Nothing

\* A hosted build sends no more than the buffer holds
HostedInv ==
  /\ client = "hosted" \/ asked.by = "hosted" => ~overran
  /\ Meant /\ CallMeant

(* The probe starts with nothing asked.                                    *)
LEMMA InitHosted == RemoteInit => HostedInv
<1> SUFFICES ASSUME RemoteInit PROVE HostedInv
  OBVIOUS
<1>1. asked.by # "hosted" /\ ~overran
  BY NobodyIs DEF RemoteInit
<1> QED BY <1>1, Zenon DEF HostedInv, Meant, CallMeant

(* Steps that leave the call alone keep what it means.                     *)
LEMMA SameHosted ==
  ASSUME HostedInv, asked' = asked, executed' = executed, made' = made, overran' = overran,
         client' \in {client, "none"}
  PROVE  HostedInv'
<1>1. client' = "hosted" => client = "hosted"
  OBVIOUS
<1> QED BY <1>1, Zenon DEF HostedInv, Meant, CallMeant

(* What GDB asks is no call.                                               *)
LEMMA NotHosted ==
  ASSUME asked'.by # "hosted", client' = "hosted" => ~overran'
  PROVE  HostedInv'
BY Zenon DEF HostedInv, Meant, CallMeant

(* A new call has run nothing yet.                                         *)
LEMMA HostCallsMeant ==
  ASSUME HostedInv, NEW call \in DOMAIN Stubs,
         NEW args \in ArgumentLists(Stubs[call].sends), HostCalls(call, args)
  PROVE  HostedInv'
<1>1. /\ client = "hosted" /\ asked' = [by |-> "hosted", call |-> call, args |-> args]
      /\ executed' = <<>> /\ made' = Nothing /\ overran' = overran
  BY Zenon DEF HostCalls, Asks
<1>2. asked'.call = call /\ asked'.args = args
  BY <1>1
<1>3. ~overran'
  BY <1>1, Zenon DEF HostedInv
<1>4. Meant'
  BY <1>1, <1>2, Zenon DEF Meant
<1>5. CallMeant'
  BY <1>1, Zenon DEF CallMeant
<1> QED BY <1>3, <1>4, <1>5, Zenon DEF HostedInv

(* The call is parsed to its end.                                          *)
LEMMA EndMeant ==
  ASSUME HostedInv, asked.by = "hosted", executed = <<>>, NEW fed,
         fed.automaton = "RpcDone", fed.buffer = AskedBytes,
         \/ ParseMore(fed) \/ ParsePacket(fed, fed.buffer) \/ ParseCall(fed, fed.buffer)
         \/ ParseUnknown(fed, fed.buffer) \/ ParseError(fed)
  PROVE  HostedInv'
<1>1. "RpcDone" \in EndStates /\ "RpcDone" # "Done" /\ "RpcDone" # "Error"
  BY DEF EndStates
<1>2. ParseCall(fed, AskedBytes) \/ ParseUnknown(fed, AskedBytes)
  BY <1>1, Zenon DEF ParseMore, ParsePacket, ParseError
<1>3. client' = client /\ asked' = asked /\ overran' = overran
  BY <1>2, Zenon DEF ParseCall, ParseUnknown, Takes
<1>4. PICK call, args : /\ call \in DOMAIN Stubs /\ args \in ArgumentLists(Stubs[call].sends)
                        /\ call = asked.call /\ args = asked.args /\ made = Nothing
  BY Zenon DEF HostedInv, Meant
<1>5. AskedBytes = Body(Stubs[call], args)
  <2>1. asked.by # "gdb"
    OBVIOUS
  <2> QED BY <1>4, <2>1, Zenon DEF AskedBytes
<1>6. PICK body : body = AskedBytes /\ body = Body(Stubs[call], args)
  BY <1>5
<1>7. IF Stubs[call].means = "pin" THEN ~IsCommand(body)
      ELSE /\ IsCommand(body)
           /\ CommandOf(body).does = Stubs[call].means
           /\ Arguments(CommandOf(body).takes, SubSeq(body, 3, Len(body))) = args
  BY <1>4, <1>6, CallRead, Zenon
<1>8. asked'.by = "hosted" /\ asked'.call = call /\ asked'.args = args
  BY <1>3, <1>4, Zenon
<1>9. executed' = <<>> => made' = Nothing
  <2>1. CASE ParseUnknown(fed, AskedBytes)
    BY <1>4, <2>1, Zenon DEF ParseUnknown
  <2>2. CASE ParseCall(fed, AskedBytes)
    <3>1. executed' = Append(executed, AskedBytes)
      BY <2>2, Zenon DEF ParseCall
    <3>2. \A b : Append(<<>>, b) # <<>>
      OBVIOUS
    <3> QED BY <3>1, <3>2, Zenon
  <2> QED BY <1>2, <2>1, <2>2
<1>10. CallMeant'
  <2>1. CASE ParseUnknown(fed, AskedBytes)
    <3>1. made' = made /\ ~IsCommand(body)
      BY <1>1, <1>6, <2>1, Zenon DEF ParseUnknown, IsDropped
    <3>2. Stubs[call].means = "pin"
      BY <1>7, <3>1, Zenon
    <3> QED BY <1>4, <1>8, <3>1, <3>2, Zenon DEF CallMeant
  <2>2. CASE ParseCall(fed, AskedBytes)
    <3>1. IsCommand(body)
      BY <1>6, <2>2, Zenon DEF ParseCall
    <3>2. PICK command \in {CommandOf(body)} :
            \E as \in {Arguments(command.takes, SubSeq(body, 3, Len(body)))} :
              \E o \in Outcomes(command, as) :
                made' = [does |-> command.does, args |-> as,
                         fault |-> o.fault, values |-> o.values]
      BY <1>6, <2>2, Zenon DEF ParseCall
    <3>3. command = CommandOf(body)
      OBVIOUS
    <3>4. PICK as, o :
            /\ as = Arguments(command.takes, SubSeq(body, 3, Len(body)))
            /\ made' = [does |-> command.does, args |-> as,
                     fault |-> o.fault, values |-> o.values]
      BY <3>2, Zenon
    <3>5. as = Arguments(CommandOf(body).takes, SubSeq(body, 3, Len(body)))
      BY <3>3, <3>4, Zenon
    <3>6. made'.does = command.does /\ made'.args = as
      BY <3>4
    <3>7. Stubs[call].means # "pin" /\ made'.does = Stubs[call].means /\ made'.args = args
      BY <1>7, <3>1, <3>3, <3>5, <3>6, Zenon
    <3> QED BY <1>8, <3>7, Zenon DEF CallMeant
  <2> QED BY <1>2, <2>1, <2>2
<1>11. Meant'
  BY <1>4, <1>8, <1>9, Zenon DEF Meant
<1>12. ~overran'
  BY <1>3, Zenon DEF HostedInv
<1> QED BY <1>10, <1>11, <1>12, Zenon DEF HostedInv

(* What the parser does of a call means what the caller meant.             *)
LEMMA ParseMeant ==
  ASSUME ~overran => LinkInv, HostedInv, Parse
  PROVE  HostedInv'
<1>1. PICK fed : /\ fed = Feed(decoder, chunk[1])
                 /\ \/ ParseMore(fed) \/ ParsePacket(fed, fed.buffer)
                    \/ ParseCall(fed, fed.buffer) \/ ParseUnknown(fed, fed.buffer)
                    \/ ParseError(fed)
  BY Zenon DEF Parse
<1>2. client' = client /\ asked' = asked /\ overran' = overran
  BY <1>1, Zenon DEF ParseMore, ParsePacket, ParseCall, ParseUnknown, ParseError, Takes
<1>3. CASE asked.by # "hosted"
  <2>1. client' = "hosted" => ~overran'
    BY <1>2, Zenon DEF HostedInv
  <2> QED BY <1>2, <1>3, <2>1, NotHosted, Zenon
<1>4. CASE asked.by = "hosted"
  <2>1. LinkInv /\ OnLine /\ chunk # <<>> /\ chunk \in Seq(Octet) /\ toProbe \in Seq(Octet)
    BY <1>4, Zenon DEF HostedInv, LinkInv, OnLine, Parse
  <2>2. Unparsed \in Seq(Octet) /\ Unparsed # <<>> /\ Unparsed[1] = chunk[1]
    BY <2>1, ParseKeeps, Zenon DEF Unparsed
  <2>3. fed = Feed(decoder, Unparsed[1])
    BY <1>1, <2>2, Zenon
  <2>4. ASSUME fed.automaton \notin EndStates PROVE HostedInv'
    <3>1. ParseTurn(fed)
      BY <1>1, <2>4, TurnOnly, Zenon
    <3>2. executed' = executed /\ made' = made
      BY <3>1, Zenon DEF ParseTurn
    <3>3. client' \in {client, "none"}
      BY <1>2
    <3> QED BY <1>2, <3>2, <3>3, SameHosted, Zenon
  <2>5. ~Unasked
    BY <1>4, NobodyIs DEF Unasked
  <2>6. CASE Over
    <3>1. fed = IdleDecoder /\ fed.automaton \notin EndStates
      BY <2>2, <2>3, <2>6, StillTurn, Zenon DEF Over
    <3> QED BY <2>4, <3>1
  <2>7. CASE Going
    <3>1. Unparsed \in Seq(Octet) /\ Unparsed # <<>>
      BY <2>2
    <3>2. Ahead(Unparsed, decoder, How, AskedBytes, client)
      BY <2>7, Zenon DEF Going
    <3>3. Turned(fed, Tail(Unparsed), How, AskedBytes, client)
      BY <2>3, <3>1, <3>2, AheadTurn, Zenon
    <3>4. fed.automaton \notin EndStates \/ (fed.automaton = "RpcDone" /\ fed.buffer = AskedBytes)
      <4>1. How = "RpcDone"
        BY <1>4 DEF How
      <4> QED BY <3>3, <4>1, Zenon DEF Turned
    <3>5. executed = <<>>
      BY <2>7, Zenon DEF Going
    <3> QED BY <1>1, <1>4, <2>4, <3>4, <3>5, EndMeant, Zenon
  <2> QED BY <2>1, <2>5, <2>6, <2>7, Zenon DEF OnLine
<1> QED BY <1>3, <1>4

(* Every step keeps it.                                                    *)
LEMMA HostedStep ==
  (~overran => LinkInv) /\ HostedInv /\ [RemoteNext]_remoteVars => HostedInv'
<1> SUFFICES ASSUME ~overran => LinkInv, HostedInv, [RemoteNext]_remoteVars PROVE HostedInv'
  OBVIOUS
<1>1. CASE \E c \in {"gdb", "hosted"} : Open(c)
  <2>1. asked' = Nobody /\ ~overran'
    BY <1>1, Zenon DEF Open
  <2>2. asked'.by # "hosted"
    BY <2>1, NobodyIs
  <2> QED BY <2>1, <2>2, NotHosted, Zenon
<1>2. CASE Close \/ TaskEnd \/ HostReads \/ GdbReads \/ GdbNacked \/ Receive \/ UNCHANGED remoteVars
  <2>1. asked' = asked /\ executed' = executed /\ made' = made /\ overran' = overran
    BY <1>2, Zenon DEF Close, TaskEnd, HostReads, GdbReads, GdbNacked, Receive, stub, remoteVars
  <2>2. client' \in {client, "none"}
    BY <1>2 DEF Close, TaskEnd, HostReads, GdbReads, GdbNacked, Receive, stub, remoteVars
  <2> QED BY <2>1, <2>2, SameHosted, Zenon
<1>3. CASE \E p \in Payloads \cup Overlong : GdbAsks(p)
  <2>1. PICK p \in Payloads \cup Overlong : GdbAsks(p)
    BY <1>3, Zenon
  <2>2. client' = "gdb" /\ asked' = [by |-> "gdb", packet |-> p]
    BY <2>1, Zenon DEF GdbAsks, Asks
  <2>3. asked'.by # "hosted" /\ client' # "hosted"
    BY <2>2
  <2> QED BY <2>3, NotHosted, Zenon
<1>4. CASE \E call \in DOMAIN Stubs :
             \E args \in ArgumentLists(Stubs[call].sends) : HostCalls(call, args)
  <2>1. PICK call \in DOMAIN Stubs :
          \E args \in ArgumentLists(Stubs[call].sends) : HostCalls(call, args)
    BY <1>4, Zenon
  <2> QED BY <2>1, HostCallsMeant, Zenon
<1>5. CASE Parse
  BY <1>5, ParseMeant, Zenon
<1> QED BY <1>1, <1>2, <1>3, <1>4, <1>5, Zenon DEF RemoteNext

(* A call runs the operation its stub stands for, with the arguments its   *)
(* caller gave; a call the probe does not know runs nothing.               *)
THEOREM MeantByCaller == RemoteSpec => []CallMeant
<1>1. RemoteInit => HostedInv
  BY InitHosted
<1>2. HostedInv => CallMeant
  BY Zenon DEF HostedInv
<1> QED BY <1>1, <1>2, LinkInvariant, HostedStep, PTL DEF RemoteSpec

-----------------------------------------------------------------------------
(* What is read of an answer.                                              *)

\* What happened to the operation of a call, and what its caller is told
Honest(told, m) ==
  \/ told.status = "ok" /\ m.fault = 0 /\ told.values \in {<<>>, m.values}
  \/ told.status = "failed" /\ (m.fault # 0 \/ Len(m.values) * 2 + 1 >= RPC_BUFFER_SIZE)
  \/ told.status = "unknown" /\ told.values \in {<<>>, m.values}

\* A reply says what happened, as it is read, and read as empty if it is too long
Says(reply, reads, m) ==
  \E code \in {RPC_RESP_OK, RPC_RESP_ERR}, chars \in Seq(Text) :
    /\ reply = rpc_reply_encoder(code, chars)
    /\ Honest(ReadReply(reads, <<code>> \o chars), m)
    /\ Len(chars) + 2 > RPC_BUFFER_SIZE => Honest(ReadReply(reads, <<>>), m)

(* A letter and text behind it.                                            *)
LEMMA LetterAhead ==
  ASSUME NEW code \in Nat, NEW chars \in Seq(Text)
  PROVE  /\ <<code>> \o chars \in Seq(Nat) /\ <<code>> \o chars # <<>>
         /\ Len(<<code>> \o chars) = Len(chars) + 1 /\ Len(chars) \in Nat
         /\ (<<code>> \o chars)[1] = code
         /\ \A j \in 1..Len(chars) : (<<code>> \o chars)[1 + j] = chars[j]
<1>1. Text \subseteq Nat
  BY DEF Text
<1>2. chars \in Seq(Nat)
  BY <1>1, SeqWider, Zenon
<1>3. PICK n \in Nat : n = Len(chars)
  BY <1>2
<1>4. PICK s : s = <<code>> \o chars
  OBVIOUS
<1>5. /\ s \in Seq(Nat) /\ Len(s) = n + 1 /\ s[1] = code /\ \A j \in 1..n : s[1 + j] = chars[j]
      /\ s # <<>>
  BY <1>2, <1>3, <1>4
<1> QED BY <1>3, <1>4, <1>5, Zenon

(* The letters differ, and both are numbers.                               *)
LEMMA Codes == RPC_RESP_OK \in Nat /\ RPC_RESP_ERR \in Nat /\ RPC_RESP_ERR # RPC_RESP_OK
BY DEF RPC_RESP_OK, RPC_RESP_ERR

(* What is cut out of a reply behind its letter.                           *)
LEMMA BehindLetter ==
  ASSUME NEW code \in Nat, NEW chars \in Seq(Text), NEW a \in Seq(Text), NEW b \in Seq(Text),
         chars = a \o b
  PROVE  /\ SubSeq(<<code>> \o chars, 2, Len(a) + 1) = a
         /\ SubSeq(<<code>> \o chars, Len(a) + 2, Len(<<code>> \o chars)) = b
<1>1. PICK n \in Nat, m \in Nat : n = Len(a) /\ m = Len(b)
  OBVIOUS
<1>2. /\ Len(chars) = n + m /\ \A j \in 1..n : chars[j] = a[j]
      /\ \A j \in 1..m : chars[n + j] = b[j]
  <2>1. /\ Len(a \o b) = Len(a) + Len(b) /\ \A j \in 1..Len(a) : (a \o b)[j] = a[j]
        /\ \A j \in 1..Len(b) : (a \o b)[Len(a) + j] = b[j]
    BY ConcatAt
  <2>2. PICK c : c = a \o b /\ c = chars
    OBVIOUS
  <2>3. Len(c) = n + m /\ (\A j \in 1..n : c[j] = a[j]) /\ \A j \in 1..m : c[n + j] = b[j]
    BY <1>1, <2>1, <2>2, Zenon
  <2> QED BY <2>2, <2>3, Zenon
<1>3. PICK s \in Seq(Nat) : /\ s = <<code>> \o chars /\ Len(s) = (n + m) + 1
                            /\ \A j \in 1..(n + m) : s[1 + j] = chars[j]
  <2>1. /\ <<code>> \o chars \in Seq(Nat)
        /\ Len(<<code>> \o chars) = Len(chars) + 1
        /\ \A j \in 1..Len(chars) : (<<code>> \o chars)[1 + j] = chars[j]
    BY LetterAhead, Zenon
  <2> QED BY <1>2, <2>1, Zenon
<1>4. a \in Seq(Nat) /\ b \in Seq(Nat)
  <2>1. Text \subseteq Nat
    BY DEF Text
  <2> QED BY <2>1, SeqWider, Zenon
<1>5. \A j \in 1..n : s[1 + j] = a[j]
  <2> TAKE j \in 1..n
  <2>1. j \in 1..(n + m)
    OBVIOUS
  <2> QED BY <1>2, <1>3, <2>1, Zenon
<1>6. \A j \in 1..m : s[(n + 1) + j] = b[j]
  <2> TAKE j \in 1..m
  <2>1. n + j \in 1..(n + m) /\ 1 + (n + j) = (n + 1) + j
    OBVIOUS
  <2>2. s[1 + (n + j)] = chars[n + j]
    BY <1>3, <2>1, Zenon
  <2> QED BY <1>2, <2>1, <2>2, Zenon
<1>7. SubSeq(s, 1 + 1, n + 1) = a
  <2>1. n + 1 = 1 + Len(a) /\ n + 1 <= Len(s) /\ n + 1 \in Nat /\ 1 \in Nat
        /\ \A j \in 1..Len(a) : s[1 + j] = a[j]
    BY <1>1, <1>3, <1>5
  <2> QED BY <1>4, <2>1, CutOut
<1>8. SubSeq(s, (n + 1) + 1, Len(s)) = b
  <2>1. Len(s) = (n + 1) + Len(b) /\ Len(s) <= Len(s) /\ n + 1 \in Nat /\ Len(s) \in Nat
        /\ \A j \in 1..Len(b) : s[(n + 1) + j] = b[j]
    BY <1>1, <1>3, <1>6
  <2> QED BY <1>4, <2>1, CutOut
<1>9. 1 + 1 = 2 /\ n + 1 = Len(a) + 1 /\ (n + 1) + 1 = Len(a) + 2
  BY <1>1
<1> QED BY <1>3, <1>7, <1>8, <1>9

(* A word as it is answered and read.                                      *)
LEMMA WordRead ==
  ASSUME NEW w \in Word32, NEW reply, reply = <<RPC_RESP_OK>> \o add_u32_le(w)
  PROVE  /\ add_u32_le(w) \in Seq(Text) /\ Len(add_u32_le(w)) = 8
         /\ reply # <<>> /\ reply[1] = RPC_RESP_OK /\ Len(reply) = 9
         /\ Word(reply, 2) = w /\ u8s_string_to_u32_le(SubSeq(reply, 2, Len(reply))) = w
<1>1. PICK t : t = add_u32_le(w)
  OBVIOUS
<1>2. t \in Seq(Text) /\ Len(t) = 8
  BY <1>1, WordHex, WordSent DEF Word32
<1>3. <<>> \in Seq(Text) /\ t = t \o <<>>
  BY <1>2
<1>4. SubSeq(reply, 2, 8 + 1) = t
  BY <1>1, <1>2, <1>3, BehindLetter, Codes
<1>5. reply # <<>> /\ reply[1] = RPC_RESP_OK /\ Len(reply) = 9
  <2>1. reply # <<>> /\ reply[1] = RPC_RESP_OK /\ Len(reply) = Len(t) + 1
    BY <1>1, <1>2, LetterAhead, Codes, Zenon
  <2> QED BY <1>2, <2>1
<1>6. u8s_string_to_u32_le(t) = w
  BY <1>1, WordBackLE, Zenon
<1>7. 2 + 7 = 9 /\ 8 + 1 = 9
  OBVIOUS
<1>8. Word(reply, 2) = w
  BY <1>4, <1>6, <1>7 DEF Word
<1>9. u8s_string_to_u32_le(SubSeq(reply, 2, Len(reply))) = w
  BY <1>4, <1>5, <1>6, <1>7
<1> QED BY <1>1, <1>2, <1>5, <1>8, <1>9, Zenon

(* Two words.                                                              *)
LEMMA WordsRead ==
  ASSUME NEW v \in Word32, NEW w \in Word32, NEW chars, chars = add_u32_le(v) \o add_u32_le(w)
  PROVE  /\ chars \in Seq(Text) /\ Len(chars) = 16
         /\ check_reply(<<RPC_RESP_OK>> \o chars, 16)
         /\ Word(<<RPC_RESP_OK>> \o chars, 2) = v /\ Word(<<RPC_RESP_OK>> \o chars, 10) = w
<1>1. PICK s \in Seq(Text), t \in Seq(Text) :
         s = add_u32_le(v) /\ t = add_u32_le(w) /\ Len(s) = 8 /\ Len(t) = 8
  BY WordHex, WordSent DEF Word32
<1>2. chars = s \o t /\ chars \in Seq(Text) /\ Len(chars) = 16
  <2>1. s \o t \in Seq(Text) /\ Len(s \o t) = Len(s) + Len(t)
    BY ConcatAt
  <2>3. 8 + 8 = 16
    OBVIOUS
  <2>2. chars = s \o t
    BY <1>1
  <2> QED BY <1>1, <2>1, <2>2, <2>3, Zenon
<1>3. PICK reply : reply = <<RPC_RESP_OK>> \o chars
  OBVIOUS
<1>4. reply # <<>> /\ reply[1] = RPC_RESP_OK /\ Len(reply) = 17
  <2>1. reply # <<>> /\ reply[1] = RPC_RESP_OK /\ Len(reply) = Len(chars) + 1
    BY <1>2, <1>3, LetterAhead, Codes, Zenon
  <2> QED BY <1>2, <2>1
<1>5. SubSeq(reply, 2, 9) = s /\ SubSeq(reply, 10, 17) = t
  <2>1. SubSeq(reply, 2, Len(s) + 1) = s /\ SubSeq(reply, Len(s) + 2, Len(reply)) = t
    BY <1>2, <1>3, BehindLetter, Codes
  <2> QED BY <1>1, <1>4, <2>1
<1>6. u8s_string_to_u32_le(s) = v /\ u8s_string_to_u32_le(t) = w
  BY <1>1, WordBackLE, Zenon
<1>7. 2 + 7 = 9 /\ 10 + 7 = 17 /\ 16 + 1 = 17
  OBVIOUS
<1>8. Word(reply, 2) = v /\ Word(reply, 10) = w
  BY <1>5, <1>6, <1>7 DEF Word
<1>9. check_reply(reply, 16)
  BY <1>4, <1>7 DEF check_reply
<1> QED BY <1>2, <1>3, <1>8, <1>9, Zenon

(* What the stubs make of an answer.                                       *)
LEMMA Readings ==
  ASSUME NEW reply
  PROVE  /\ ReadReply("ok", reply) = ToldOf(check_reply(reply, 0), <<>>)
         /\ ReadReply("ok8", reply) = ToldOf(check_reply(reply, 8), <<>>)
         /\ ReadReply("word", reply) = IF check_reply(reply, 8) THEN Told("ok", <<Word(reply, 2)>>)
                                       ELSE Told("failed", <<>>)
         /\ ReadReply("u32", reply) = Told("unknown", <<IF check_reply(reply, 8)
                                                        THEN Word(reply, 2) ELSE 0>>)
         /\ ReadReply("u8", reply) =
              Told("unknown", <<IF check_reply(reply, 2)
                                THEN ascii_octet_to_hex(reply[2], reply[3]) ELSE 0>>)
         /\ ReadReply("access", reply) = Access(reply, <<0, 0>>)
         /\ ReadReply("access_rs", reply) = Access(reply, <<0, 2>>)
         /\ ReadReply("access_v3", reply) = Access(reply, <<1, 0>>)
         /\ ReadReply("adiv", reply) =
              Adiv(reply, <<u8s_string_to_u32_le(SubSeq(reply, 2, Len(reply)))>>)
         /\ ReadReply("block", reply) =
              Adiv(reply, u8_hex_string_to_u8s(SubSeq(reply, 2, Len(reply))))
         /\ ReadReply("status", reply) = Adiv(reply, <<>>)
         /\ ReadReply("reply", reply) = Told("unknown", reply)
         /\ ReadReply("ignored", reply) = Told("unknown", <<>>)
BY Zenon DEF ReadReply

LEMMA ToldIs ==
  /\ \A s, v : Told(s, v).status = s /\ Told(s, v).values = v
  /\ \A v : ToldOf(TRUE, v) = Told("ok", v) /\ ToldOf(FALSE, v) = Told("failed", <<>>)
BY DEF Told, ToldOf

\* The ways of reading an answer that fail without one
Failing == {"ok", "ok8", "word", "access_rs", "adiv", "block", "status"}

(* Nothing is read as a failure, or as nothing in particular.              *)
LEMMA EmptyRead ==
  /\ \A reads \in Failing : ReadReply(reads, <<>>).status = "failed"
  /\ \A reads \in {"u32", "u8", "reply", "ignored"} : ReadReply(reads, <<>>).status = "unknown"
<1>1. \A n : ~check_reply(<<>>, n)
  BY Zenon DEF check_reply
<1>2. \A v : Adiv(<<>>, v) = Told("failed", <<>>)
  <2> TAKE v
  <2>1. Adiv(<<>>, v) = ToldOf(FALSE, v)
    BY Zenon DEF Adiv
  <2> QED BY <2>1, ToldIs, Zenon
<1>3. Access(<<>>, <<0, 2>>) = Told("failed", <<>>)
  <2>1. PICK pair : pair = IF check_reply(<<>>, 16)
                           THEN <<Word(<<>>, 2), Word(<<>>, 10)>> ELSE <<0, 2>>
    OBVIOUS
  <2>2. pair = <<0, 2>>
    BY <1>1, <2>1, Zenon
  <2>3. pair[2] # 0 /\ <<pair[1]>> = <<0>>
    BY <2>2
  <2>4. Access(<<>>, <<0, 2>>) = ToldOf(pair[2] = 0, <<pair[1]>>)
    BY <2>1, Zenon DEF Access
  <2>5. (pair[2] = 0) = FALSE
    BY <2>3
  <2>6. Access(<<>>, <<0, 2>>) = ToldOf(FALSE, <<pair[1]>>)
    BY <2>4, <2>5, Zenon
  <2> QED BY <2>6, ToldIs, Zenon
<1>4. \A n, v : ToldOf(check_reply(<<>>, n), v) = Told("failed", <<>>)
  <2> TAKE n, v
  <2>1. check_reply(<<>>, n) = FALSE
    BY <1>1 DEF check_reply
  <2> QED BY <2>1, ToldIs, Zenon
<1>5. ReadReply("word", <<>>) = Told("failed", <<>>)
  BY <1>1, Readings, Zenon
<1>6. /\ ReadReply("ok", <<>>) = Told("failed", <<>>) /\ ReadReply("ok8", <<>>) = Told("failed", <<>>)
      /\ ReadReply("access_rs", <<>>) = Told("failed", <<>>)
      /\ ReadReply("adiv", <<>>) = Told("failed", <<>>)
      /\ ReadReply("block", <<>>) = Told("failed", <<>>)
      /\ ReadReply("status", <<>>) = Told("failed", <<>>)
  BY <1>2, <1>3, <1>4, Readings, Zenon
<1>7. /\ \E v : ReadReply("u32", <<>>) = Told("unknown", v)
      /\ \E v : ReadReply("u8", <<>>) = Told("unknown", v)
      /\ \E v : ReadReply("reply", <<>>) = Told("unknown", v)
      /\ \E v : ReadReply("ignored", <<>>) = Told("unknown", v)
  BY Readings, Zenon
<1>8. \A reads \in Failing : ReadReply(reads, <<>>) = Told("failed", <<>>)
  BY <1>5, <1>6, Zenon DEF Failing
<1>9. \A reads \in {"u32", "u8", "reply", "ignored"} : \E v : ReadReply(reads, <<>>) = Told("unknown", v)
  BY <1>7, Zenon
<1> QED BY <1>8, <1>9, ToldIs, Zenon

\* The answers that tell an error
Faulting == {"word", "ok8", "adiv", "block"}

(* An error is heard as one.                                               *)
LEMMA ErrorSays ==
  ASSUME NEW reads \in Faulting, NEW m, m.fault # 0, NEW chars \in Seq(Text)
  PROVE  Says(rpc_reply_encoder(RPC_RESP_ERR, chars), reads, m)
<1> DEFINE reply == <<RPC_RESP_ERR>> \o chars
<1>1. reply # <<>> /\ reply[1] # RPC_RESP_OK
  BY LetterAhead, Codes, Zenon
<1> HIDE DEF reply
<1>2. \A n : check_reply(reply, n) = FALSE
  BY <1>1 DEF check_reply
<1>3. \A v : Adiv(reply, v) = Told("failed", <<>>)
  <2> TAKE v
  <2>1. Adiv(reply, v) = ToldOf(FALSE, v)
    BY <1>1 DEF Adiv
  <2> QED BY <2>1, ToldIs, Zenon
<1>4. ReadReply(reads, reply) = Told("failed", <<>>)
  <2>1. ReadReply("word", reply) = Told("failed", <<>>)
    BY <1>2, Readings, Zenon
  <2>2. ReadReply("ok8", reply) = Told("failed", <<>>)
    <3>1. ReadReply("ok8", reply) = ToldOf(check_reply(reply, 8), <<>>)
      BY Readings
    <3>2. ReadReply("ok8", reply) = ToldOf(FALSE, <<>>)
      BY <1>2, <3>1
    <3> QED BY <3>2, ToldIs
  <2>3. ReadReply("adiv", reply) = Told("failed", <<>>) /\ ReadReply("block", reply) = Told("failed", <<>>)
    BY <1>3, Readings, Zenon
  <2> QED BY <2>1, <2>2, <2>3, Zenon DEF Faulting
<1>5. ReadReply(reads, reply).status = "failed" /\ ReadReply(reads, <<>>).status = "failed"
  <2>1. reads \in Failing
    BY Zenon DEF Faulting, Failing
  <2> QED BY <1>4, <2>1, ToldIs, EmptyRead, Zenon
<1>6. Honest(ReadReply(reads, reply), m) /\ Honest(ReadReply(reads, <<>>), m)
  BY <1>5, Zenon DEF Honest
<1> QED BY <1>6, Zenon DEF Says, reply

(* A short answer is heard whole.                                          *)
LEMMA ShortSays ==
  ASSUME NEW reads, NEW m, NEW chars \in Seq(Text), Len(chars) <= 16,
         Honest(ReadReply(reads, <<RPC_RESP_OK>> \o chars), m)
  PROVE  Says(rpc_reply_encoder(RPC_RESP_OK, chars), reads, m)
<1>1. ~(Len(chars) + 2 > RPC_BUFFER_SIZE)
  <2>1. Len(chars) \in Nat
    BY LetterAhead, Codes, Zenon
  <2>2. RPC_BUFFER_SIZE \in Nat /\ RPC_BUFFER_SIZE >= 18
    BY RpcAssumption
  <2> QED BY <2>1, <2>2
<1> QED BY <1>1, Zenon DEF Says

-----------------------------------------------------------------------------
(* What the stubs hear of an outcome.                                      *)

\* The outcomes that have a word, that have an octet, that have failed, and
\* those whose word and fault are answered side by side
Ran    == {Done(<<w>>) : w \in Word32}
Small  == {Done(<<b>>) : b \in Octet}
Erred  == {Failed(f) : f \in 1..255}
Paired == {[fault |-> f, values |-> <<w>>] : f \in Octet, w \in Word32}

(* The outcomes of the probe are among them.                               *)
LEMMA AnswersFall ==
  /\ Silent \subseteq Ran /\ Always \subseteq Ran
  /\ Fixed(0) \subseteq Small /\ Fixed(1) \subseteq Small /\ Fixed(3) \subseteq Small
  /\ Bits \subseteq Small
  /\ Tried \subseteq Ran \cup Erred /\ Reading \subseteq Ran \cup Erred
  /\ {Failed(f) : f \in Faults} \subseteq Erred
  /\ Failed(255) \in Erred
  /\ SideBySide \subseteq Paired
<1>1. 0 \in Word32 /\ Words \subseteq Word32 /\ Faults \subseteq 1..255
  <2>1. 0 \in Word32
    BY DEF Word32, Weight
  <2> QED BY <2>1, RpcAssumption
<1>2. Silent \subseteq Ran /\ Always \subseteq Ran
  BY <1>1, Zenon DEF Silent, Always, Ran
<1>3. {Failed(f) : f \in Faults} \subseteq Erred
  BY <1>1, Zenon DEF Erred
<1>4. Failed(255) \in Erred
  <2>1. 255 \in 1..255
    OBVIOUS
  <2> QED BY <2>1, Zenon DEF Erred
<1>5. Tried \subseteq Ran \cup Erred /\ Reading \subseteq Ran \cup Erred
  BY <1>2, <1>3, Zenon DEF Tried, Reading
<1>6. /\ Fixed(0) \subseteq Small /\ Fixed(1) \subseteq Small /\ Fixed(3) \subseteq Small
      /\ Bits \subseteq Small
  <2>1. 0 \in Octet /\ 1 \in Octet /\ 3 \in Octet /\ \A b \in {0, 1} : b \in Octet
    BY DEF Octet
  <2>2. Fixed(0) \subseteq Small
    BY <2>1, Zenon DEF Fixed, Small
  <2>3. Fixed(1) \subseteq Small
    BY <2>1, Zenon DEF Fixed, Small
  <2>4. Fixed(3) \subseteq Small
    BY <2>1, Zenon DEF Fixed, Small
  <2>5. Bits \subseteq Small
    BY <2>1, Zenon DEF Bits, Small
  <2> QED BY <2>2, <2>3, <2>4, <2>5
<1>7. SideBySide \subseteq Paired
  <2>1. Faults \cup {0} \subseteq Octet
    BY <1>1 DEF Octet
  <2> SUFFICES ASSUME NEW o \in SideBySide PROVE o \in Paired
    OBVIOUS
  <2>2. PICK f \in Faults \cup {0}, w \in Words : o = [fault |-> f, values |-> <<w>>]
    BY DEF SideBySide
  <2>3. f \in Octet /\ w \in Word32
    BY <1>1, <2>1, Zenon
  <2> QED BY <2>2, <2>3 DEF Paired
<1> QED BY <1>2, <1>3, <1>4, <1>5, <1>6, <1>7

\* An outcome is heard as it is
Heeds(reads, replies, o) == Says(Replied(replies, o), reads, o)

LEMMA DoneIs ==
  /\ \A v : Done(v).fault = 0 /\ Done(v).values = v
  /\ \A f : Failed(f).fault = f /\ Failed(f).values = <<0>>
BY DEF Done, Failed

(* Values are told honestly after success, and a failure after a fault.    *)
LEMMA HonestIs ==
  ASSUME NEW m, NEW v
  PROVE  /\ m.fault = 0 /\ v \in {<<>>, m.values} => Honest(Told("ok", v), m)
         /\ v \in {<<>>, m.values} => Honest(Told("unknown", v), m)
         /\ m.fault # 0 => Honest(Told("failed", v), m)
<1>1. \A s : Told(s, v).status = s /\ Told(s, v).values = v
  BY ToldIs, Zenon
<1>2. PICK a, b, c : a = Told("ok", v) /\ b = Told("unknown", v) /\ c = Told("failed", v)
  OBVIOUS
<1>3. a.status = "ok" /\ b.status = "unknown" /\ c.status = "failed" /\ a.values = v /\ b.values = v
  BY <1>1, <1>2, Zenon
<1>4. m.fault = 0 /\ v \in {<<>>, m.values} => Honest(a, m)
  BY <1>3 DEF Honest
<1>5. v \in {<<>>, m.values} => Honest(b, m)
  BY <1>3 DEF Honest
<1>6. m.fault # 0 => Honest(c, m)
  BY <1>3 DEF Honest
<1> QED BY <1>2, <1>4, <1>5, <1>6, Zenon

LEMMA RepliedIs ==
  ASSUME NEW o
  PROVE  /\ Replied("string", o) = rpc_reply_string(o.values)
         /\ Replied("ok", o) = rpc_reply_encoder(RPC_RESP_OK, <<>>)
         /\ Replied("u8", o) = rpc_reply_ok(o.values[1])
         /\ Replied("u32", o) = rpc_reply32_le_ok(o.values[1])
         /\ Replied("bool_32", o) = rpc_reply_bool_32le(o)
         /\ Replied("adiv5_32", o) = reply_adiv5_32(o)
         /\ Replied("two", o) = ReplyTwo(o)
         /\ Replied("two_or_fault", o) = IF o.fault # 0 THEN simple_error(RPC_ERROR_FAULT)
                                         ELSE ReplyTwo(o)
         /\ Replied("block", o) = IF o.fault # 0 THEN simple_error(o.fault)
                                  ELSE rpc_reply_hex_string(o.values)
BY Zenon DEF Replied

(* A call answered by its letter alone.                                    *)
LEMMA OkHeeded ==
  ASSUME NEW o \in Ran
  PROVE  Heeds("ok", "ok", o) /\ Heeds("ignored", "ok", o)
<1>1. o.fault = 0
  BY DoneIs, Zenon DEF Ran
<1>2. <<>> \in Seq(Text) /\ Len(<<>>) <= 16
  OBVIOUS
<1>3. PICK reply : reply = <<RPC_RESP_OK>> \o <<>>
  OBVIOUS
<1>4. check_reply(reply, 0) = TRUE
  BY <1>3 DEF check_reply
<1>5. ReadReply("ok", reply) = Told("ok", <<>>) /\ ReadReply("ignored", reply) = Told("unknown", <<>>)
  <2>1. ReadReply("ok", reply) = ToldOf(check_reply(reply, 0), <<>>)
    BY Readings
  <2>2. ReadReply("ok", reply) = ToldOf(TRUE, <<>>)
    BY <1>4, <2>1
  <2>3. ReadReply("ignored", reply) = Told("unknown", <<>>)
    BY Readings
  <2> QED BY <2>2, <2>3, ToldIs
<1>6. Honest(ReadReply("ok", reply), o) /\ Honest(ReadReply("ignored", reply), o)
  <2>1. <<>> \in {<<>>, o.values}
    OBVIOUS
  <2> QED BY <1>1, <1>5, <2>1, HonestIs, Zenon
<1>7. Says(rpc_reply_encoder(RPC_RESP_OK, <<>>), "ok", o)
      /\ Says(rpc_reply_encoder(RPC_RESP_OK, <<>>), "ignored", o)
  BY <1>2, <1>3, <1>6, ShortSays, Zenon
<1> QED BY <1>7, RepliedIs, Zenon DEF Heeds

(* A call answered by an octet.                                            *)
LEMMA OctetHeeded ==
  ASSUME NEW o \in Small
  PROVE  Heeds("u8", "u8", o)
<1>1. PICK b \in Octet : o = Done(<<b>>)
  BY DEF Small
<1>2. b \in Nat
  BY DEF Octet
<1>3. o.values = <<b>> /\ o.values[1] = b
  <2>1. o.values = <<b>>
    BY <1>1, DoneIs, Zenon
  <2> QED BY <2>1
<1>4. u8_to_ascii(b) \in Seq(Text) /\ Len(u8_to_ascii(b)) = 2
  BY <1>2, NumberHex, Zenon
<1>5. ascii_octet_to_hex(u8_to_ascii(b)[1], u8_to_ascii(b)[2]) = b
  <2>1. PICK l, r : u8_to_ascii(b) = <<l, r>> /\ ascii_octet_to_hex(l, r) = b
    BY <1>1, OctetRead, Zenon
  <2>2. u8_to_ascii(b)[1] = l /\ u8_to_ascii(b)[2] = r
    BY <2>1
  <2> QED BY <2>1, <2>2, Zenon
<1>6. PICK chars : chars = u8_to_ascii(b)
  OBVIOUS
<1>7. PICK reply : reply = <<RPC_RESP_OK>> \o chars
  OBVIOUS
<1>8. /\ chars \in Seq(Text) /\ Len(chars) = 2
      /\ ascii_octet_to_hex(chars[1], chars[2]) = b
  BY <1>4, <1>5, <1>6, Zenon
<1>9. /\ reply # <<>> /\ reply[1] = RPC_RESP_OK /\ Len(reply) = Len(chars) + 1
      /\ \A j \in 1..Len(chars) : reply[1 + j] = chars[j]
  BY <1>7, <1>8, LetterAhead, Codes, Zenon
<1>10. Len(reply) = 2 + 1 /\ reply[2] = chars[1] /\ reply[3] = chars[2]
  <2>1. 1 \in 1..2 /\ 2 \in 1..2 /\ 1 + 1 = 2 /\ 1 + 2 = 3
    OBVIOUS
  <2> QED BY <1>8, <1>9, <2>1
<1>11. ReadReply("u8", reply) = Told("unknown", <<b>>)
  <2>1. check_reply(reply, 2)
    BY <1>9, <1>10, Zenon DEF check_reply
  <2>2. ascii_octet_to_hex(reply[2], reply[3]) = b
    BY <1>8, <1>10, Zenon
  <2> QED BY <2>1, <2>2, Readings, Zenon
<1>12. Honest(ReadReply("u8", reply), o)
  <2>1. <<b>> \in {<<>>, o.values}
    BY <1>3
  <2> QED BY <1>11, <2>1, HonestIs, Zenon
<1>13. Len(chars) <= 16
  BY <1>8
<1>14. Says(rpc_reply_encoder(RPC_RESP_OK, chars), "u8", o)
  BY <1>7, <1>8, <1>12, <1>13, ShortSays, Zenon
<1> QED BY <1>3, <1>6, <1>14, RepliedIs, Zenon DEF Heeds, rpc_reply_ok

\* The ways of answering with a word, and of reading one
Wordy == {"u32", "bool_32", "adiv5_32"}
Reads32 == {"word", "u32", "ok8", "adiv", "ignored"}

(* A word is heard.                                                        *)
LEMMA WordHeeded ==
  ASSUME NEW o \in Ran, NEW reads \in Reads32, NEW replies \in Wordy
  PROVE  Heeds(reads, replies, o)
<1>1. PICK w \in Word32 : o = Done(<<w>>)
  BY DEF Ran
<1>2. o.values = <<w>> /\ o.values[1] = w /\ o.fault = 0
  <2>1. o.values = <<w>> /\ o.fault = 0
    BY <1>1, DoneIs, Zenon
  <2> QED BY <2>1
<1>3. PICK chars : chars = add_u32_le(w)
  OBVIOUS
<1>4. PICK reply : reply = <<RPC_RESP_OK>> \o chars
  OBVIOUS
<1>5. /\ chars \in Seq(Text) /\ Len(chars) = 8
      /\ reply # <<>> /\ reply[1] = RPC_RESP_OK /\ Len(reply) = 9
      /\ Word(reply, 2) = w /\ u8s_string_to_u32_le(SubSeq(reply, 2, Len(reply))) = w
  BY <1>3, <1>4, WordRead, Zenon
<1>6. check_reply(reply, 8) = TRUE
  <2>1. 9 = 8 + 1
    OBVIOUS
  <2> QED BY <1>5, <2>1 DEF check_reply
<1>7. (reply # <<>> /\ reply[1] = RPC_RESP_OK) = TRUE
  BY <1>5
<1>8. ReadReply("word", reply) = Told("ok", <<w>>)
  BY <1>5, <1>6, Readings, Zenon
<1>9. ReadReply("u32", reply) = Told("unknown", <<w>>)
  BY <1>5, <1>6, Readings, Zenon
<1>10. ReadReply("ok8", reply) = Told("ok", <<>>)
  <2>1. ReadReply("ok8", reply) = ToldOf(check_reply(reply, 8), <<>>)
    BY Readings
  <2> QED BY <1>6, <2>1, ToldIs
<1>11. ReadReply("adiv", reply) = Told("ok", <<w>>)
  <2>1. ReadReply("adiv", reply) = Adiv(reply, <<w>>)
    BY <1>5, Readings, Zenon
  <2>2. Adiv(reply, <<w>>) = ToldOf(reply # <<>> /\ reply[1] = RPC_RESP_OK, <<w>>)
    BY DEF Adiv
  <2>3. Adiv(reply, <<w>>) = ToldOf(TRUE, <<w>>)
    BY <1>7, <2>2
  <2> QED BY <2>1, <2>3, ToldIs
<1>12. ReadReply("ignored", reply) = Told("unknown", <<>>)
  BY Readings
<1>13. \A status \in {"ok", "unknown"}, values \in {<<>>, <<w>>} : Honest(Told(status, values), o)
  <2>1. \A values \in {<<>>, <<w>>} : values \in {<<>>, o.values}
    BY <1>2
  <2> QED BY <1>2, <2>1, HonestIs, Zenon
<1>14. Honest(ReadReply(reads, reply), o)
  BY <1>8, <1>9, <1>10, <1>11, <1>12, <1>13, Zenon DEF Reads32
<1>15. Len(chars) <= 16
  BY <1>5
<1>16. Says(rpc_reply_encoder(RPC_RESP_OK, chars), reads, o)
  BY <1>4, <1>5, <1>14, <1>15, ShortSays, Zenon
<1>17. Replied(replies, o) = rpc_reply_encoder(RPC_RESP_OK, chars)
  <2>1. rpc_reply32_le_ok(w) = rpc_reply_encoder(RPC_RESP_OK, chars)
    BY <1>3, Zenon DEF rpc_reply32_le_ok
  <2>2. Replied("u32", o) = rpc_reply_encoder(RPC_RESP_OK, chars)
    BY <1>2, <2>1, RepliedIs, Zenon
  <2>3. Replied("bool_32", o) = rpc_reply_encoder(RPC_RESP_OK, chars)
    BY <1>2, <2>1, RepliedIs, Zenon DEF rpc_reply_bool_32le
  <2>4. Replied("adiv5_32", o) = rpc_reply_encoder(RPC_RESP_OK, chars)
    BY <1>2, <2>1, RepliedIs, Zenon DEF reply_adiv5_32
  <2> QED BY <2>2, <2>3, <2>4, Zenon DEF Wordy
<1> QED BY <1>16, <1>17, Zenon DEF Heeds

(* A failure is heard as one.                                              *)
LEMMA ErrorHeeded ==
  ASSUME NEW o \in Erred, NEW reads \in Faulting,
         NEW replies \in {"bool_32", "adiv5_32", "block"}
  PROVE  Heeds(reads, replies, o)
<1>1. PICK f \in 1..255 : o = Failed(f)
  BY DEF Erred
<1>2. o.fault = f
  BY <1>1, DoneIs, Zenon
<1>3. f \in Nat /\ f # 0
  OBVIOUS
<1>4. \A e \in Nat : \E chars \in Seq(Text) : simple_error(e) = rpc_reply_encoder(RPC_RESP_ERR, chars)
  <2> TAKE e \in Nat
  <2>1. 256 * e + RPC_ERROR_FAULT \in Nat
    BY DEF RPC_ERROR_FAULT
  <2>2. add_u32_le(256 * e + RPC_ERROR_FAULT) \in Seq(Text)
    BY <2>1, WordHex, Zenon
  <2> QED BY <2>2, Zenon DEF simple_error
<1>5. \E chars \in Seq(Text) : Replied("bool_32", o) = rpc_reply_encoder(RPC_RESP_ERR, chars)
  <2>1. 1 \in Nat
    OBVIOUS
  <2>2. Replied("bool_32", o) = simple_error(1)
    BY <1>2, <1>3, RepliedIs, Zenon DEF rpc_reply_bool_32le
  <2> QED BY <1>4, <2>1, <2>2, Zenon
<1>6. \E chars \in Seq(Text) : Replied("adiv5_32", o) = rpc_reply_encoder(RPC_RESP_ERR, chars)
  <2>1. <<f>> \o [i \in 1..9 |-> RPC_ERROR_FAULT] \in Seq(Nat)
    BY <1>3 DEF RPC_ERROR_FAULT
  <2>2. hexify(<<f>> \o [i \in 1..9 |-> RPC_ERROR_FAULT]) \in Seq(Text)
    BY <2>1, NumbersHex, Zenon
  <2>3. Replied("adiv5_32", o)
          = rpc_reply_encoder(RPC_RESP_ERR, hexify(<<f>> \o [i \in 1..9 |-> RPC_ERROR_FAULT]))
    BY <1>2, <1>3, RepliedIs, Zenon DEF reply_adiv5_32
  <2> QED BY <2>2, <2>3, Zenon
<1>7. \E chars \in Seq(Text) : Replied("block", o) = rpc_reply_encoder(RPC_RESP_ERR, chars)
  <2>1. Replied("block", o) = simple_error(f)
    BY <1>2, <1>3, RepliedIs, Zenon
  <2> QED BY <1>3, <1>4, <2>1, Zenon
<1>8. PICK chars \in Seq(Text) : Replied(replies, o) = rpc_reply_encoder(RPC_RESP_ERR, chars)
  BY <1>5, <1>6, <1>7, Zenon
<1>9. o.fault # 0
  BY <1>2, <1>3
<1>10. Says(rpc_reply_encoder(RPC_RESP_ERR, chars), reads, o)
  BY <1>9, ErrorSays, Zenon
<1> QED BY <1>8, <1>10, Zenon DEF Heeds

(* A word and a fault, side by side.                                       *)
LEMMA PairHeeded ==
  ASSUME NEW o \in Paired
  PROVE  /\ Heeds("access", "two", o) /\ Heeds("access_rs", "two", o)
         /\ o.fault = 0 => Heeds("access_v3", "two_or_fault", o)
<1>1. PICK f \in Octet, w \in Word32 : o = [fault |-> f, values |-> <<w>>]
  BY DEF Paired
<1>2. o.fault = f /\ o.values = <<w>> /\ o.values[1] = w
  BY <1>1
<1>3. f \in Word32
  BY DEF Octet, Word32, Weight
<1>4. PICK chars : chars = add_u32_le(w) \o add_u32_le(f)
  OBVIOUS
<1>5. PICK reply : reply = <<RPC_RESP_OK>> \o chars
  OBVIOUS
<1>6. /\ chars \in Seq(Text) /\ Len(chars) = 16
      /\ check_reply(reply, 16) /\ Word(reply, 2) = w /\ Word(reply, 10) = f
  BY <1>3, <1>4, <1>5, WordsRead, Zenon
<1>7. \A otherwise : Honest(Access(reply, otherwise), o)
  <2> TAKE otherwise
  <2>1. PICK pair : pair = IF check_reply(reply, 16)
                           THEN <<Word(reply, 2), Word(reply, 10)>> ELSE otherwise
    OBVIOUS
  <2>2. pair = <<w, f>>
    BY <1>6, <2>1, Zenon
  <2>3. pair[2] = f /\ <<pair[1]>> = <<w>>
    BY <2>2
  <2>4. Access(reply, otherwise) = ToldOf(pair[2] = 0, <<pair[1]>>)
    BY <2>1, Zenon DEF Access
  <2>5. CASE f = 0
    <3>1. (pair[2] = 0) = TRUE
      BY <2>3, <2>5
    <3>2. Access(reply, otherwise) = Told("ok", <<w>>)
      BY <2>3, <2>4, <3>1, ToldIs, Zenon
    <3>3. <<w>> \in {<<>>, o.values} /\ o.fault = 0
      BY <1>2, <2>5
    <3> QED BY <3>2, <3>3, HonestIs, Zenon
  <2>6. CASE f # 0
    <3>1. (pair[2] = 0) = FALSE
      BY <2>3, <2>6
    <3>2. Access(reply, otherwise) = Told("failed", <<>>)
      BY <2>4, <3>1, ToldIs, Zenon
    <3>3. o.fault # 0
      BY <1>2, <2>6
    <3> QED BY <3>2, <3>3, HonestIs, Zenon
  <2> QED BY <2>5, <2>6
<1>8. /\ Honest(ReadReply("access", reply), o) /\ Honest(ReadReply("access_rs", reply), o)
      /\ Honest(ReadReply("access_v3", reply), o)
  BY <1>7, Readings, Zenon
<1>9. Len(chars) <= 16
  BY <1>6
<1>10. /\ Says(rpc_reply_encoder(RPC_RESP_OK, chars), "access", o)
       /\ Says(rpc_reply_encoder(RPC_RESP_OK, chars), "access_rs", o)
       /\ Says(rpc_reply_encoder(RPC_RESP_OK, chars), "access_v3", o)
  BY <1>5, <1>6, <1>8, <1>9, ShortSays, Zenon
<1>11. ReplyTwo(o) = rpc_reply_encoder(RPC_RESP_OK, chars)
  BY <1>2, <1>4, Zenon DEF ReplyTwo
<1>12. Replied("two", o) = ReplyTwo(o) /\ (o.fault = 0 => Replied("two_or_fault", o) = ReplyTwo(o))
  BY RepliedIs, Zenon
<1> QED BY <1>10, <1>11, <1>12, Zenon DEF Heeds

(* A block is heard, or it is too long.                                    *)
LEMMA BlockHeeded ==
  ASSUME NEW s \in Seq(Octet)
  PROVE  Heeds("block", "block", Done(s))
<1>1. PICK o : o = Done(s) /\ o.fault = 0 /\ o.values = s
  BY DoneIs, Zenon
<1>2. PICK chars : chars = hexify(s)
  OBVIOUS
<1>3. PICK n \in Nat : n = Len(s)
  OBVIOUS
<1>4. chars \in Seq(Text) /\ Len(chars) = 2 * n
  <2>1. s \in Seq(Nat)
    <3>1. Octet \subseteq Nat
      BY DEF Octet
    <3> QED BY <3>1, SeqWider, Zenon
  <2>2. Len(hexify(s)) = 2 * n
    BY <1>3, HexifiedAt, Zenon
  <2> QED BY <1>2, <2>1, <2>2, NumbersHex, Zenon
<1>5. PICK reply : reply = <<RPC_RESP_OK>> \o chars
  OBVIOUS
<1>6. reply # <<>> /\ reply[1] = RPC_RESP_OK /\ Len(reply) = 2 * n + 1
  <2>1. reply # <<>> /\ reply[1] = RPC_RESP_OK /\ Len(reply) = Len(chars) + 1
    BY <1>4, <1>5, LetterAhead, Codes, Zenon
  <2> QED BY <1>4, <2>1
<1>7. SubSeq(reply, 2, Len(reply)) = chars
  <2>1. <<>> \in Seq(Text) /\ chars = chars \o <<>> /\ Len(chars) + 1 = 2 * n + 1
    BY <1>4
  <2>2. SubSeq(reply, 2, Len(chars) + 1) = chars
    BY <1>4, <1>5, <2>1, BehindLetter, Codes
  <2> QED BY <1>6, <2>1, <2>2
<1>8. ReadReply("block", reply) = Told("ok", s)
  <2>1. u8_hex_string_to_u8s(chars) = s
    BY <1>2, OctetsBack, Zenon
  <2>2. ReadReply("block", reply) = Adiv(reply, s)
    BY <1>7, <2>1, Readings, Zenon
  <2>3. (reply # <<>> /\ reply[1] = RPC_RESP_OK) = TRUE
    BY <1>6
  <2>4. Adiv(reply, s) = ToldOf(TRUE, s)
    BY <2>3 DEF Adiv
  <2> QED BY <2>2, <2>4, ToldIs
<1>9. Honest(ReadReply("block", reply), o)
  <2>1. s \in {<<>>, o.values}
    BY <1>1
  <2> QED BY <1>1, <1>8, <2>1, HonestIs, Zenon
<1>10. Len(chars) + 2 > RPC_BUFFER_SIZE => Honest(ReadReply("block", <<>>), o)
  <2> SUFFICES ASSUME Len(chars) + 2 > RPC_BUFFER_SIZE PROVE Honest(ReadReply("block", <<>>), o)
    OBVIOUS
  <2>1. RPC_BUFFER_SIZE \in Nat
    BY RpcAssumption
  <2>2. n * 2 + 1 >= RPC_BUFFER_SIZE
    BY <1>4, <2>1
  <2>3. Len(o.values) * 2 + 1 >= RPC_BUFFER_SIZE
    BY <1>1, <1>3, <2>2
  <2>4. ReadReply("block", <<>>).status = "failed"
    BY EmptyRead, Zenon DEF Failing
  <2> QED BY <2>3, <2>4, Zenon DEF Honest
<1>11. Says(rpc_reply_encoder(RPC_RESP_OK, chars), "block", o)
  BY <1>4, <1>5, <1>9, <1>10, Zenon DEF Says
<1>12. Replied("block", o) = rpc_reply_encoder(RPC_RESP_OK, chars)
  <2>1. Replied("block", o) = rpc_reply_hex_string(s)
    BY <1>1, RepliedIs, Zenon
  <2> QED BY <1>2, <2>1, Zenon DEF rpc_reply_hex_string
<1> QED BY <1>1, <1>11, <1>12, Zenon DEF Heeds

-----------------------------------------------------------------------------
(* The stubs and the commands they name.                                   *)

\* What a command of the probe may answer, and how
HasAnswers(class, cmd, answers, replies) ==
  /\ class \in DOMAIN Classes /\ cmd \in DOMAIN Classes[class]
  /\ Classes[class][cmd].answers = answers /\ Classes[class][cmd].replies = replies

(* The answers of each class, letter by letter.                            *)
LEMMA GenAnswers ==
  /\ HasAnswers("G", "A", LNBMP, "string")
  /\ HasAnswers("G", "V", Voltages, "string")
  /\ HasAnswers("G", "Z", Silent, "ok")
  /\ HasAnswers("G", "z", Bits, "u8")
  /\ HasAnswers("G", "E", Silent, "ok")
  /\ HasAnswers("G", "F", Silent, "ok")
  /\ HasAnswers("G", "f", Always, "u32")
  /\ HasAnswers("G", "P", Silent, "ok")
  /\ HasAnswers("G", "p", Fixed(0), "u8")
  /\ HasAnswers("G", "R", Silent, "ok")
BY DEF HasAnswers, Classes, rpc_gen_impl, Command

LEMMA SwdpAnswers ==
  /\ HasAnswers("S", "S", Silent, "ok")
BY DEF HasAnswers, Classes, rpc_swdp_impl, Command

LEMMA HlAnswers ==
  /\ HasAnswers("H", "C", Fixed(3), "u8")
  /\ HasAnswers("H", "A", Fixed(1), "u8")
BY DEF HasAnswers, Classes, rpc_hl_impl, Command

LEMMA SdiAnswers ==
  /\ HasAnswers("I", "S", Silent, "bool_32")
  /\ HasAnswers("I", "r", Reading, "bool_32")
  /\ HasAnswers("I", "w", Tried, "bool_32")
  /\ HasAnswers("I", "T", Silent, "ok")
BY DEF HasAnswers, Classes, rpc_sdi_impl, Command

LEMMA RvAnswers ==
  /\ HasAnswers("B", "S", Silent, "bool_32")
  /\ HasAnswers("B", "r", Reading, "bool_32")
  /\ HasAnswers("B", "w", Tried, "bool_32")
BY DEF HasAnswers, Classes, rpc_rv_impl, Command

LEMMA LnadivAnswers ==
  /\ HasAnswers("L", "W", Tried, "bool_32")
  /\ HasAnswers("L", "R", Always, "bool_32")
  /\ HasAnswers("L", "A", Silent, "bool_32")
  /\ HasAnswers("L", "B", SideBySide, "two")
BY DEF HasAnswers, Classes, rpc_lnadiv_impl, Command

LEMMA Adiv5Answers ==
  /\ HasAnswers("A", "R", SideBySide, "two_or_fault")
  /\ HasAnswers("A", "d", Reading, "adiv5_32")
  /\ HasAnswers("A", "a", Always, "adiv5_32")
  /\ HasAnswers("A", "A", Silent, "adiv5_32")
  /\ HasAnswers("A", "m", {Failed(f) : f \in Faults}, "block")
  /\ HasAnswers("A", "M", Tried, "adiv5_32")
BY DEF HasAnswers, Classes, rpc_adiv5_impl, Command

LEMMA SwindleAnswers ==
  /\ HasAnswers("Z", "C", Reading, "bool_32")
  /\ HasAnswers("Z", "G", Always, "bool_32")
  /\ HasAnswers("Z", "S", Silent, "ok")
BY DEF HasAnswers, Classes, rpc_swindle_impl, Command

\* The ways of reading an answer that some caller can trust
Trusted == Failing \cup {"u32", "u8", "ignored", "access", "access_v3"}

\* Whatever a command answers, the stub hears it
AllHeed(reads, replies, answers) ==
  reads \in Trusted /\ \A o \in answers : Heeds(reads, replies, o)

(* What the stubs hear of the answers of the commands they name.           *)
LEMMA AllHeeded ==
  /\ AllHeed("access", "two", SideBySide)
  /\ AllHeed("access_rs", "two", SideBySide)
  /\ AllHeed("adiv", "adiv5_32", Always)
  /\ AllHeed("adiv", "adiv5_32", Reading)
  /\ AllHeed("adiv", "adiv5_32", Silent)
  /\ AllHeed("adiv", "adiv5_32", Tried)
  /\ AllHeed("ignored", "bool_32", Silent)
  /\ AllHeed("ignored", "ok", Silent)
  /\ AllHeed("ok", "ok", Silent)
  /\ AllHeed("ok8", "bool_32", Silent)
  /\ AllHeed("ok8", "bool_32", Tried)
  /\ AllHeed("u32", "bool_32", Always)
  /\ AllHeed("u32", "u32", Always)
  /\ AllHeed("u8", "u8", Bits)
  /\ AllHeed("u8", "u8", Fixed(0))
  /\ AllHeed("u8", "u8", Fixed(1))
  /\ AllHeed("u8", "u8", Fixed(3))
  /\ AllHeed("word", "bool_32", Always)
  /\ AllHeed("word", "bool_32", Reading)
  /\ AllHeed("word", "bool_32", Silent)
  /\ AllHeed("word", "bool_32", Tried)
<1>1. AllHeed("access", "two", SideBySide)
  BY AnswersFall, PairHeeded, Zenon DEF AllHeed, Trusted, Failing
<1>2. AllHeed("access_rs", "two", SideBySide)
  BY AnswersFall, PairHeeded, Zenon DEF AllHeed, Trusted, Failing
<1>3. AllHeed("adiv", "adiv5_32", Always)
  BY AnswersFall, WordHeeded, Zenon DEF AllHeed, Trusted, Failing, Reads32, Wordy
<1>4. AllHeed("adiv", "adiv5_32", Reading)
  BY AnswersFall, WordHeeded, ErrorHeeded, Zenon DEF AllHeed, Trusted, Failing, Reads32, Wordy, Faulting
<1>5. AllHeed("adiv", "adiv5_32", Silent)
  BY AnswersFall, WordHeeded, Zenon DEF AllHeed, Trusted, Failing, Reads32, Wordy
<1>6. AllHeed("adiv", "adiv5_32", Tried)
  BY AnswersFall, WordHeeded, ErrorHeeded, Zenon DEF AllHeed, Trusted, Failing, Reads32, Wordy, Faulting
<1>7. AllHeed("ignored", "bool_32", Silent)
  BY AnswersFall, WordHeeded, Zenon DEF AllHeed, Trusted, Failing, Reads32, Wordy
<1>8. AllHeed("ignored", "ok", Silent)
  BY AnswersFall, OkHeeded, Zenon DEF AllHeed, Trusted, Failing
<1>9. AllHeed("ok", "ok", Silent)
  BY AnswersFall, OkHeeded, Zenon DEF AllHeed, Trusted, Failing
<1>10. AllHeed("ok8", "bool_32", Silent)
  BY AnswersFall, WordHeeded, Zenon DEF AllHeed, Trusted, Failing, Reads32, Wordy
<1>11. AllHeed("ok8", "bool_32", Tried)
  BY AnswersFall, WordHeeded, ErrorHeeded, Zenon DEF AllHeed, Trusted, Failing, Reads32, Wordy, Faulting
<1>12. AllHeed("u32", "bool_32", Always)
  BY AnswersFall, WordHeeded, Zenon DEF AllHeed, Trusted, Failing, Reads32, Wordy
<1>13. AllHeed("u32", "u32", Always)
  BY AnswersFall, WordHeeded, Zenon DEF AllHeed, Trusted, Failing, Reads32, Wordy
<1>14. AllHeed("u8", "u8", Bits)
  BY AnswersFall, OctetHeeded, Zenon DEF AllHeed, Trusted, Failing
<1>15. AllHeed("u8", "u8", Fixed(0))
  BY AnswersFall, OctetHeeded, Zenon DEF AllHeed, Trusted, Failing
<1>16. AllHeed("u8", "u8", Fixed(1))
  BY AnswersFall, OctetHeeded, Zenon DEF AllHeed, Trusted, Failing
<1>17. AllHeed("u8", "u8", Fixed(3))
  BY AnswersFall, OctetHeeded, Zenon DEF AllHeed, Trusted, Failing
<1>18. AllHeed("word", "bool_32", Always)
  BY AnswersFall, WordHeeded, Zenon DEF AllHeed, Trusted, Failing, Reads32, Wordy
<1>19. AllHeed("word", "bool_32", Reading)
  BY AnswersFall, WordHeeded, ErrorHeeded, Zenon DEF AllHeed, Trusted, Failing, Reads32, Wordy, Faulting
<1>20. AllHeed("word", "bool_32", Silent)
  BY AnswersFall, WordHeeded, Zenon DEF AllHeed, Trusted, Failing, Reads32, Wordy
<1>21. AllHeed("word", "bool_32", Tried)
  BY AnswersFall, WordHeeded, ErrorHeeded, Zenon DEF AllHeed, Trusted, Failing, Reads32, Wordy, Faulting
<1> QED BY <1>1, <1>2, <1>3, <1>4, <1>5, <1>6, <1>7, <1>8, <1>9, <1>10, <1>11, <1>12, <1>13, <1>14, <1>15, <1>16, <1>17, <1>18, <1>19, <1>20, <1>21, Zenon

\* The stubs that take one answer for another, whatever it is
Garbling == {"bmp_set_frequency_c", "remote_gen_start", "remote_gen_voltage"}

\* A stub hears the answers of its command
Truthful(call, entry) ==
  /\ entry.reads \in Trusted /\ entry.means # "nothing"
  /\ entry.reads = "access" => call = "remote_lnadiv_lowlevel"
  /\ entry.reads = "access_v3" => call = "remote_adiv5_raw_access_v3"
  /\ entry.means # "pin" => \E answers, replies :
       /\ HasAnswers(entry.class, entry.cmd, answers, replies)
       /\ \A o \in answers : Heeds(entry.reads, replies, o)
                            \/ (entry.reads = "access_v3" /\ o.fault # 0)
       /\ entry.means \in {"mem_read", "mem_write"} => Heeds(entry.reads, replies, Failed(255))
       /\ entry.means = "mem_read" => entry.reads = "block" /\ replies = "block"

AllTruthful(table) ==
  \A call \in DOMAIN table : call \in Garbling \/ Truthful(call, table[call])

(* A stub that hears whatever its command answers.                         *)
LEMMA TruthfulStub ==
  ASSUME NEW call, NEW class, NEW cmd, NEW sends, NEW reads, NEW means, NEW answers, NEW replies,
         reads \notin {"access", "access_v3"},
         means \notin {"nothing", "pin", "mem_read", "mem_write"},
         HasAnswers(class, cmd, answers, replies), AllHeed(reads, replies, answers)
  PROVE  Truthful(call, Stub(class, cmd, sends, reads, means))
<1> DEFINE entry == Stub(class, cmd, sends, reads, means)
<1>1. entry.class = class /\ entry.cmd = cmd /\ entry.reads = reads /\ entry.means = means
  BY DEF Stub
<1> HIDE DEF entry
<1>2. entry.means \notin {"mem_read", "mem_write"} /\ entry.means # "mem_read"
  BY <1>1
<1>3. Truthful(call, entry)
  BY <1>1, <1>2, Zenon DEF Truthful, AllHeed
<1> QED BY <1>3, Zenon DEF entry

(* The stubs with a reading of their own, and those that move blocks.      *)
LEMMA SpecialTruths ==
  /\ Truthful("remote_lnadiv_lowlevel", Stub("L", "B", <<"u8_hex", "u16_le", "u32_le">>, "access", "swd_raw_access"))
  /\ Truthful("remote_adiv5_raw_access_v3", Stub("A", "R", <<"u8_hex", "u8_hex", "u16_be", "u32_be">>, "access_v3", "dp_low_level"))
  /\ Truthful("remote_adiv5_mem_read", Stub("A", "m", <<"u8_hex", "u8_hex", "u32_be", "u32_be", "length">>, "block", "mem_read"))
  /\ Truthful("remote_adiv5_mem_write", Stub("A", "M", <<"u8_hex", "u8_hex", "u32_be", "u8_hex", "u32_be", "length", "hex">>, "adiv", "mem_write"))
<1>1. Truthful("remote_lnadiv_lowlevel", Stub("L", "B", <<"u8_hex", "u16_le", "u32_le">>, "access", "swd_raw_access"))
  <2> DEFINE entry == Stub("L", "B", <<"u8_hex", "u16_le", "u32_le">>, "access", "swd_raw_access")
  <2>1. /\ entry.class = "L" /\ entry.cmd = "B" /\ entry.reads = "access"
        /\ entry.means = "swd_raw_access"
    BY DEF Stub
  <2> HIDE DEF entry
  <2>2. HasAnswers("L", "B", SideBySide, "two")
    BY LnadivAnswers, Zenon
  <2>3. \A o \in SideBySide : Heeds("access", "two", o)
    BY AllHeeded, Zenon DEF AllHeed
  <2>4. "access" \in Trusted
    BY Zenon DEF Trusted, Failing
  <2>5. Truthful("remote_lnadiv_lowlevel", entry)
    BY <2>1, <2>2, <2>3, <2>4, Zenon DEF Truthful
  <2> QED BY <2>5, Zenon DEF entry
<1>2. Truthful("remote_adiv5_raw_access_v3", Stub("A", "R", <<"u8_hex", "u8_hex", "u16_be", "u32_be">>, "access_v3", "dp_low_level"))
  <2> DEFINE entry == Stub("A", "R", <<"u8_hex", "u8_hex", "u16_be", "u32_be">>, "access_v3", "dp_low_level")
  <2>1. /\ entry.class = "A" /\ entry.cmd = "R" /\ entry.reads = "access_v3"
        /\ entry.means = "dp_low_level"
    BY DEF Stub
  <2> HIDE DEF entry
  <2>2. HasAnswers("A", "R", SideBySide, "two_or_fault")
    BY Adiv5Answers, Zenon
  <2>3. \A o \in SideBySide : Heeds("access_v3", "two_or_fault", o) \/ o.fault # 0
    BY AnswersFall, PairHeeded, Zenon
  <2>4. "access_v3" \in Trusted
    BY Zenon DEF Trusted, Failing
  <2>5. Truthful("remote_adiv5_raw_access_v3", entry)
    BY <2>1, <2>2, <2>3, <2>4, Zenon DEF Truthful
  <2> QED BY <2>5, Zenon DEF entry
<1>3. Truthful("remote_adiv5_mem_read", Stub("A", "m", <<"u8_hex", "u8_hex", "u32_be", "u32_be", "length">>, "block", "mem_read"))
  <2> DEFINE entry == Stub("A", "m", <<"u8_hex", "u8_hex", "u32_be", "u32_be", "length">>, "block", "mem_read")
  <2>1. /\ entry.class = "A" /\ entry.cmd = "m" /\ entry.reads = "block"
        /\ entry.means = "mem_read"
    BY DEF Stub
  <2> HIDE DEF entry
  <2>2. HasAnswers("A", "m", {Failed(f) : f \in Faults}, "block")
    BY Adiv5Answers, Zenon
  <2>3. /\ \A o \in {Failed(f) : f \in Faults} : Heeds("block", "block", o)
        /\ Heeds("block", "block", Failed(255))
    BY AnswersFall, ErrorHeeded, Zenon DEF Faulting
  <2>4. "block" \in Trusted
    BY Zenon DEF Trusted, Failing
  <2>5. Truthful("remote_adiv5_mem_read", entry)
    BY <2>1, <2>2, <2>3, <2>4, Zenon DEF Truthful
  <2> QED BY <2>5, Zenon DEF entry
<1>4. Truthful("remote_adiv5_mem_write", Stub("A", "M", <<"u8_hex", "u8_hex", "u32_be", "u8_hex", "u32_be", "length", "hex">>, "adiv", "mem_write"))
  <2> DEFINE entry == Stub("A", "M", <<"u8_hex", "u8_hex", "u32_be", "u8_hex", "u32_be", "length", "hex">>, "adiv", "mem_write")
  <2>1. /\ entry.class = "A" /\ entry.cmd = "M" /\ entry.reads = "adiv"
        /\ entry.means = "mem_write"
    BY DEF Stub
  <2> HIDE DEF entry
  <2>2. HasAnswers("A", "M", Tried, "adiv5_32")
    BY Adiv5Answers, Zenon
  <2>3. /\ \A o \in Tried : Heeds("adiv", "adiv5_32", o)
        /\ Heeds("adiv", "adiv5_32", Failed(255))
    BY AllHeeded, AnswersFall, ErrorHeeded, Zenon DEF AllHeed, Faulting
  <2>4. "adiv" \in Trusted
    BY Zenon DEF Trusted, Failing
  <2>5. Truthful("remote_adiv5_mem_write", entry)
    BY <2>1, <2>2, <2>3, <2>4, Zenon DEF Truthful
  <2> QED BY <2>5, Zenon DEF entry
<1> QED BY <1>1, <1>2, <1>3, <1>4

(* The stubs, one file at a time.                                          *)
LEMMA HostGenTruths == AllTruthful(HostGen)
<1>1. Truthful("remote_gen_nrst_set", Stub("G", "Z", <<"bool">>, "ok", "nrst_set"))
  BY GenAnswers, AllHeeded, TruthfulStub, Zenon
<1>2. Truthful("remote_gen_nrst_get", Stub("G", "z", <<>>, "u8", "nrst_get"))
  BY GenAnswers, AllHeeded, TruthfulStub, Zenon
<1>3. Truthful("remote_gen_target_clk_oe", Stub("G", "E", <<"bool">>, "ok", "target_clk_oe"))
  BY GenAnswers, AllHeeded, TruthfulStub, Zenon
<1>4. Truthful("remote_gen_freq_set", Stub("G", "F", <<"u32_le">>, "ok", "set_fq"))
  BY GenAnswers, AllHeeded, TruthfulStub, Zenon
<1>5. Truthful("remote_gen_freq_get", Stub("G", "f", <<>>, "u32", "get_fq"))
  BY GenAnswers, AllHeeded, TruthfulStub, Zenon
<1>6. Truthful("remote_gen_pwr_set", Stub("G", "P", <<"bool">>, "ok", "pwr_set"))
  BY GenAnswers, AllHeeded, TruthfulStub, Zenon
<1>7. Truthful("remote_gen_pwr_get", Stub("G", "p", <<>>, "u8", "pwr_get"))
  BY GenAnswers, AllHeeded, TruthfulStub, Zenon
<1>8. Truthful("remote_gen_gpio_reset", Stub("G", "R", <<>>, "ok", "gpio_reset"))
  BY GenAnswers, AllHeeded, TruthfulStub, Zenon
<1> QED BY <1>1, <1>2, <1>3, <1>4, <1>5, <1>6, <1>7, <1>8 DEF AllTruthful, HostGen, Garbling

LEMMA HostSwdpTruths == AllTruthful(HostSwdp)
<1>1. Truthful("remote_swdp_init", Stub("S", "S", <<>>, "ok", "init_swd"))
  BY SwdpAnswers, AllHeeded, TruthfulStub, Zenon
<1> QED BY <1>1 DEF AllTruthful, HostSwdp, Garbling

LEMMA HostHlTruths == AllTruthful(HostHl)
<1>1. Truthful("remote_hl_check", Stub("H", "C", <<>>, "u8", "check"))
  BY HlAnswers, AllHeeded, TruthfulStub, Zenon
<1>2. Truthful("remote_hl_accel", Stub("H", "A", <<>>, "u8", "accel"))
  BY HlAnswers, AllHeeded, TruthfulStub, Zenon
<1> QED BY <1>1, <1>2 DEF AllTruthful, HostHl, Garbling

LEMMA HostSdiTruths == AllTruthful(HostSdi)
<1>1. Truthful("remote_sdi_reset", Stub("I", "S", <<>>, "word", "sdi_reset"))
  BY SdiAnswers, AllHeeded, TruthfulStub, Zenon
<1>2. Truthful("remote_sdi_dm_read", Stub("I", "r", <<"u8_hex">>, "word", "sdi_read"))
  BY SdiAnswers, AllHeeded, TruthfulStub, Zenon
<1>3. Truthful("remote_sdi_dm_write", Stub("I", "w", <<"u8_hex", "u32_le">>, "word", "sdi_write"))
  BY SdiAnswers, AllHeeded, TruthfulStub, Zenon
<1>4. Truthful("remote_sdi_set_wire", Stub("I", "T", <<"u32_le", "u32_le", "u32_le", "u32_le", "bool">>, "ok", "set_sdi_wire"))
  BY SdiAnswers, AllHeeded, TruthfulStub, Zenon
<1> QED BY <1>1, <1>2, <1>3, <1>4 DEF AllTruthful, HostSdi, Garbling

LEMMA HostRvTruths == AllTruthful(HostRv)
<1>1. Truthful("remote_rv_reset", Stub("B", "S", <<>>, "word", "rv_reset"))
  BY RvAnswers, AllHeeded, TruthfulStub, Zenon
<1>2. Truthful("remote_rv_dm_read", Stub("B", "r", <<"u8_hex">>, "word", "rv_read"))
  BY RvAnswers, AllHeeded, TruthfulStub, Zenon
<1>3. Truthful("remote_rv_dm_write", Stub("B", "w", <<"u8_hex", "u32_le">>, "word", "rv_write"))
  BY RvAnswers, AllHeeded, TruthfulStub, Zenon
<1> QED BY <1>1, <1>2, <1>3 DEF AllTruthful, HostRv, Garbling

LEMMA HostLnadivTruths == AllTruthful(HostLnadiv)
<1>1. Truthful("remote_lnadiv_write", Stub("L", "W", <<"u16_le", "u32_le">>, "word", "swd_write"))
  BY LnadivAnswers, AllHeeded, TruthfulStub, Zenon
<1>2. Truthful("remote_lnadiv_read", Stub("L", "R", <<"u16_le">>, "word", "swd_read"))
  BY LnadivAnswers, AllHeeded, TruthfulStub, Zenon
<1>3. Truthful("remote_lnadiv_raw_write", Stub("L", "A", <<"u32_le", "u32_le">>, "word", "raw_swd_write"))
  BY LnadivAnswers, AllHeeded, TruthfulStub, Zenon
<1>4. Truthful("remote_lnadiv_lowlevel", Stub("L", "B", <<"u8_hex", "u16_le", "u32_le">>, "access", "swd_raw_access"))
  BY SpecialTruths
<1> QED BY <1>1, <1>2, <1>3, <1>4 DEF AllTruthful, HostLnadiv, Garbling

LEMMA HostAdiv5Truths == AllTruthful(HostAdiv5)
<1>1. Truthful("remote_adiv5_raw_access_v3", Stub("A", "R", <<"u8_hex", "u8_hex", "u16_be", "u32_be">>, "access_v3", "dp_low_level"))
  BY SpecialTruths
<1>2. Truthful("remote_adiv5_dp_read", Stub("A", "d", <<"u8_hex", "u8_hex", "u32_be">>, "adiv", "dp_read"))
  BY Adiv5Answers, AllHeeded, TruthfulStub, Zenon
<1>3. Truthful("remote_adiv5_ap_read", Stub("A", "a", <<"u8_hex", "u8_hex", "u16_be">>, "adiv", "ap_read"))
  BY Adiv5Answers, AllHeeded, TruthfulStub, Zenon
<1>4. Truthful("remote_adiv5_ap_write", Stub("A", "A", <<"u8_hex", "u8_hex", "u16_be", "u32_be">>, "adiv", "ap_write"))
  BY Adiv5Answers, AllHeeded, TruthfulStub, Zenon
<1>5. Truthful("remote_adiv5_mem_read", Stub("A", "m", <<"u8_hex", "u8_hex", "u32_be", "u32_be", "length">>, "block", "mem_read"))
  BY SpecialTruths
<1>6. Truthful("remote_adiv5_mem_write", Stub("A", "M", <<"u8_hex", "u8_hex", "u32_be", "u8_hex", "u32_be", "length", "hex">>, "adiv", "mem_write"))
  BY SpecialTruths
<1> QED BY <1>1, <1>2, <1>3, <1>4, <1>5, <1>6 DEF AllTruthful, HostAdiv5, Garbling

LEMMA HostSwindleTruths == AllTruthful(HostSwindle)
<1>1. Truthful("remote_swindle_crc32", Stub("Z", "C", <<"u32_le", "u32_le">>, "word", "crc32"))
  BY SwindleAnswers, AllHeeded, TruthfulStub, Zenon
<1>2. Truthful("remote_swindle_get_fq", Stub("Z", "G", <<>>, "word", "get_fq"))
  BY SwindleAnswers, AllHeeded, TruthfulStub, Zenon
<1>3. Truthful("remote_swindle_set_fq", Stub("Z", "S", <<"u32_le">>, "ok", "set_fq"))
  BY SwindleAnswers, AllHeeded, TruthfulStub, Zenon
<1> QED BY <1>1, <1>2, <1>3 DEF AllTruthful, HostSwindle, Garbling

LEMMA HostByHandTruths == AllTruthful(HostByHand)
<1>1. Truthful("bmp_get_frequency_c", Stub("Z", "G", <<>>, "u32", "get_fq"))
  BY SwindleAnswers, AllHeeded, TruthfulStub, Zenon
<1>2. Truthful("remote_ch32_riscv_dmi_reset_rs", Stub("B", "S", <<>>, "ok8", "rv_reset"))
  BY RvAnswers, AllHeeded, TruthfulStub, Zenon
<1>3. Truthful("remote_ch32_riscv_dmi_read_rs", Stub("B", "r", <<"u8_hex">>, "word", "rv_read"))
  BY RvAnswers, AllHeeded, TruthfulStub, Zenon
<1>4. Truthful("remote_ch32_riscv_dmi_write_rs", Stub("B", "w", <<"u8_hex", "u32_le">>, "ok8", "rv_write"))
  BY RvAnswers, AllHeeded, TruthfulStub, Zenon
<1>5. Truthful("remote_crc32", Stub("Z", "C", <<"u32_le", "u32_le">>, "word", "crc32"))
  BY SwindleAnswers, AllHeeded, TruthfulStub, Zenon
<1>6. Truthful("bmp_gpio_reset_c", Stub("G", "R", <<>>, "ignored", "gpio_reset"))
  BY GenAnswers, AllHeeded, TruthfulStub, Zenon
<1> QED BY <1>1, <1>2, <1>3, <1>4, <1>5, <1>6 DEF AllTruthful, HostByHand, Garbling

LEMMA HostSwdTruths == AllTruthful(HostSwd)
<1>1. Truthful("remote_adiv5_swd_write_no_check_rs", Stub("L", "W", <<"u16_le", "u32_le">>, "ok8", "swd_write"))
  BY LnadivAnswers, AllHeeded, TruthfulStub, Zenon
<1>2. Truthful("remote_raw_swd_write_rs", Stub("L", "A", <<"u32_le", "u32_le">>, "ignored", "raw_swd_write"))
  BY LnadivAnswers, AllHeeded, TruthfulStub, Zenon
<1>3. Truthful("remote_adiv5_swd_read_no_check_rs", Stub("L", "R", <<"u16_le">>, "u32", "swd_read"))
  BY LnadivAnswers, AllHeeded, TruthfulStub, Zenon
<1>4. Truthful("remote_adiv5_swd_raw_access_rs", Stub("L", "B", <<"u8_hex", "u16_le", "u32_le">>, "access_rs", "swd_raw_access"))
  BY LnadivAnswers, AllHeeded, TruthfulStub, Zenon
<1> QED BY <1>1, <1>2, <1>3, <1>4 DEF AllTruthful, HostSwd, Garbling

(* Those of the pins name no command.                                      *)
LEMMA HostPinsTruths == AllTruthful(HostPins)
<1>1. \A call \in DOMAIN HostPins : HostPins[call].means = "pin" /\ HostPins[call].reads = "status"
  BY DEF HostPins, Stub
<1>2. "status" \in Trusted
  BY DEF Trusted, Failing
<1> QED BY <1>1, <1>2 DEF AllTruthful, Truthful

(* Every stub but those that garble hears what its command answers.        *)
LEMMA StubsTruthful ==
  ASSUME NEW call \in DOMAIN Stubs, call \notin Garbling
  PROVE  Truthful(call, Stubs[call])
<1>1. \A table \in StubTables : AllTruthful(table)
  BY HostGenTruths, HostSwdpTruths, HostHlTruths, HostSdiTruths,
     HostRvTruths, HostLnadivTruths, HostAdiv5Truths, HostSwindleTruths,
     HostByHandTruths, HostSwdTruths, HostPinsTruths, Zenon DEF StubTables
<1>2. PICK table \in StubTables : call \in DOMAIN table
  BY DEF Stubs
<1> DEFINE t == CHOOSE t \in StubTables : call \in DOMAIN t
<1>3. t \in StubTables /\ call \in DOMAIN t
  BY <1>2, Zenon
<1>4. Stubs[call] = t[call]
  BY <1>2, Zenon DEF Stubs
<1> HIDE DEF t
<1> QED BY <1>1, <1>3, <1>4, Zenon DEF AllTruthful

-----------------------------------------------------------------------------
(* What is read between '&' and '#'.                                       *)

\* The reading that makes no fault of an error
Unheard(reads, o) == reads = "access_v3" /\ o.fault # 0

(* Whatever the command of a stub answers, the stub hears it.              *)
LEMMA OutcomeHeard ==
  ASSUME NEW call \in DOMAIN Stubs, call \notin Garbling, Stubs[call].means # "pin",
         NEW c, c = Classes[Stubs[call].class][Stubs[call].cmd], c.does = Stubs[call].means,
         Sound(c), NEW chars \in Seq(Octet), NEW args, args = Arguments(c.takes, chars),
         NEW o \in Outcomes(c, args)
  PROVE  /\ Stubs[call].means # "nothing"
         /\ Heeds(Stubs[call].reads, c.replies, o) \/ Unheard(Stubs[call].reads, o)
<1>1. PICK e : e = Stubs[call]
  OBVIOUS
<1>2. Truthful(call, e)
  BY <1>1, StubsTruthful, Zenon
<1>3. e.means # "pin" /\ c = Classes[e.class][e.cmd] /\ c.does = e.means
  BY <1>1
<1>4. PICK answers, replies :
        /\ HasAnswers(e.class, e.cmd, answers, replies)
        /\ \A q \in answers : Heeds(e.reads, replies, q) \/ (e.reads = "access_v3" /\ q.fault # 0)
        /\ e.means \in {"mem_read", "mem_write"} => Heeds(e.reads, replies, Failed(255))
        /\ e.means = "mem_read" => e.reads = "block" /\ replies = "block"
  BY <1>2, <1>3, Zenon DEF Truthful
<1>5. c.answers = answers /\ c.replies = replies
  BY <1>3, <1>4, Zenon DEF HasAnswers
<1>6. CASE Refused(c.does, args)
  <2>1. o = Failed(255)
    BY <1>6 DEF Outcomes
  <2>2. c.does \in {"mem_read", "mem_write"}
    <3> SUFFICES ASSUME c.does \notin {"mem_read", "mem_write"} PROVE FALSE
      OBVIOUS
    <3>1. Length(c.does, args) = 0
      BY DEF Length
    <3> QED BY <1>6, <3>1, RpcAssumption DEF Refused
  <2> QED BY <1>1, <1>2, <1>3, <1>4, <1>5, <2>1, <2>2, Zenon DEF Truthful
<1>7. CASE ~Refused(c.does, args)
  <2>1. o \in c.answers \/ (c.does = "mem_read" /\ o \in BlockOf(args[5]))
    BY <1>7 DEF Outcomes
  <2>2. CASE o \in c.answers
    BY <1>1, <1>2, <1>4, <1>5, <2>2, Zenon DEF Truthful, Unheard
  <2>3. CASE c.does = "mem_read" /\ o \in BlockOf(args[5])
    <3>1. c.takes = BlockTakes
      BY <2>3, Zenon DEF Sound
    <3>2. PICK n \in Nat : n = args[5]
      BY <3>1, LengthRead, Zenon
    <3>3. Pattern(n) \in Seq(Octet)
      <4>1. \A i \in 1..n : (37 * i) % 256 \in Octet
        BY DEF Octet
      <4>2. Pattern(n) \in [1..n -> Octet]
        BY <4>1, Zenon DEF Pattern
      <4> QED BY <4>2
    <3>4. o = Done(Pattern(n))
      BY <2>3, <3>2 DEF BlockOf
    <3>5. Heeds("block", "block", o)
      BY <3>3, <3>4, BlockHeeded, Zenon
    <3> QED BY <1>1, <1>2, <1>3, <1>4, <1>5, <2>3, <3>5, Zenon DEF Truthful
  <2> QED BY <2>1, <2>2, <2>3
<1> QED BY <1>6, <1>7

(* What is made of an outcome counts, and no more.                         *)
LEMMA SaysOf ==
  ASSUME NEW reply, NEW reads, NEW o, NEW m, m.fault = o.fault, m.values = o.values,
         Says(reply, reads, o)
  PROVE  Says(reply, reads, m)
<1>1. \A told : Honest(told, o) => Honest(told, m)
  BY Zenon DEF Honest
<1> QED BY <1>1, Zenon DEF Says

(* What is between '&' and '#' is read.                                    *)
LEMMA ReplyRead ==
  ASSUME NEW pre \in Seq(Nat), NoReply(pre), NEW code \in {RPC_RESP_OK, RPC_RESP_ERR},
         NEW chars \in Seq(Text), NEW s, s = pre \o rpc_reply_encoder(code, chars),
         NEW start, IsFirst(s, RPC_REMOTE_RESP, 1, start)
  PROVE  /\ \A last : IsFirst(s, RPC_END, start + 1, last)
                        => SubSeq(s, start + 1, last - 1) = <<code>> \o chars
         /\ start + RPC_BUFFER_SIZE <= Len(s)
              /\ (\A i \in (start + 1)..(start + RPC_BUFFER_SIZE) : s[i] # RPC_END)
              => Len(chars) + 2 > RPC_BUFFER_SIZE
<1>1. PICK n \in Nat, k \in Nat : n = Len(pre) /\ k = Len(chars)
  OBVIOUS
<1>2. PICK p : p = <<code>> \o chars
  OBVIOUS
<1>3. code \in Nat /\ code # 35 /\ \A c \in Text : c # 35
  BY DEF RPC_RESP_OK, RPC_RESP_ERR, Text
<1>4. /\ p \in Seq(Nat) /\ Len(p) = k + 1 /\ p[1] = code
      /\ \A j \in 1..k : p[1 + j] = chars[j]
  <2>1. /\ <<code>> \o chars \in Seq(Nat) /\ Len(<<code>> \o chars) = Len(chars) + 1
        /\ (<<code>> \o chars)[1] = code
        /\ \A j \in 1..Len(chars) : (<<code>> \o chars)[1 + j] = chars[j]
    BY <1>3, LetterAhead
  <2> QED BY <1>1, <1>2, <2>1, Zenon
<1>5. \A j \in 1..(k + 1) : p[j] # 35
  <2> TAKE j \in 1..(k + 1)
  <2>1. CASE j = 1
    BY <1>3, <1>4, <2>1
  <2>2. CASE j # 1
    <3>1. PICK i \in 1..k : j = 1 + i
      BY <2>2
    <3>2. chars[i] \in Text
      BY <1>1
    <3> QED BY <1>3, <1>4, <3>1, <3>2, Zenon
  <2> QED BY <2>1, <2>2
<1>6. PICK r : r = rpc_reply_encoder(code, chars)
  OBVIOUS
<1>7. /\ r \in Seq(Nat) /\ Len(r) = k + 3 /\ r[1] = 38 /\ r[k + 3] = 35
      /\ \A j \in 1..(k + 1) : r[1 + j] = p[j]
  <2>1. r = (<<38, code>> \o chars) \o <<35>>
    BY <1>6 DEF rpc_reply_encoder, RPC_REMOTE_RESP, RPC_END
  <2>2. chars \in Seq(Nat)
    <3>1. Text \subseteq Nat
      BY DEF Text
    <3> QED BY <3>1, SeqWider, Zenon
  <2>3. PICK q \in Seq(Nat) : /\ q = <<38, code>> \o chars /\ Len(q) = k + 2 /\ q[1] = 38
                              /\ q[2] = code /\ \A j \in 1..k : q[2 + j] = chars[j]
    <3>1. PICK q : q = <<38, code>> \o chars
      OBVIOUS
    <3>2. /\ q \in Seq(Nat) /\ Len(q) = k + 2 /\ q[1] = 38 /\ q[2] = code
          /\ \A j \in 1..k : q[2 + j] = chars[j]
      BY <1>1, <1>3, <2>2, <3>1
    <3> QED BY <3>1, <3>2, Zenon
  <2>4. r = q \o <<35>>
    BY <2>1, <2>3
  <2>5. /\ r \in Seq(Nat) /\ Len(r) = k + 3 /\ r[k + 3] = 35
        /\ \A j \in 1..(k + 2) : r[j] = q[j]
    BY <2>3, <2>4
  <2>6. ASSUME NEW j \in 1..(k + 1) PROVE r[1 + j] = p[j]
    <3>1. CASE j = 1
      BY <1>4, <2>3, <2>5, <3>1
    <3>2. CASE j # 1
      <4>1. PICK i \in 1..k : j = 1 + i
        BY <3>2
      <4>2. 1 + j = 2 + i /\ 2 + i \in 1..(k + 2)
        BY <4>1
      <4>3. r[2 + i] = q[2 + i] /\ q[2 + i] = chars[i] /\ p[1 + i] = chars[i]
        BY <1>4, <2>3, <2>5, <4>2, Zenon
      <4> QED BY <4>1, <4>2, <4>3, Zenon
    <3> QED BY <3>1, <3>2
  <2>7. r[1] = 38
    BY <2>3, <2>5
  <2> QED BY <2>5, <2>6, <2>7, Zenon
<1>8. /\ s \in Seq(Nat) /\ Len(s) = n + (k + 3)
      /\ \A j \in 1..n : s[j] = pre[j]
      /\ \A j \in 1..(k + 3) : s[n + j] = r[j]
  <2>1. Len(r) = k + 3 /\ s = pre \o r
    BY <1>6, <1>7
  <2>2. s \in Seq(Nat) /\ IsJoined(s, pre, n, r, k + 3)
    BY <1>1, <1>7, <2>1, JoinedAt, Zenon
  <2> QED BY <2>2, Zenon DEF IsJoined
<1>9. start = n + 1
  <2>1. /\ start \in 1..Len(s) /\ s[start] = 38 /\ \A j \in 1..(start - 1) : s[j] # 38
    BY Zenon DEF IsFirst, RPC_REMOTE_RESP
  <2>2. s[n + 1] = 38
    <3>1. 1 \in 1..(k + 3)
      OBVIOUS
    <3> QED BY <1>7, <1>8, <3>1, Zenon
  <2>3. \A j \in 1..n : s[j] # 38
    BY <1>1, <1>8, Zenon DEF NoReply, RPC_REMOTE_RESP
  <2>4. ~(start \in 1..n)
    BY <2>1, <2>3, Zenon
  <2>5. ~(n + 1 \in 1..(start - 1))
    BY <2>1, <2>2, Zenon
  <2> QED BY <1>8, <2>1, <2>4, <2>5
<1>10. \A j \in 1..(k + 1) : s[(n + 1) + j] = p[j]
  <2> TAKE j \in 1..(k + 1)
  <2>1. 1 + j \in 1..(k + 3) /\ n + (1 + j) = (n + 1) + j
    OBVIOUS
  <2>2. s[n + (1 + j)] = r[1 + j] /\ r[1 + j] = p[j]
    BY <1>7, <1>8, <2>1, Zenon
  <2> QED BY <2>1, <2>2, Zenon
<1>11. s[n + (k + 3)] = 35
  <2>1. k + 3 \in 1..(k + 3)
    OBVIOUS
  <2> QED BY <1>7, <1>8, <2>1, Zenon
<1>12. ASSUME NEW last, IsFirst(s, RPC_END, start + 1, last)
       PROVE  SubSeq(s, start + 1, last - 1) = p
  <2>1. /\ last \in (start + 1)..Len(s) /\ s[last] = 35
        /\ \A j \in (start + 1)..(last - 1) : s[j] # 35
    BY <1>12, Zenon DEF IsFirst, RPC_END
  <2>2. last \in Int /\ last >= n + 2 /\ last <= n + (k + 3)
    BY <1>8, <1>9, <2>1
  <2>3. last = n + (k + 3)
    <3>1. ~(n + (k + 3) \in (start + 1)..(last - 1))
      BY <1>11, <2>1, Zenon
    <3>2. CASE last < n + (k + 3)
      <4>1. PICK j \in 1..(k + 1) : last = (n + 1) + j
        <5>1. last - (n + 1) \in 1..(k + 1) /\ last = (n + 1) + (last - (n + 1))
          BY <2>2, <3>2
        <5> QED BY <5>1, Zenon
      <4> QED BY <1>5, <1>10, <2>1, <4>1, Zenon
    <3> QED BY <2>2, <3>2
  <2>4. /\ last - 1 = start + Len(p) /\ last - 1 <= Len(s) /\ start \in Nat /\ last - 1 \in Nat
        /\ \A j \in 1..Len(p) : s[start + j] = p[j]
    BY <1>4, <1>8, <1>9, <1>10, <2>3
  <2> QED BY <1>4, <1>8, <2>4, CutOut, Zenon
<1>13. ASSUME start + RPC_BUFFER_SIZE <= Len(s),
              \A i \in (start + 1)..(start + RPC_BUFFER_SIZE) : s[i] # RPC_END
       PROVE  k + 2 > RPC_BUFFER_SIZE
  <2>1. ~(n + (k + 3) \in (start + 1)..(start + RPC_BUFFER_SIZE))
    BY <1>11, <1>13, Zenon DEF RPC_END
  <2>2. RPC_BUFFER_SIZE \in Nat
    BY RpcAssumption
  <2> QED BY <1>9, <2>1, <2>2
<1> QED BY <1>1, <1>2, <1>12, <1>13, Zenon

-----------------------------------------------------------------------------
(* The caller is told what happened.                                       *)

\* The answer to a call on its way says what was made of the call
AnswerComing ==
  asked.by = "hosted" /\ client = "hosted" /\ Answering /\ ~Misread =>
    \/ NoReply(toHost)
    \/ /\ made # Nothing
       /\ \E pre, reply :
            /\ pre \in Seq(Nat) /\ NoReply(pre) /\ toHost = pre \o reply
            /\ Says(reply, Stubs[asked.call].reads, made)

\* What the caller has been told of it, if the probe was not lost
AnswerTold ==
  asked.by = "hosted" /\ learnt # NotYet /\ ~Misread =>
    \/ made # Nothing /\ Honest(learnt, made)
    \/ client = "none" /\ learnt.status \in {"failed", "unknown"}

AnswerInv == AnswerComing /\ AnswerTold

(* What is told is what was meant.                                         *)
LEMMA ToldMeant == AnswerTold => AnswerMeant
<1> SUFFICES ASSUME AnswerTold, asked.by = "hosted", learnt # NotYet, ~Misread
             PROVE  CASE learnt.status = "ok" ->
                           /\ made # Nothing /\ made.fault = 0
                           /\ learnt.values \in {<<>>, made.values}
                      [] learnt.status = "failed" ->
                           made.fault # 0 \/ TooLong \/ client = "none"
                      [] learnt.status = "unknown" ->
                           learnt.values \in {<<>>, made.values} \/ client = "none"
  BY Zenon DEF AnswerMeant
<1>1. \/ made # Nothing /\ Honest(learnt, made)
      \/ client = "none" /\ learnt.status \in {"failed", "unknown"}
  BY Zenon DEF AnswerTold
<1>2. \/ /\ learnt.status = "ok" /\ made # Nothing /\ made.fault = 0
         /\ learnt.values \in {<<>>, made.values}
      \/ learnt.status = "failed" /\ (made.fault # 0 \/ TooLong \/ client = "none")
      \/ learnt.status = "unknown" /\ (learnt.values \in {<<>>, made.values} \/ client = "none")
  BY <1>1, Zenon DEF Honest, TooLong
<1>3. CASE learnt.status = "ok"
  <2>1. learnt.status # "failed" /\ learnt.status # "unknown"
    BY <1>3
  <2> QED BY <1>2, <1>3, <2>1
<1>4. CASE learnt.status = "failed"
  <2>1. learnt.status # "ok" /\ learnt.status # "unknown"
    BY <1>4
  <2> QED BY <1>2, <1>4, <2>1
<1>5. CASE learnt.status = "unknown"
  <2>1. learnt.status # "ok" /\ learnt.status # "failed"
    BY <1>5
  <2> QED BY <1>2, <1>5, <2>1
<1> QED BY <1>2, <1>3, <1>4, <1>5

(* Nothing is told of a call that has not been made, or to no caller.      *)
LEMMA NothingTold ==
  ASSUME asked'.by # "hosted" \/ (learnt' = NotYet /\ executed' = <<>>)
  PROVE  AnswerInv'
BY Zenon DEF AnswerInv, AnswerComing, AnswerTold, Answering

(* Steps that leave the call and its answer alone.                         *)
LEMMA SameAnswer ==
  ASSUME AnswerInv, asked' = asked, learnt' = learnt, executed' = executed, made' = made,
         client' = client, toHost' = toHost
  PROVE  AnswerInv'
BY Zenon DEF AnswerInv, AnswerComing, AnswerTold, Answering, Misread

\* When the stubs take one answer for another
LEMMA MisreadIs ==
  /\ Misread <=> \/ asked.call \in Garbling
                 \/ asked.call = "remote_adiv5_raw_access_v3" /\ (made.fault # 0 \/ client = "none")
                 \/ asked.call = "remote_lnadiv_lowlevel" /\ client = "none"
  /\ Misread' <=> \/ asked'.call \in Garbling
                  \/ asked'.call = "remote_adiv5_raw_access_v3"
                       /\ (made'.fault # 0 \/ client' = "none")
                  \/ asked'.call = "remote_lnadiv_lowlevel" /\ client' = "none"
BY Zenon DEF Misread, Garbling

(* What is read when the probe is lost.                                    *)
LEMMA LostRead ==
  ASSUME NEW call \in DOMAIN Stubs, call \notin Garbling, call # "remote_adiv5_raw_access_v3",
         call # "remote_lnadiv_lowlevel"
  PROVE  ReadReply(Stubs[call].reads, <<>>).status \in {"failed", "unknown"}
<1>1. PICK e : e = Stubs[call]
  OBVIOUS
<1>2. Truthful(call, e)
  BY <1>1, StubsTruthful, Zenon
<1>3. e.reads \in Failing \cup {"u32", "u8", "ignored"}
  BY <1>2 DEF Truthful, Trusted
<1>4. ReadReply(e.reads, <<>>).status \in {"failed", "unknown"}
  <2>1. CASE e.reads \in Failing
    BY <2>1, EmptyRead, Zenon
  <2>2. CASE e.reads \in {"u32", "u8", "ignored"}
    BY <2>2, EmptyRead, Zenon
  <2> QED BY <1>3, <2>1, <2>2
<1> QED BY <1>1, <1>4, Zenon

(* The client goes.                                                        *)
LEMMA CloseTells ==
  ASSUME HostedInv, AnswerInv, Close
  PROVE  AnswerInv'
<1>1. /\ client' = "none" /\ asked' = asked /\ executed' = executed /\ made' = made
      /\ learnt' = IF ~Waiting THEN learnt
                   ELSE IF asked.by = "gdb" THEN Told("gone", <<>>)
                   ELSE ReadReply(Stubs[asked.call].reads, <<>>)
  BY Zenon DEF Close, stub
<1>2. AnswerComing'
  <2>1. client' # "hosted"
    BY <1>1
  <2> QED BY <2>1, Zenon DEF AnswerComing
<1>3. AnswerTold'
  <2> SUFFICES ASSUME asked'.by = "hosted", learnt' # NotYet, ~Misread'
               PROVE  \/ made' # Nothing /\ Honest(learnt', made')
                      \/ client' = "none" /\ learnt'.status \in {"failed", "unknown"}
    BY Zenon DEF AnswerTold
  <2>1. asked.by = "hosted" /\ asked.call \in DOMAIN Stubs
    BY <1>1, Zenon DEF HostedInv, Meant
  <2>2. /\ asked.call \notin Garbling /\ asked.call # "remote_adiv5_raw_access_v3"
        /\ asked.call # "remote_lnadiv_lowlevel"
    BY <1>1, MisreadIs, Zenon
  <2>3. CASE Waiting
    <3>1. asked.by # "gdb"
      BY <2>1
    <3>2. learnt' = ReadReply(Stubs[asked.call].reads, <<>>)
      BY <1>1, <2>3, <3>1, Zenon
    <3>3. learnt'.status \in {"failed", "unknown"}
      BY <2>1, <2>2, <3>2, LostRead, Zenon
    <3> QED BY <1>1, <3>3, Zenon
  <2>4. CASE ~Waiting
    <3>1. learnt' = learnt /\ ~Misread
      BY <1>1, <2>2, <2>4, MisreadIs, Zenon
    <3> QED BY <1>1, <2>1, <3>1, Zenon DEF AnswerInv, AnswerTold
  <2> QED BY <2>3, <2>4
<1> QED BY <1>2, <1>3, Zenon DEF AnswerInv

(* The caller reads the answer.                                            *)
LEMMA ReadTells ==
  ASSUME LinkInv, HostedInv, AnswerInv, asked.by = "hosted", HostReads
  PROVE  AnswerInv'
<1>1. /\ client = "hosted" /\ Waiting /\ client' = client /\ asked' = asked
      /\ executed' = executed /\ made' = made
  BY Zenon DEF HostReads, stub
<1>2. PICK start \in 1..Len(toHost) :
        /\ IsFirst(toHost, RPC_REMOTE_RESP, 1, start)
        /\ \/ \E last \in 1..Len(toHost) :
                /\ IsFirst(toHost, RPC_END, start + 1, last)
                /\ learnt' = ReadReply(Stubs[asked.call].reads,
                                       SubSeq(toHost, start + 1, last - 1))
           \/ /\ start + RPC_BUFFER_SIZE <= Len(toHost)
              /\ \A i \in (start + 1)..(start + RPC_BUFFER_SIZE) : toHost[i] # RPC_END
              /\ learnt' = ReadReply(Stubs[asked.call].reads, <<>>)
  BY Zenon DEF HostReads
<1>3. Answering /\ ~NoReply(toHost)
  BY <1>1, <1>2, Zenon DEF LinkInv, Answers, NoReply, IsFirst
<1>4. ASSUME ~Misread PROVE made # Nothing /\ Honest(learnt', made)
  <2>1. PICK pre, reply :
          /\ pre \in Seq(Nat) /\ made # Nothing /\ NoReply(pre) /\ toHost = pre \o reply
          /\ Says(reply, Stubs[asked.call].reads, made)
    BY <1>1, <1>3, <1>4, Zenon DEF AnswerInv, AnswerComing
  <2>2. PICK code \in {RPC_RESP_OK, RPC_RESP_ERR}, chars \in Seq(Text) :
          /\ reply = rpc_reply_encoder(code, chars)
          /\ Honest(ReadReply(Stubs[asked.call].reads, <<code>> \o chars), made)
          /\ Len(chars) + 2 > RPC_BUFFER_SIZE
               => Honest(ReadReply(Stubs[asked.call].reads, <<>>), made)
    BY <2>1, Zenon DEF Says
  <2>3. toHost = pre \o rpc_reply_encoder(code, chars)
    BY <2>1, <2>2
  <2>4. /\ \A last : IsFirst(toHost, RPC_END, start + 1, last)
                       => SubSeq(toHost, start + 1, last - 1) = <<code>> \o chars
        /\ start + RPC_BUFFER_SIZE <= Len(toHost)
             /\ (\A i \in (start + 1)..(start + RPC_BUFFER_SIZE) : toHost[i] # RPC_END)
             => Len(chars) + 2 > RPC_BUFFER_SIZE
    BY <1>2, <2>1, <2>3, ReplyRead, Zenon
  <2>5. Honest(learnt', made)
    BY <1>2, <2>2, <2>4, Zenon
  <2> QED BY <2>1, <2>5, Zenon
<1>5. Misread' = Misread
  BY <1>1, Zenon DEF Misread
<1>6. AnswerTold'
  BY <1>1, <1>4, <1>5, Zenon DEF AnswerTold
<1>7. AnswerComing'
  <2>1. CASE Misread'
    BY <2>1, Zenon DEF AnswerComing
  <2>2. CASE ~Misread'
    <3>1. learnt'.status \in {"ok", "failed", "unknown"}
      BY <1>4, <1>5, <2>2, Zenon DEF Honest
    <3>2. learnt' # NotYet
      <4>1. NotYet.status \notin {"ok", "failed", "unknown"}
        BY DEF NotYet, Told
      <4> QED BY <3>1, <4>1, Zenon
    <3> QED BY <3>2, Zenon DEF AnswerComing, Answering
  <2> QED BY <2>1, <2>2
<1> QED BY <1>6, <1>7, Zenon DEF AnswerInv

(* The call is run, and answered.                                          *)
LEMMA CallTells ==
  ASSUME HostedInv, asked.by = "hosted", asked.call \notin Garbling,
         AskedBytes \in Seq(Octet), NEW fed, ParseCall(fed, AskedBytes)
  PROVE  /\ made' # Nothing
         /\ \E reply : /\ toHost' = Output(reply)
                       /\ \/ Says(reply, Stubs[asked.call].reads, made')
                          \/ Unheard(Stubs[asked.call].reads, made')
<1>1. PICK call, args : /\ call \in DOMAIN Stubs /\ args \in ArgumentLists(Stubs[call].sends)
                        /\ call = asked.call /\ args = asked.args
  BY Zenon DEF HostedInv, Meant
<1>2. PICK body \in Seq(Octet) : body = AskedBytes /\ body = Body(Stubs[call], args)
  <2>1. asked.by # "gdb"
    OBVIOUS
  <2>2. AskedBytes = Body(Stubs[call], args)
    BY <1>1, <2>1, Zenon DEF AskedBytes
  <2> QED BY <2>2
<1>3. IsCommand(body) /\ Sound(CommandOf(body))
  <2>1. IsCommand(body)
    BY <1>2, Zenon DEF ParseCall
  <2> QED BY <2>1, CommandFound, Zenon
<1>4. IF Stubs[call].means = "pin" THEN ~IsCommand(body)
      ELSE /\ IsCommand(body)
           /\ CommandOf(body) = Classes[Stubs[call].class][Stubs[call].cmd]
           /\ CommandOf(body).does = Stubs[call].means
           /\ Arguments(CommandOf(body).takes, SubSeq(body, 3, Len(body))) = args
  BY <1>1, <1>2, CallRead, Zenon
<1>5. PICK c : /\ c = CommandOf(body) /\ Stubs[call].means # "pin" /\ Sound(c)
               /\ c = Classes[Stubs[call].class][Stubs[call].cmd] /\ c.does = Stubs[call].means
  BY <1>3, <1>4, Zenon
<1>6. PICK chars \in Seq(Octet) : chars = SubSeq(body, 3, Len(body))
  <2>1. PICK m \in Nat : m = Len(body) /\ m <= Len(body)
    OBVIOUS
  <2>2. 2 \in Nat /\ 2 + 1 = 3
    OBVIOUS
  <2>3. SubSeq(body, 2 + 1, m) \in Seq(Octet)
    BY <2>1, <2>2, CutAt, Zenon
  <2> QED BY <2>1, <2>2, <2>3
<1>7. PICK command \in {CommandOf(body)} :
        \E as \in {Arguments(command.takes, SubSeq(body, 3, Len(body)))} :
          \E o \in Outcomes(command, as) :
            /\ made' = [does |-> command.does, args |-> as,
                        fault |-> o.fault, values |-> o.values]
            /\ toHost' = Output(Replied(command.replies, o))
  BY <1>2, Zenon DEF ParseCall
<1>8. PICK as \in {Arguments(c.takes, chars)} :
        \E o \in Outcomes(c, as) :
          /\ made' = [does |-> c.does, args |-> as, fault |-> o.fault, values |-> o.values]
          /\ toHost' = Output(Replied(c.replies, o))
  <2>1. command = c
    BY <1>5, <1>7
  <2> QED BY <1>6, <1>7, <2>1, Zenon
<1>9. PICK o \in Outcomes(c, as) :
        /\ made' = [does |-> c.does, args |-> as, fault |-> o.fault, values |-> o.values]
        /\ toHost' = Output(Replied(c.replies, o))
  BY <1>8, Zenon
<1>10. made'.does = c.does /\ made'.fault = o.fault /\ made'.values = o.values
  BY <1>9
<1>11. /\ Stubs[call].means # "nothing"
       /\ Heeds(Stubs[call].reads, c.replies, o) \/ Unheard(Stubs[call].reads, o)
  <2>1. as = Arguments(c.takes, chars)
    OBVIOUS
  <2>2. call \notin Garbling
    BY <1>1
  <2> QED BY <1>1, <1>5, <2>1, <2>2, OutcomeHeard, Zenon
<1>12. made' # Nothing
  <2>1. Nothing.does = "nothing"
    BY DEF Nothing
  <2> QED BY <1>5, <1>10, <1>11, <2>1, Zenon
<1>13. \/ Says(Replied(c.replies, o), Stubs[call].reads, made')
       \/ Unheard(Stubs[call].reads, made')
  BY <1>10, <1>11, SaysOf, Zenon DEF Heeds, Unheard
<1> QED BY <1>1, <1>9, <1>12, <1>13, Zenon

(* The call is parsed to its end.                                          *)
LEMMA EndTells ==
  ASSUME LinkInv, HostedInv, AnswerInv, asked.by = "hosted", Going, NEW fed,
         fed.automaton = "RpcDone", fed.buffer = AskedBytes,
         \/ ParseMore(fed) \/ ParsePacket(fed, fed.buffer) \/ ParseCall(fed, fed.buffer)
         \/ ParseUnknown(fed, fed.buffer) \/ ParseError(fed)
  PROVE  AnswerInv'
<1>1. "RpcDone" \in EndStates /\ "RpcDone" # "Done" /\ "RpcDone" # "Error"
  BY DEF EndStates
<1>2. ParseCall(fed, AskedBytes) \/ ParseUnknown(fed, AskedBytes)
  BY <1>1, Zenon DEF ParseMore, ParsePacket, ParseError
<1>3. client' = client /\ asked' = asked /\ learnt' = learnt
  BY <1>2, Zenon DEF ParseCall, ParseUnknown, Takes
<1>4. /\ executed = <<>> /\ made = Nothing /\ client \in {"none", "hosted"}
      /\ client # "none" => learnt = NotYet
      /\ AskedBytes \in Seq(Octet) /\ asked.call \in DOMAIN Stubs
  BY Zenon DEF HostedInv, Meant, Going, IsAsked
<1>5. AnswerTold'
  <2> SUFFICES ASSUME learnt' # NotYet, ~Misread'
               PROVE  client' = "none" /\ learnt'.status \in {"failed", "unknown"}
    BY Zenon DEF AnswerTold
  <2>1. client = "none" /\ learnt # NotYet
    BY <1>3, <1>4, Zenon
  <2>2. ~Misread
    BY <1>3, <2>1, MisreadIs, Zenon
  <2> QED BY <1>3, <1>4, <2>1, <2>2, Zenon DEF AnswerInv, AnswerTold
<1>6. AnswerComing'
  <2> SUFFICES ASSUME client' = "hosted", ~Misread'
               PROVE  \/ NoReply(toHost)'
                      \/ /\ made' # Nothing
                         /\ \E pre, reply :
                              /\ pre \in Seq(Nat) /\ NoReply(pre) /\ toHost' = pre \o reply
                              /\ Says(reply, Stubs[asked'.call].reads, made')
    BY Zenon DEF AnswerComing
  <2>1. client = "hosted" /\ toHost \in Seq(Nat) /\ NoReply(toHost)
    BY <1>3, <1>4, Zenon DEF LinkInv, Answers, Answering
  <2>2. CASE ParseUnknown(fed, AskedBytes)
    <3>1. toHost' = toHost
      BY <2>2, Zenon DEF ParseUnknown
    <3> QED BY <2>1, <3>1, Zenon DEF NoReply
  <2>3. CASE ParseCall(fed, AskedBytes)
    <3>1. asked.call \notin Garbling
      BY <1>3, MisreadIs, Zenon
    <3>2. PICK reply : /\ toHost' = Output(reply)
                       /\ \/ Says(reply, Stubs[asked.call].reads, made')
                          \/ Unheard(Stubs[asked.call].reads, made')
      BY <1>4, <2>3, <3>1, CallTells, Zenon
    <3>3. made' # Nothing
      BY <1>4, <2>3, <3>1, CallTells, Zenon
    <3>4. ~Unheard(Stubs[asked.call].reads, made')
      <4> SUFFICES ASSUME Stubs[asked.call].reads = "access_v3", made'.fault # 0 PROVE FALSE
        BY Zenon DEF Unheard
      <4>1. PICK e : e = Stubs[asked.call] /\ Truthful(asked.call, e)
        BY <1>4, <3>1, StubsTruthful, Zenon
      <4>2. asked.call = "remote_adiv5_raw_access_v3"
        BY <4>1, Zenon DEF Truthful
      <4> QED BY <1>3, <4>2, MisreadIs, Zenon
    <3>5. toHost' = toHost \o reply
      <4>1. client # "none"
        BY <2>1
      <4> QED BY <3>2, <4>1, Zenon DEF Output
    <3> QED BY <1>3, <2>1, <3>2, <3>3, <3>4, <3>5, Zenon
  <2> QED BY <1>2, <2>2, <2>3
<1> QED BY <1>5, <1>6, Zenon DEF AnswerInv

(* The parser runs the call, or leaves it alone.                           *)
LEMMA ParseTells ==
  ASSUME LinkInv, HostedInv, AnswerInv, asked.by = "hosted", Parse
  PROVE  AnswerInv'
<1>1. PICK fed : /\ fed = Feed(decoder, chunk[1])
                 /\ \/ ParseMore(fed) \/ ParsePacket(fed, fed.buffer)
                    \/ ParseCall(fed, fed.buffer) \/ ParseUnknown(fed, fed.buffer)
                    \/ ParseError(fed)
  BY Zenon DEF Parse
<1>2. OnLine /\ chunk # <<>> /\ chunk \in Seq(Octet) /\ toProbe \in Seq(Octet)
  BY Zenon DEF LinkInv, OnLine, Parse
<1>3. Unparsed \in Seq(Octet) /\ Unparsed # <<>> /\ Unparsed[1] = chunk[1]
  BY <1>2, ParseKeeps, Zenon DEF Unparsed
<1>4. fed = Feed(decoder, Unparsed[1])
  BY <1>1, <1>3, Zenon
<1>5. ASSUME fed.automaton \notin EndStates PROVE AnswerInv'
  <2>1. ParseTurn(fed)
    BY <1>1, <1>5, TurnOnly, Zenon
  <2> QED BY <2>1, SameAnswer, Zenon DEF ParseTurn
<1>6. ~Unasked
  BY NobodyIs DEF Unasked
<1>7. CASE Over
  <2>1. fed = IdleDecoder /\ fed.automaton \notin EndStates
    BY <1>3, <1>4, <1>7, StillTurn, Zenon DEF Over
  <2> QED BY <1>5, <2>1
<1>8. CASE Going
  <2>1. Ahead(Unparsed, decoder, How, AskedBytes, client)
    BY <1>8, Zenon DEF Going
  <2>2. Turned(fed, Tail(Unparsed), How, AskedBytes, client)
    BY <1>3, <1>4, <2>1, AheadTurn, Zenon
  <2>3. fed.automaton \notin EndStates \/ (fed.automaton = "RpcDone" /\ fed.buffer = AskedBytes)
    <3>1. How = "RpcDone"
      BY DEF How
    <3> QED BY <2>2, <3>1, Zenon DEF Turned
  <2> QED BY <1>1, <1>5, <1>8, <2>3, EndTells, Zenon
<1> QED BY <1>2, <1>6, <1>7, <1>8, Zenon DEF OnLine

(* Every step keeps it.                                                    *)
LEMMA AnswerStep ==
  (~overran => LinkInv) /\ HostedInv /\ AnswerInv /\ [RemoteNext]_remoteVars => AnswerInv'
<1> SUFFICES ASSUME ~overran => LinkInv, HostedInv, AnswerInv, [RemoteNext]_remoteVars
             PROVE  AnswerInv'
  OBVIOUS
<1>1. CASE (\E c \in {"gdb", "hosted"} : Open(c)) \/ (\E p \in Payloads \cup Overlong : GdbAsks(p))
           \/ (\E call \in DOMAIN Stubs :
                 \E args \in ArgumentLists(Stubs[call].sends) : HostCalls(call, args))
  <2>1. learnt' = NotYet /\ executed' = <<>>
    BY <1>1, Zenon DEF Open, GdbAsks, HostCalls, Asks
  <2> QED BY <2>1, NothingTold, Zenon
<1>2. CASE TaskEnd \/ Receive \/ UNCHANGED remoteVars
  <2>1. /\ asked' = asked /\ learnt' = learnt /\ executed' = executed /\ made' = made
        /\ client' = client /\ toHost' = toHost
    BY <1>2, Zenon DEF TaskEnd, Receive, stub, link, remoteVars
  <2> QED BY <2>1, SameAnswer, Zenon
<1>3. CASE Close
  BY <1>3, CloseTells, Zenon
<1>4. CASE GdbReads \/ GdbNacked \/ HostReads \/ Parse
  <2>1. asked' = asked
    BY <1>4, Zenon DEF GdbReads, GdbNacked, HostReads, Parse, ParseMore, ParsePacket, ParseCall,
                       ParseUnknown, ParseError, Takes
  <2>2. CASE asked.by # "hosted"
    BY <2>1, <2>2, NothingTold, Zenon
  <2>3. CASE asked.by = "hosted"
    <3>1. LinkInv
      BY <2>3, Zenon DEF HostedInv
    <3>2. ~GdbReads /\ ~GdbNacked
      <4>1. client \in {"none", "hosted"}
        <5>1. ~Unasked
          BY <2>3, NobodyIs DEF Unasked
        <5> QED BY <2>3, <3>1, <5>1, Zenon DEF LinkInv, OnLine, Going, Over, IsAsked
      <4>2. client # "gdb"
        BY <4>1
      <4> QED BY <4>2, Zenon DEF GdbReads, GdbNacked
    <3> QED BY <1>4, <2>3, <3>1, <3>2, ReadTells, ParseTells, Zenon
  <2> QED BY <2>2, <2>3
<1> QED BY <1>1, <1>2, <1>3, <1>4, Zenon DEF RemoteNext

(* What a stub tells its caller is what happened: success only when the    *)
(* operation ran without a fault, and then with its values; failure only   *)
(* after a fault, an answer too long or a lost probe.                      *)
THEOREM ToldAsItWas == RemoteSpec => []AnswerMeant
<1>1. RemoteInit => HostedInv
  BY InitHosted
<1>2. RemoteInit => AnswerInv
  <2>1. RemoteInit => asked = Nobody
    BY Zenon DEF RemoteInit
  <2>2. asked = Nobody => AnswerInv
    BY NobodyIs DEF AnswerInv, AnswerComing, AnswerTold
  <2> QED BY <2>1, <2>2
<1>3. AnswerInv => AnswerMeant
  BY ToldMeant DEF AnswerInv
<1> QED BY <1>1, <1>2, <1>3, LinkInvariant, HostedStep, AnswerStep, PTL DEF RemoteSpec
=============================================================================
