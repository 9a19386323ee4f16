------------------------ MODULE FreeRtosThreadsProofs ------------------------
(***************************************************************************)
(* Theorems about FreeRtosThreads, for every set of tasks, every depth of  *)
(* their stacks and every bound: a task keeps its context, whatever GDB    *)
(* was shown (ContextsKept); the task that was selected is the one shown   *)
(* (SelectedIsShown); the cache is that of the kernel (CacheIsFresh).      *)
(*                                                                         *)
(* The argument: while the target runs the kernel saves and restores, and  *)
(* while it is stopped Hg does, by the handler of the port.  Either way a  *)
(* task that does not run has, on its own stack and right below the        *)
(* pointer it was left with, the frame of its port.  What has to be shown  *)
(* is that each handler writes that frame and reads it back, and that no   *)
(* stack but that of the task is written: the pointer in the core is on    *)
(* the stack of the current task even when the rest of its context is not  *)
(* right, as it may be for a task that uses the FPU.                       *)
(***************************************************************************)
EXTENDS FreeRtosThreads, SequenceTheorems, WellFoundedInduction, TLAPS

(* The handler that the port needs, and when it is the one installed: the  *)
(* wire has not failed and the layout was not guessed wrong.               *)
HandlerOf(p) == IF p = "ch32_fpu" THEN "ch32" ELSE p
PortHandler == HandlerOf(port)
Faithful == mishaps \cap {"wire", "layout"} = {}
HandlerMatches == Faithful => switcher \in {"None", PortHandler}

\* The cache, while the target is stopped, is about tasks
CachesTasks ==
  \A i \in DOMAIN cache : {"tcb", "top"} \subseteq DOMAIN cache[i] /\ cache[i].tcb \in Live

Kinds ==
  /\ port \in Ports /\ fpu \subseteq Tcb
  /\ lists \in [Lists -> Seq(Tcb)] /\ current \in Live
  /\ version \in [Tcb -> 0..1]
  /\ DOMAIN top = Tcb /\ DOMAIN addresses = FreeRTOSSymbolName
  /\ executing => dirty /\ selected = NoTask
  /\ ~dirty => CachesTasks

(* Every stack pointer is that of a task on its own stack, and the         *)
(* registers no frame holds are the same for all.                          *)
Shared == <<"shared", 0, 3>>
SharedTp == <<"shared", 0, 4>>
OwnStacks ==
  /\ DOMAIN mem = Tcb /\ \A t \in Tcb : DOMAIN mem[t] = 0..(Depth - 1)
  /\ \A t \in Tcb : top[t][2] \in Int /\ top[t] = <<t, top[t][2]>>
CoreIsOfCurrent(c, t) ==
  /\ c = [r \in PortReg(port) |-> c[r]]
  /\ c[PortSP(port)][2] \in Int /\ c[PortSP(port)] = <<t, c[PortSP(port)][2]>>
  /\ PortReg(port) = RiscvReg => c[3] = Shared /\ c[4] = SharedTp

(* The frame of a task that does not use the FPU, where its port has it. *)
Size == Len(Frame(port, FALSE))
FrameAt(m, t, n, R) ==
  \A i \in 1..Size : m[t][n + i - 1] = Entry(R, FALSE, Frame(port, FALSE)[i])
Keeps(t) ==
  IF t = current THEN core = Registers(t, version[t])
  ELSE /\ top[t][2] = Depth - version[t] - Size
       /\ FrameAt(mem, t, top[t][2], Registers(t, version[t]))

ContextInv ==
  Faithful =>
    /\ OwnStacks /\ CoreIsOfCurrent(core, current)
    /\ \A t \in Live \ fpu : Keeps(t)

(* The stack pointers of the cache are those of the kernel, no task hides, *)
(* and a cache that has been filled has them all.                          *)
TopsKnown ==
  ~dirty => \A i \in DOMAIN cache :
              cache[i].tcb # current => cache[i].top = top[cache[i].tcb]
FreshInv ==
  /\ "wire" \notin mishaps => TopsKnown
  /\ "hidden" \notin mishaps => lists[OtherReady] = <<>>
  /\ ~dirty /\ mishaps \cap {"wire", "full", "hidden", "symbols"} = {} =>
       \/ {cache[i].tcb : i \in DOMAIN cache} = Live
       \/ cache = <<>> /\ addresses["kernel"] # "known"

IInv == Kinds /\ HandlerMatches /\ ContextInv /\ FreshInv /\ SelectedIsShown

-----------------------------------------------------------------------------
(* The frames of the ports.                                                *)

\* A sequence put together from two others
IsJoin(u, s, t, m, n) ==
  /\ u \in Seq(Nat) /\ Len(u) = m + n
  /\ \A i \in 1..m : u[i] = s[i]
  /\ \A i \in (m + 1)..(m + n) : u[i] = t[i - m]

LEMMA Joined ==
  ASSUME NEW s \in Seq(Nat), NEW t \in Seq(Nat), NEW u, u = s \o t
  PROVE  IsJoin(u, s, t, Len(s), Len(t))
<1> DEFINE m == Len(s)
           n == Len(t)
<1>1. /\ u \in Seq(Nat) /\ Len(u) = m + n
      /\ \A i \in 1..m + n : u[i] = IF i <= m THEN s[i] ELSE t[i - m]
  BY ConcatProperties
<1>2. m \in Nat /\ n \in Nat
  BY LenProperties
<1> HIDE DEF m, n
<1>3. ASSUME NEW i \in 1..m PROVE u[i] = s[i]
  <2>1. i \in 1..m + n /\ i <= m
    BY <1>2
  <2> QED BY <1>1, <2>1
<1>4. ASSUME NEW i \in (m + 1)..(m + n) PROVE u[i] = t[i - m]
  <2>1. i \in 1..m + n /\ ~(i <= m)
    BY <1>2
  <2> QED BY <1>1, <2>1
<1>5. IsJoin(u, s, t, m, n)
  BY <1>1, <1>3, <1>4 DEF IsJoin
<1> QED BY <1>5 DEF m, n

LEMMA LowRegisters ==
  /\ From(4, 11) \in Seq(Nat) /\ Len(From(4, 11)) = 8
  /\ \A i \in 1..8 : From(4, 11)[i] = i + 3
BY DEF From

LEMMA HighRegisters ==
  /\ From(5, 31) \in Seq(Nat) /\ Len(From(5, 31)) = 27
  /\ \A i \in 1..27 : From(5, 31)[i] = i + 4
BY DEF From

LEMMA HardwareIs ==
  /\ Hardware \in Seq(Nat) /\ Len(Hardware) = 8
  /\ \A i \in 1..4 : Hardware[i] = i - 1
  /\ Hardware[5] = 12 /\ Hardware[6] = 14 /\ Hardware[7] = 15 /\ Hardware[8] = 16
BY DEF Hardware

LEMMA HardwareRegisters == \A i \in 1..8 : Hardware[i] \in 0..16
BY DEF Hardware

\* The marks of a frame that are not registers
LEMMA Marks ==
  /\ <<EXC>> \in Seq(Nat) /\ Len(<<EXC>>) = 1 /\ <<EXC>>[1] = EXC
  /\ <<NONE, EXC>> \in Seq(Nat) /\ Len(<<NONE, EXC>>) = 2
  /\ <<NONE, EXC>>[1] = NONE /\ <<NONE, EXC>>[2] = EXC
  /\ <<NONE, 33>> \in Seq(Nat) /\ Len(<<NONE, 33>>) = 2
  /\ <<NONE, 33>>[1] = NONE /\ <<NONE, 33>>[2] = 33
BY DEF EXC, NONE

LEMMA FrameM3 ==
  /\ Frame("m3", FALSE) \in Seq(Nat) /\ Len(Frame("m3", FALSE)) = 16
  /\ \A i \in 1..8 : Frame("m3", FALSE)[i] = i + 3
  /\ \A i \in 9..16 : Frame("m3", FALSE)[i] = Hardware[i - 8]
<1> DEFINE a == From(4, 11)
           b == Hardware
           c == a \o b
<1>1. Frame("m3", FALSE) = c
  BY DEF Frame
<1>2. a \in Seq(Nat) /\ Len(a) = 8 /\ \A i \in 1..8 : a[i] = i + 3
  BY LowRegisters
<1>3. b \in Seq(Nat) /\ Len(b) = 8
  BY HardwareIs
<1> HIDE DEF a, b
<1>4. c = a \o b
  OBVIOUS
<1> HIDE DEF c
<1>5. IsJoin(c, a, b, Len(a), Len(b))
  BY <1>2, <1>3, <1>4, Joined, Zenon
<1>6. IsJoin(c, a, b, 8, 8)
  BY <1>2, <1>3, <1>5
<1>7. c \in Seq(Nat) /\ Len(c) = 16
  BY <1>6 DEF IsJoin
<1>8. ASSUME NEW i \in 1..8 PROVE c[i] = i + 3
  BY <1>2, <1>6 DEF IsJoin
<1>9. ASSUME NEW i \in 9..16 PROVE c[i] = b[i - 8]
  BY <1>6, SMTT(60) DEF IsJoin
<1> QED BY <1>1, <1>7, <1>8, <1>9 DEF b

LEMMA FrameM33 ==
  /\ Frame("m33", FALSE) \in Seq(Nat) /\ Len(Frame("m33", FALSE)) = 18
  /\ Frame("m33", FALSE)[1] = NONE /\ Frame("m33", FALSE)[2] = EXC
  /\ \A i \in 3..10 : Frame("m33", FALSE)[i] = i + 1
  /\ \A i \in 11..18 : Frame("m33", FALSE)[i] = Hardware[i - 10]
<1> DEFINE e == <<NONE, EXC>>
           a == From(4, 11)
           b == Hardware
           c == e \o a
           d == c \o b
<1>1. Frame("m33", FALSE) = d
  BY DEF Frame
<1>2. a \in Seq(Nat) /\ Len(a) = 8 /\ \A i \in 1..8 : a[i] = i + 3
  BY LowRegisters
<1>3. b \in Seq(Nat) /\ Len(b) = 8
  BY HardwareIs
<1>4. e \in Seq(Nat) /\ Len(e) = 2 /\ e[1] = NONE /\ e[2] = EXC
  BY Marks
<1> HIDE DEF e, a, b
<1>5. c = e \o a
  OBVIOUS
<1> HIDE DEF c
<1>6. IsJoin(c, e, a, Len(e), Len(a))
  BY <1>2, <1>3, <1>4, <1>5, Joined, Zenon
<1>7. IsJoin(c, e, a, 2, 8)
  BY <1>2, <1>3, <1>4, <1>6
<1>8. c \in Seq(Nat) /\ Len(c) = 10
  BY <1>7 DEF IsJoin
<1>9. d = c \o b
  OBVIOUS
<1> HIDE DEF d
<1>10. IsJoin(d, c, b, Len(c), Len(b))
  BY <1>2, <1>3, <1>4, <1>8, <1>9, Joined, Zenon
<1>11. IsJoin(d, c, b, 10, 8)
  BY <1>2, <1>3, <1>4, <1>7, <1>8, <1>10
<1>12. d \in Seq(Nat) /\ Len(d) = 18
  BY <1>11 DEF IsJoin
<1>13. d[1] = NONE /\ d[2] = EXC
  BY <1>4, <1>7, <1>11 DEF IsJoin
<1>14. ASSUME NEW i \in 3..10 PROVE d[i] = i + 1
  <2>1. i \in 1..10 /\ i \in (2 + 1)..(2 + 8) /\ i - 2 \in 1..8 /\ (i - 2) + 3 = i + 1
    OBVIOUS
  <2>2. d[i] = c[i]
    BY <1>11, <2>1, Zenon DEF IsJoin
  <2>3. c[i] = a[i - 2]
    BY <1>7, <2>1, Zenon DEF IsJoin
  <2>4. a[i - 2] = (i - 2) + 3
    BY <1>2, <2>1, Zenon
  <2> QED BY <2>1, <2>2, <2>3, <2>4
<1>15. ASSUME NEW i \in 11..18 PROVE d[i] = b[i - 10]
  <2>1. i \in (10 + 1)..(10 + 8)
    OBVIOUS
  <2> QED BY <1>11, <2>1, Zenon DEF IsJoin
<1> QED BY <1>1, <1>12, <1>13, <1>14, <1>15 DEF b

LEMMA FrameRv32Std ==
  /\ Frame("rv32_std", FALSE) \in Seq(Nat) /\ Len(Frame("rv32_std", FALSE)) = 31
  /\ Frame("rv32_std", FALSE)[1] = 32 /\ Frame("rv32_std", FALSE)[2] = 1
  /\ \A i \in 3..29 : Frame("rv32_std", FALSE)[i] = i + 2
  /\ Frame("rv32_std", FALSE)[30] = NONE /\ Frame("rv32_std", FALSE)[31] = 33
<1> DEFINE e == <<32, 1>>
           a == From(5, 31)
           b == <<NONE, 33>>
           c == e \o a
           d == c \o b
<1>1. Frame("rv32_std", FALSE) = d
  BY DEF Frame
<1>2. a \in Seq(Nat) /\ Len(a) = 27 /\ \A i \in 1..27 : a[i] = i + 4
  BY HighRegisters
<1>3. b \in Seq(Nat) /\ Len(b) = 2 /\ b[1] = NONE /\ b[2] = 33
  BY Marks
<1>4. e \in Seq(Nat) /\ Len(e) = 2 /\ e[1] = 32 /\ e[2] = 1
  OBVIOUS
<1> HIDE DEF e, a, b
<1>5. c = e \o a
  OBVIOUS
<1> HIDE DEF c
<1>6. IsJoin(c, e, a, Len(e), Len(a))
  BY <1>2, <1>3, <1>4, <1>5, Joined, Zenon
<1>7. IsJoin(c, e, a, 2, 27)
  BY <1>2, <1>3, <1>4, <1>6
<1>8. c \in Seq(Nat) /\ Len(c) = 29
  BY <1>7 DEF IsJoin
<1>9. d = c \o b
  OBVIOUS
<1> HIDE DEF d
<1>10. IsJoin(d, c, b, Len(c), Len(b))
  BY <1>2, <1>3, <1>4, <1>8, <1>9, Joined, Zenon
<1>11. IsJoin(d, c, b, 29, 2)
  BY <1>2, <1>3, <1>4, <1>7, <1>8, <1>10
<1>12. d \in Seq(Nat) /\ Len(d) = 31
  BY <1>11 DEF IsJoin
<1>13. d[1] = 32 /\ d[2] = 1
  BY <1>4, <1>7, <1>11 DEF IsJoin
<1>14. ASSUME NEW i \in 3..29 PROVE d[i] = i + 2
  <2>1. i \in 1..29 /\ i \in (2 + 1)..(2 + 27) /\ i - 2 \in 1..27
    OBVIOUS
  <2>2. d[i] = c[i] /\ c[i] = a[i - 2] /\ a[i - 2] = (i - 2) + 4
    BY <1>2, <1>7, <1>11, <2>1, Zenon DEF IsJoin
  <2> QED BY <2>2
<1>15. d[30] = NONE /\ d[31] = 33
  BY <1>3, <1>11 DEF IsJoin
<1> QED BY <1>1, <1>12, <1>13, <1>14, <1>15

LEMMA FrameM4f ==
  /\ Frame("m4f", FALSE) \in Seq(Nat) /\ Len(Frame("m4f", FALSE)) = 17
  /\ \A i \in 1..8 : Frame("m4f", FALSE)[i] = i + 3
  /\ Frame("m4f", FALSE)[9] = EXC
  /\ \A i \in 10..17 : Frame("m4f", FALSE)[i] = Hardware[i - 9]
<1> DEFINE a == From(4, 11)
           e == <<EXC>>
           b == Hardware
           c == a \o e
           d == c \o b
<1>1. Frame("m4f", FALSE) = c \o <<>> \o b \o <<>>
  BY DEF Frame
<1>2. a \in Seq(Nat) /\ Len(a) = 8 /\ \A i \in 1..8 : a[i] = i + 3
  BY LowRegisters
<1>3. b \in Seq(Nat) /\ Len(b) = 8
  BY HardwareIs
<1>4. e \in Seq(Nat) /\ Len(e) = 1 /\ e[1] = EXC
  BY Marks
<1> HIDE DEF a, e, b
<1>5. c = a \o e
  OBVIOUS
<1> HIDE DEF c
<1>6. IsJoin(c, a, e, Len(a), Len(e))
  BY <1>2, <1>3, <1>4, <1>5, Joined, Zenon
<1>7. IsJoin(c, a, e, 8, 1)
  BY <1>2, <1>3, <1>4, <1>6
<1>8. c \in Seq(Nat) /\ Len(c) = 9
  BY <1>7 DEF IsJoin
<1>9. d = c \o b
  OBVIOUS
<1> HIDE DEF d
<1>10. IsJoin(d, c, b, Len(c), Len(b))
  BY <1>2, <1>3, <1>4, <1>8, <1>9, Joined, Zenon
<1>11. IsJoin(d, c, b, 9, 8)
  BY <1>2, <1>3, <1>4, <1>7, <1>8, <1>10
<1>12. d \in Seq(Nat) /\ Len(d) = 17
  BY <1>11 DEF IsJoin
<1>13. c \o <<>> = c
  BY <1>8, ConcatEmptySeq
<1>14. d \o <<>> = d
  BY <1>12, ConcatEmptySeq
<1>15. Frame("m4f", FALSE) = d
  BY <1>1, <1>5, <1>9, <1>13, <1>14
<1>16. ASSUME NEW i \in 1..8 PROVE d[i] = i + 3
  <2>1. d[i] = c[i]
    BY <1>11, SMTT(60) DEF IsJoin
  <2>2. c[i] = a[i]
    BY <1>7, SMTT(60) DEF IsJoin
  <2> QED BY <1>2, <2>1, <2>2
<1>17. d[9] = EXC
  BY <1>4, <1>7, <1>11 DEF IsJoin
<1>18. ASSUME NEW i \in 10..17 PROVE d[i] = b[i - 9]
  <2>1. i \in (9 + 1)..(9 + 8)
    OBVIOUS
  <2> QED BY <1>11, <2>1, Zenon DEF IsJoin
<1> QED BY <1>12, <1>15, <1>16, <1>17, <1>18 DEF b

LEMMA FrameCh32 ==
  ASSUME NEW p \in {"ch32", "ch32_fpu"}
  PROVE  /\ Frame(p, FALSE) \in Seq(Nat) /\ Len(Frame(p, FALSE)) = 30
         /\ Frame(p, FALSE)[1] = 32 /\ Frame(p, FALSE)[2] = 33 /\ Frame(p, FALSE)[3] = 1
         /\ \A i \in 4..30 : Frame(p, FALSE)[i] = i + 1
<1> DEFINE e == <<32, 33>>
           o == <<1>>
           a == From(5, 31)
           c == e \o o
           d == c \o a
<1>1. Frame(p, FALSE) = e \o <<>> \o o \o a
  BY DEF Frame
<1>2. a \in Seq(Nat) /\ Len(a) = 27 /\ \A i \in 1..27 : a[i] = i + 4
  BY HighRegisters
<1>3. e \in Seq(Nat) /\ Len(e) = 2 /\ e[1] = 32 /\ e[2] = 33
  OBVIOUS
<1>4. o \in Seq(Nat) /\ Len(o) = 1 /\ o[1] = 1
  OBVIOUS
<1> HIDE DEF e, o, a
<1>5. c = e \o o
  OBVIOUS
<1> HIDE DEF c
<1>6. IsJoin(c, e, o, Len(e), Len(o))
  BY <1>2, <1>3, <1>4, <1>5, Joined, Zenon
<1>7. IsJoin(c, e, o, 2, 1)
  BY <1>2, <1>3, <1>4, <1>6
<1>8. c \in Seq(Nat) /\ Len(c) = 3
  BY <1>7 DEF IsJoin
<1>9. d = c \o a
  OBVIOUS
<1> HIDE DEF d
<1>10. IsJoin(d, c, a, Len(c), Len(a))
  BY <1>2, <1>3, <1>4, <1>8, <1>9, Joined, Zenon
<1>11. IsJoin(d, c, a, 3, 27)
  BY <1>2, <1>3, <1>4, <1>7, <1>8, <1>10
<1>12. d \in Seq(Nat) /\ Len(d) = 30
  BY <1>11 DEF IsJoin
<1>13. e \o <<>> = e
  BY <1>3, ConcatEmptySeq
<1>14. Frame(p, FALSE) = d
  BY <1>1, <1>5, <1>9, <1>13
<1>15. d[1] = 32 /\ d[2] = 33
  BY <1>3, <1>7, <1>11 DEF IsJoin
<1>16. d[3] = 1
  BY <1>4, <1>7, <1>11 DEF IsJoin
<1>17. ASSUME NEW i \in 4..30 PROVE d[i] = i + 1
  <2>1. i \in (3 + 1)..(3 + 27) /\ i - 3 \in 1..27
    OBVIOUS
  <2>2. d[i] = a[i - 3] /\ a[i - 3] = (i - 3) + 4
    BY <1>2, <1>11, <2>1, Zenon DEF IsJoin
  <2> QED BY <2>2
<1> QED BY <1>12, <1>14, <1>15, <1>16, <1>17

-----------------------------------------------------------------------------
(* Storing words below a stack pointer.                                    *)

\* From M to N only stack t changes, and no stack changes its size
OnlyStack(M, N, t) ==
  /\ DOMAIN N = DOMAIN M
  /\ \A u \in DOMAIN M : DOMAIN N[u] = DOMAIN M[u] /\ (u # t => N[u] = M[u])

\* m words at word n of stack t
Stored(M, N, t, n, m, words) ==
  /\ OnlyStack(M, N, t)
  /\ \A a \in DOMAIN M[t] : N[t][a] = IF n <= a /\ a < n + m THEN words[a - n + 1] ELSE M[t][a]

\* Stacks of Depth words
Stacks(M) == DOMAIN M = Tcb /\ \A t \in Tcb : DOMAIN M[t] = 0..(Depth - 1)

LEMMA StoreStores ==
  ASSUME NEW M, Stacks(M), NEW t \in Tcb, NEW n \in Int, NEW words, Len(words) \in Nat
  PROVE  Stored(M, Store(M, <<t, n>>, words), t, n, Len(words), words)
<1> DEFINE N == Store(M, <<t, n>>, words)
           W == [a \in DOMAIN M[t] |->
                   IF a - n \in 0..(Len(words) - 1) THEN words[a - n + 1] ELSE M[t][a]]
<1>1. N = [M EXCEPT ![t] = W]
  BY DEF Store
<1>2. t \in DOMAIN M /\ DOMAIN M[t] = 0..(Depth - 1) /\ Depth \in Nat
  BY FrameAssumption DEF Stacks
<1>3. DOMAIN W = DOMAIN M[t]
  OBVIOUS
<1>4. ASSUME NEW a \in DOMAIN M[t]
      PROVE  W[a] = IF n <= a /\ a < n + Len(words) THEN words[a - n + 1] ELSE M[t][a]
  <2>1. W[a] = IF a - n \in 0..(Len(words) - 1) THEN words[a - n + 1] ELSE M[t][a]
    OBVIOUS
  <2>2. a \in Int
    BY <1>2
  <2> HIDE DEF W
  <2>3. a - n \in 0..(Len(words) - 1) <=> n <= a /\ a < n + Len(words)
    BY <2>2
  <2> QED BY <2>1, <2>3
<1> HIDE DEF W
<1>5. N[t] = W
  BY <1>1, <1>2
<1>6. OnlyStack(M, N, t)
  BY <1>1, <1>3, <1>5 DEF OnlyStack
<1> QED BY <1>4, <1>5, <1>6 DEF Stored

LEMMA StacksKept ==
  ASSUME NEW M, NEW N, NEW t \in Tcb, OnlyStack(M, N, t), Stacks(M)
  PROVE  Stacks(N)
BY DEF OnlyStack, Stacks

LEMMA OnlyStackTwice ==
  ASSUME NEW M, NEW N, NEW O, NEW t \in Tcb, OnlyStack(M, N, t), OnlyStack(N, O, t)
  PROVE  OnlyStack(M, O, t)
BY DEF OnlyStack

\* Registers, or a word, at word n of stack t and what was there elsewhere
Copied(M, N, t, n, R, first, last) ==
  /\ Stacks(N) /\ OnlyStack(M, N, t)
  /\ \A a \in 0..(Depth - 1) :
       N[t][a] = IF n <= a /\ a < n + (last - first) THEN R[first + (a - n)] ELSE M[t][a]
Put(M, N, t, n, word) ==
  /\ Stacks(N) /\ OnlyStack(M, N, t)
  /\ \A a \in 0..(Depth - 1) : N[t][a] = IF a = n THEN word ELSE M[t][a]

LEMMA SliceIsCopied ==
  ASSUME NEW M, Stacks(M), NEW t \in Tcb, NEW n \in Int, NEW R,
         NEW first \in Int, NEW last \in Int, first <= last
  PROVE  Copied(M, Store(M, <<t, n>>, Slice(R, first, last)), t, n, R, first, last)
<1> DEFINE w == Slice(R, first, last)
           N == Store(M, <<t, n>>, w)
<1>1. Len(w) = last - first /\ \A i \in 1..(last - first) : w[i] = R[first + i - 1]
  BY DEF Slice
<1>2. DOMAIN M[t] = 0..(Depth - 1) /\ Depth \in Nat
  BY FrameAssumption DEF Stacks
<1> HIDE DEF w
<1>3. Stored(M, N, t, n, Len(w), w)
  BY <1>1, StoreStores
<1>4. ASSUME NEW a \in 0..(Depth - 1)
      PROVE  N[t][a] = IF n <= a /\ a < n + (last - first) THEN R[first + (a - n)] ELSE M[t][a]
  <2>1. N[t][a] = IF n <= a /\ a < n + (last - first) THEN w[a - n + 1] ELSE M[t][a]
    BY <1>1, <1>2, <1>3 DEF Stored
  <2> HIDE DEF N
  <2>2. CASE n <= a /\ a < n + (last - first)
    <3>1. a - n + 1 \in 1..(last - first)
      BY <1>2, <2>2
    <3>2. first + (a - n + 1) - 1 = first + (a - n)
      BY <1>2
    <3> QED BY <1>1, <2>1, <2>2, <3>1, <3>2
  <2> QED BY <2>1, <2>2
<1>5. OnlyStack(M, N, t)
  BY <1>3 DEF Stored
<1>6. Stacks(N)
  BY <1>5, StacksKept
<1> QED BY <1>4, <1>5, <1>6 DEF Copied, w

LEMMA WordIsPut ==
  ASSUME NEW M, Stacks(M), NEW t \in Tcb, NEW n \in Int, NEW word
  PROVE  Put(M, Store(M, <<t, n>>, <<word>>), t, n, word)
<1> DEFINE w == <<word>>
           N == Store(M, <<t, n>>, w)
<1>1. Len(w) = 1 /\ w[1] = word
  OBVIOUS
<1>2. DOMAIN M[t] = 0..(Depth - 1) /\ Depth \in Nat
  BY FrameAssumption DEF Stacks
<1> HIDE DEF w
<1>3. Stored(M, N, t, n, Len(w), w)
  <2>1. Len(w) \in Nat
    BY <1>1
  <2> QED BY <2>1, StoreStores, Zenon
<1>4. ASSUME NEW a \in 0..(Depth - 1)
      PROVE  N[t][a] = IF a = n THEN word ELSE M[t][a]
  <2>1. N[t][a] = IF n <= a /\ a < n + 1 THEN w[a - n + 1] ELSE M[t][a]
    BY <1>1, <1>2, <1>3 DEF Stored
  <2> HIDE DEF N
  <2> QED BY <1>1, <1>2, <2>1
<1>5. OnlyStack(M, N, t)
  BY <1>3 DEF Stored
<1>6. Stacks(N)
  BY <1>5, StacksKept
<1> QED BY <1>4, <1>5, <1>6 DEF Put, w

-----------------------------------------------------------------------------
(* The steps of the handlers.                                              *)

Ctx(R, p, M, s) == [registers |-> R, pointer |-> p, mem |-> M, sp |-> s]

\* What a push of registers, or of a word, leaves: its pointer and the stacks
PushedTo(d, R, M, t, n, m, s, first, last) ==
  \E N : d = Ctx(R, <<t, m>>, N, s) /\ Copied(M, N, t, n, R, first, last)
PutAt(d, R, M, t, n, m, s, word) ==
  \E N : d = Ctx(R, <<t, m>>, N, s) /\ Put(M, N, t, n, word)

LEMMA PushAscending ==
  ASSUME NEW R, NEW M, Stacks(M), NEW t \in Tcb, NEW n \in Int, NEW s,
         NEW first \in Int, NEW last \in Int, first <= last,
         NEW m, m = n - (last - first)
  PROVE  PushedTo(push_ascending(Ctx(R, <<t, n>>, M, s), first, last), R, M, t, m, m, s, first, last)
<1> DEFINE N == Store(M, <<t, m>>, Slice(R, first, last))
<1>1. n + (first - last) = m /\ m \in Int
  OBVIOUS
<1>2. push_ascending(Ctx(R, <<t, n>>, M, s), first, last) = Ctx(R, <<t, m>>, N, s)
  <2>1. Move(<<t, n>>, first - last) = <<t, m>>
    BY <1>1 DEF Move
  <2> HIDE DEF N
  <2>2. N = Store(M, <<t, m>>, Slice(R, first, last))
    BY DEF N
  <2> DEFINE c == Ctx(R, <<t, n>>, M, s)
  <2>3. c.registers = R /\ c.pointer = <<t, n>> /\ c.mem = M
    BY DEF Ctx
  <2>4. [c EXCEPT !.pointer = <<t, m>>] = Ctx(R, <<t, m>>, M, s)
    BY DEF Ctx
  <2>5. [Ctx(R, <<t, m>>, M, s) EXCEPT !.mem = N] = Ctx(R, <<t, m>>, N, s)
    BY DEF Ctx
  <2> HIDE DEF c
  <2>6. push_ascending(c, first, last) = [Ctx(R, <<t, m>>, M, s) EXCEPT !.mem = N]
    BY <2>1, <2>2, <2>3, <2>4, Zenon DEF push_ascending
  <2> QED BY <2>5, <2>6 DEF c
<1>3. Copied(M, N, t, m, R, first, last)
  BY <1>1, SliceIsCopied
<1> QED BY <1>2, <1>3 DEF PushedTo

LEMMA WriteAscending ==
  ASSUME NEW R, NEW M, Stacks(M), NEW t \in Tcb, NEW n \in Int, NEW s, NEW word,
         NEW m, m = n - 1
  PROVE  PutAt(write_ascending(Ctx(R, <<t, n>>, M, s), word), R, M, t, m, m, s, word)
<1> DEFINE N == Store(M, <<t, m>>, <<word>>)
<1>1. n + (-1) = m /\ m \in Int
  OBVIOUS
<1>2. write_ascending(Ctx(R, <<t, n>>, M, s), word) = Ctx(R, <<t, m>>, N, s)
  <2>1. Move(<<t, n>>, -1) = <<t, m>>
    BY <1>1 DEF Move
  <2> HIDE DEF N
  <2>2. N = Store(M, <<t, m>>, <<word>>)
    BY DEF N
  <2> DEFINE c == Ctx(R, <<t, n>>, M, s)
  <2>3. c.registers = R /\ c.pointer = <<t, n>> /\ c.mem = M
    BY DEF Ctx
  <2>4. [c EXCEPT !.pointer = <<t, m>>] = Ctx(R, <<t, m>>, M, s)
    BY DEF Ctx
  <2>5. [Ctx(R, <<t, m>>, M, s) EXCEPT !.mem = N] = Ctx(R, <<t, m>>, N, s)
    BY DEF Ctx
  <2> HIDE DEF c
  <2>6. write_ascending(c, word) = [Ctx(R, <<t, m>>, M, s) EXCEPT !.mem = N]
    BY <2>1, <2>2, <2>3, <2>4, Zenon DEF write_ascending
  <2> QED BY <2>5, <2>6 DEF c
<1>3. Put(M, N, t, m, word)
  BY <1>1, WordIsPut
<1> QED BY <1>2, <1>3 DEF PutAt

LEMMA Push ==
  ASSUME NEW R, NEW M, Stacks(M), NEW t \in Tcb, NEW n \in Int, NEW s,
         NEW first \in Int, NEW last \in Int, first <= last,
         NEW m, m = n + (last - first)
  PROVE  PushedTo(push(Ctx(R, <<t, n>>, M, s), first, last), R, M, t, n, m, s, first, last)
<1> DEFINE N == Store(M, <<t, n>>, Slice(R, first, last))
<1>1. push(Ctx(R, <<t, n>>, M, s), first, last) = Ctx(R, <<t, m>>, N, s)
  <2>1. Move(<<t, n>>, last - first) = <<t, m>>
    BY DEF Move
  <2> HIDE DEF N
  <2>2. N = Store(M, <<t, n>>, Slice(R, first, last))
    BY DEF N
  <2> DEFINE c == Ctx(R, <<t, n>>, M, s)
  <2>3. c.registers = R /\ c.pointer = <<t, n>> /\ c.mem = M
    BY DEF Ctx
  <2>4. [c EXCEPT !.mem = N] = Ctx(R, <<t, n>>, N, s)
    BY DEF Ctx
  <2>5. [Ctx(R, <<t, n>>, N, s) EXCEPT !.pointer = <<t, m>>] = Ctx(R, <<t, m>>, N, s)
    BY DEF Ctx
  <2> HIDE DEF c
  <2>6. push(c, first, last) = [Ctx(R, <<t, n>>, N, s) EXCEPT !.pointer = <<t, m>>]
    BY <2>1, <2>2, <2>3, <2>4, Zenon DEF push
  <2> QED BY <2>5, <2>6 DEF c
<1>2. Copied(M, N, t, n, R, first, last)
  BY SliceIsCopied
<1> QED BY <1>1, <1>2 DEF PushedTo

LEMMA Push32 ==
  ASSUME NEW R, NEW M, Stacks(M), NEW t \in Tcb, NEW n \in Int, NEW s, NEW word,
         NEW m, m = n + 1
  PROVE  PutAt(push32(Ctx(R, <<t, n>>, M, s), word), R, M, t, n, m, s, word)
<1> DEFINE N == Store(M, <<t, n>>, <<word>>)
<1>1. push32(Ctx(R, <<t, n>>, M, s), word) = Ctx(R, <<t, m>>, N, s)
  <2>1. Move(<<t, n>>, 1) = <<t, m>>
    BY DEF Move
  <2> HIDE DEF N
  <2>2. N = Store(M, <<t, n>>, <<word>>)
    BY DEF N
  <2> DEFINE c == Ctx(R, <<t, n>>, M, s)
  <2>3. c.registers = R /\ c.pointer = <<t, n>> /\ c.mem = M
    BY DEF Ctx
  <2>4. [c EXCEPT !.mem = N] = Ctx(R, <<t, n>>, N, s)
    BY DEF Ctx
  <2>5. [Ctx(R, <<t, n>>, N, s) EXCEPT !.pointer = <<t, m>>] = Ctx(R, <<t, m>>, N, s)
    BY DEF Ctx
  <2> HIDE DEF c
  <2>6. push32(c, word) = [Ctx(R, <<t, n>>, N, s) EXCEPT !.pointer = <<t, m>>]
    BY <2>1, <2>2, <2>3, <2>4, Zenon DEF push32
  <2> QED BY <2>5, <2>6 DEF c
<1>2. Put(M, N, t, n, word)
  BY WordIsPut
<1> QED BY <1>1, <1>2 DEF PutAt

-----------------------------------------------------------------------------
(* What the handlers of the ARM ports write.                               *)

LEMMA Entries ==
  ASSUME NEW R
  PROVE  /\ \A r \in 0..33 : Entry(R, FALSE, r) = R[r]
         /\ Entry(R, FALSE, EXC) = EXC_RETURN /\ Entry(R, FALSE, NONE) = ZERO
BY DEF Entry, FPU, EXC, NONE

\* The 8 words that the core itself saves
ExceptionFrame(M, t, n, R) == \A i \in 1..8 : M[t][n + i - 1] = R[Hardware[i]]

ExceptionPushed(d, R, M, t, k, m, s) ==
  \E N : /\ d = Ctx(R, <<t, m>>, N, s)
         /\ Stacks(N) /\ OnlyStack(M, N, t)
         /\ 0 <= m /\ k <= Depth => ExceptionFrame(N, t, m, R)

LEMMA PushExceptionFrame ==
  ASSUME NEW R, NEW M, Stacks(M), NEW t \in Tcb, NEW k \in Int, NEW s, NEW m, m = k - 8
  PROVE  ExceptionPushed(push_exception_frame(Ctx(R, <<t, k>>, M, s)), R, M, t, k, m, s)
<1> DEFINE k1 == k - 1
           k2 == k - 3
           k3 == k - 4
<1>0. /\ k1 \in Int /\ k1 = k - (17 - 16) /\ k2 \in Int /\ k2 = k1 - (16 - 14)
      /\ k3 \in Int /\ k3 = k2 - (13 - 12) /\ m \in Int /\ m = k3 - (4 - 0)
      /\ 16 \in Int /\ 17 \in Int /\ 16 <= 17 /\ 14 \in Int /\ 14 <= 16
      /\ 12 \in Int /\ 13 \in Int /\ 12 <= 13 /\ 0 \in Int /\ 4 \in Int /\ 0 <= 4
  OBVIOUS
<1>a. k1 = m + 7 /\ k2 = m + 5 /\ k3 = m + 4 /\ k = m + 8
  OBVIOUS
<1> HIDE DEF k1, k2, k3
<1>1. PICK M1 : /\ push_ascending(Ctx(R, <<t, k>>, M, s), 16, 17) = Ctx(R, <<t, k1>>, M1, s)
             /\ Copied(M, M1, t, k1, R, 16, 17)
  <2>1. Stacks(M)
    BY DEF Copied
  <2>2. PushedTo(push_ascending(Ctx(R, <<t, k>>, M, s), 16, 17), R, M, t, k1, k1, s, 16, 17)
    BY <1>0, <2>1, PushAscending, Zenon
  <2> QED BY <2>2 DEF PushedTo
<1>2. PICK M2 : /\ push_ascending(Ctx(R, <<t, k1>>, M1, s), 14, 16) = Ctx(R, <<t, k2>>, M2, s)
             /\ Copied(M1, M2, t, k2, R, 14, 16)
  <2>1. Stacks(M1)
    BY <1>1 DEF Copied
  <2>2. PushedTo(push_ascending(Ctx(R, <<t, k1>>, M1, s), 14, 16), R, M1, t, k2, k2, s, 14, 16)
    BY <1>0, <2>1, PushAscending, Zenon
  <2> QED BY <2>2 DEF PushedTo
<1>3. PICK M3 : /\ push_ascending(Ctx(R, <<t, k2>>, M2, s), 12, 13) = Ctx(R, <<t, k3>>, M3, s)
             /\ Copied(M2, M3, t, k3, R, 12, 13)
  <2>1. Stacks(M2)
    BY <1>2 DEF Copied
  <2>2. PushedTo(push_ascending(Ctx(R, <<t, k2>>, M2, s), 12, 13), R, M2, t, k3, k3, s, 12, 13)
    BY <1>0, <2>1, PushAscending, Zenon
  <2> QED BY <2>2 DEF PushedTo
<1>4. PICK N : /\ push_ascending(Ctx(R, <<t, k3>>, M3, s), 0, 4) = Ctx(R, <<t, m>>, N, s)
            /\ Copied(M3, N, t, m, R, 0, 4)
  <2>1. Stacks(M3)
    BY <1>3 DEF Copied
  <2>2. PushedTo(push_ascending(Ctx(R, <<t, k3>>, M3, s), 0, 4), R, M3, t, m, m, s, 0, 4)
    BY <1>0, <2>1, PushAscending, Zenon
  <2> QED BY <2>2 DEF PushedTo
<1>5. push_exception_frame(Ctx(R, <<t, k>>, M, s)) = Ctx(R, <<t, m>>, N, s)
  BY <1>1, <1>2, <1>3, <1>4, Zenon DEF push_exception_frame
<1>6. Stacks(N) /\ OnlyStack(M, N, t)
  BY <1>1, <1>2, <1>3, <1>4, OnlyStackTwice, Zenon DEF Copied
<1>7. ASSUME 0 <= m, k <= Depth, NEW i \in 1..8
      PROVE  N[t][m + i - 1] = R[Hardware[i]]
  <2>0. m + i - 1 \in 0..(Depth - 1) /\ Depth \in Nat
    BY <1>0, <1>a, <1>7, FrameAssumption
  <2>1. CASE i \in 1..4
    <3>1. N[t][m + i - 1] = R[0 + ((m + i - 1) - m)]
      BY <1>0, <1>4, <2>0, <2>1 DEF Copied
    <3>2. 0 + ((m + i - 1) - m) = i - 1 /\ Hardware[i] = i - 1
      BY <1>0, <2>1, HardwareIs
    <3> QED BY <3>1, <3>2
  <2>2. CASE i = 5
    <3>1. N[t][m + 4] = M3[t][m + 4] /\ M3[t][m + 4] = R[12]
      BY <1>0, <1>a, <1>3, <1>4, <2>0, <2>2 DEF Copied
    <3> QED BY <1>0, <2>2, <3>1, HardwareIs
  <2>3. CASE i \in 6..7
    <3>1. N[t][m + i - 1] = M3[t][m + i - 1] /\ M3[t][m + i - 1] = M2[t][m + i - 1]
      BY <1>0, <1>a, <1>3, <1>4, <2>0, <2>3 DEF Copied
    <3>2. M2[t][m + i - 1] = R[14 + ((m + i - 1) - k2)]
      BY <1>0, <1>a, <1>2, <2>0, <2>3 DEF Copied
    <3>3. 14 + ((m + i - 1) - k2) = Hardware[i]
      BY <1>0, <1>a, <2>3, HardwareIs
    <3> QED BY <3>1, <3>2, <3>3
  <2>4. CASE i = 8
    <3>1. N[t][m + 7] = M3[t][m + 7] /\ M3[t][m + 7] = M2[t][m + 7]
      BY <1>0, <1>a, <1>3, <1>4, <2>0, <2>4 DEF Copied
    <3>2. M2[t][m + 7] = M1[t][m + 7] /\ M1[t][m + 7] = R[16]
      BY <1>0, <1>a, <1>1, <1>2, <2>0, <2>4 DEF Copied
    <3> QED BY <1>0, <2>4, <3>1, <3>2, HardwareIs
  <2> QED BY <2>1, <2>2, <2>3, <2>4
<1>8. 0 <= m /\ k <= Depth => ExceptionFrame(N, t, m, R)
  BY <1>7 DEF ExceptionFrame
<1> QED BY <1>5, <1>6, <1>8 DEF ExceptionPushed

\* What a handler leaves that has pushed a frame of the given size: the stack
\* pointer is below it, no other stack is written, and if the stack has room for
\* the frame, it is that of the port.  The ch32 handler clears mstatus.FS.
Tidy(R, p) == p \in {"ch32", "ch32_fpu"} => ClearFS(R[MSTATUS]) = R[MSTATUS]
FrameIn(N, t, m, R, p, size) ==
  \A i \in 1..size : N[t][m + i - 1] = Entry(R, FALSE, Frame(p, FALSE)[i])
Saves(d, R, M, t, k, m, sp, p, size) ==
  \E Q, q, N :
     /\ d = Ctx(Q, q, N, <<t, m>>)
     /\ DOMAIN Q = DOMAIN R /\ \A r \in DOMAIN R \ {sp} : Q[r] = R[r]
     /\ Stacks(N) /\ OnlyStack(M, N, t)
     /\ 0 <= m /\ k <= Depth /\ Tidy(R, p) => FrameIn(N, t, m, R, p, size)

LEMMA LoweredIs ==
  ASSUME NEW R, NEW p, NEW M, NEW s
  PROVE  Lowered(Ctx(R, p, M, s)) = Ctx([R EXCEPT ![13] = p], p, M, p)
<1> DEFINE c == Ctx(R, p, M, s)
<1>1. c.pointer = p /\ c.registers = R
  BY DEF Ctx
<1>2. [c EXCEPT !.registers = [R EXCEPT ![13] = p]] = Ctx([R EXCEPT ![13] = p], p, M, s)
  BY DEF Ctx
<1>3. [Ctx([R EXCEPT ![13] = p], p, M, s) EXCEPT !.sp = p] = Ctx([R EXCEPT ![13] = p], p, M, p)
  BY DEF Ctx
<1> HIDE DEF c
<1>4. [c EXCEPT !.registers[13] = p] = [c EXCEPT !.registers = [R EXCEPT ![13] = p]]
  BY <1>1
<1>5. Lowered(c) = [[c EXCEPT !.registers[13] = p] EXCEPT !.sp = p]
  BY <1>1 DEF Lowered
<1> QED BY <1>2, <1>3, <1>4, <1>5 DEF c

LEMMA AtSpIs ==
  ASSUME NEW R, NEW M
  PROVE  AtSp(Context(R, M)) = Ctx(R, R[13], M, <<>>)
BY DEF AtSp, Context, Ctx

LEMMA WriteM3 ==
  ASSUME NEW R, NEW M, Stacks(M), NEW t \in Tcb, NEW k \in Int, R[13] = <<t, k>>,
         NEW m, m = k - 16
  PROVE  Saves(write_m3(Context(R, M)), R, M, t, k, m, 13, "m3", 16)
<1> DEFINE h == k - 8
<1>0. /\ m \in Int /\ h \in Int /\ h = k - 8 /\ m = h - (12 - 4)
      /\ 4 \in Int /\ 12 \in Int /\ 4 <= 12 /\ h = m + 8 /\ k = m + 16 /\ m = k - 16
  OBVIOUS
<1> HIDE DEF h
<1>1. PICK E : /\ push_exception_frame(Ctx(R, <<t, k>>, M, <<>>)) = Ctx(R, <<t, h>>, E, <<>>)
               /\ Stacks(E) /\ OnlyStack(M, E, t)
               /\ 0 <= h /\ k <= Depth => ExceptionFrame(E, t, h, R)
  <2>1. ExceptionPushed(push_exception_frame(Ctx(R, <<t, k>>, M, <<>>)), R, M, t, k, h, <<>>)
    BY <1>0, PushExceptionFrame, Zenon
  <2> QED BY <2>1 DEF ExceptionPushed
<1>2. PICK N : /\ push_ascending(Ctx(R, <<t, h>>, E, <<>>), 4, 12) = Ctx(R, <<t, m>>, N, <<>>)
               /\ Copied(E, N, t, m, R, 4, 12)
  <2>1. PushedTo(push_ascending(Ctx(R, <<t, h>>, E, <<>>), 4, 12), R, E, t, m, m, <<>>, 4, 12)
    BY <1>0, <1>1, PushAscending, Zenon
  <2> QED BY <2>1 DEF PushedTo
<1>3. write_m3(Context(R, M)) = Ctx([R EXCEPT ![13] = <<t, m>>], <<t, m>>, N, <<t, m>>)
  <2>1. AtSp(Context(R, M)) = Ctx(R, <<t, k>>, M, <<>>)
    BY AtSpIs
  <2>2. Lowered(Ctx(R, <<t, m>>, N, <<>>)) = Ctx([R EXCEPT ![13] = <<t, m>>], <<t, m>>, N, <<t, m>>)
    BY LoweredIs
  <2> QED BY <1>1, <1>2, <2>1, <2>2, Zenon DEF write_m3
<1>4. Stacks(N) /\ OnlyStack(M, N, t)
  BY <1>1, <1>2, OnlyStackTwice, Zenon DEF Copied
<1>5. \A x \in 0..(Depth - 1) :
         N[t][x] = IF m <= x /\ x < m + 8 THEN R[4 + (x - m)] ELSE E[t][x]
  BY <1>2 DEF Copied
<1>6. ASSUME 0 <= m, k <= Depth, NEW i \in 1..16
      PROVE  N[t][m + i - 1] = Entry(R, FALSE, Frame("m3", FALSE)[i])
  <2> DEFINE x == m + i - 1
  <2>0. x \in 0..(Depth - 1) /\ x \in Int /\ m \in Int /\ x - m = i - 1
    BY <1>0, <1>6, FrameAssumption
  <2> HIDE DEF x
  <2>1. CASE i \in 1..8
    <3>1. m <= x /\ x < m + 8 /\ 4 + (x - m) = i + 3
      BY <2>0, <2>1
    <3>2. N[t][x] = R[i + 3]
      BY <1>5, <2>0, <3>1
    <3>3. Frame("m3", FALSE)[i] = i + 3
      BY <2>1, FrameM3, Zenon
    <3>4. i + 3 \in 0..33
      BY <2>1
    <3> QED BY <3>2, <3>3, <3>4, Entries, Zenon DEF x
  <2>2. CASE i \in 9..16
    <3>1. ~(m <= x /\ x < m + 8) /\ i - 8 \in 1..8 /\ x = h + (i - 8) - 1
      BY <1>0, <2>0, <2>2
    <3>2. N[t][x] = E[t][x]
      BY <1>5, <2>0, <3>1
    <3>3. E[t][h + (i - 8) - 1] = R[Hardware[i - 8]]
      <4>1. ExceptionFrame(E, t, h, R)
        BY <1>0, <1>1, <1>6
      <4> QED BY <3>1, <4>1, Zenon DEF ExceptionFrame
    <3>4. Frame("m3", FALSE)[i] = Hardware[i - 8]
      BY <2>2, FrameM3
    <3>5. Hardware[i - 8] \in 0..33
      BY <3>1, HardwareRegisters
    <3>6. Entry(R, FALSE, Hardware[i - 8]) = R[Hardware[i - 8]]
      BY <3>5, Entries
    <3> QED BY <3>1, <3>2, <3>3, <3>4, <3>6 DEF x
  <2>3. i \in 1..8 \/ i \in 9..16
    BY <1>6
  <2> QED BY <2>1, <2>2, <2>3, Zenon
<1> DEFINE Q == [R EXCEPT ![13] = <<t, m>>]
<1>7. DOMAIN Q = DOMAIN R /\ \A r \in DOMAIN R \ {13} : Q[r] = R[r]
  OBVIOUS
<1> HIDE DEF Q
<1>8. write_m3(Context(R, M)) = Ctx(Q, <<t, m>>, N, <<t, m>>)
  BY <1>3 DEF Q
<1>9. 0 <= m /\ k <= Depth => FrameIn(N, t, m, R, "m3", 16)
  BY <1>6 DEF FrameIn
<1> QED BY <1>4, <1>7, <1>8, <1>9 DEF Saves

LEMMA WriteM4f ==
  ASSUME NEW R, NEW M, Stacks(M), NEW t \in Tcb, NEW k \in Int, R[13] = <<t, k>>,
         NEW m, m = k - 17
  PROVE  Saves(write_m4f(Context(R, M)), R, M, t, k, m, 13, "m4f", 17)
<1> DEFINE g == k - 9
           h == k - 8
<1>0. /\ m \in Int /\ g \in Int /\ h \in Int /\ h = k - 8 /\ g = h - 1 /\ m = g - (12 - 4)
      /\ 4 \in Int /\ 12 \in Int /\ 4 <= 12 /\ h = m + 9 /\ g = m + 8 /\ k = m + 17 /\ m = k - 17
  OBVIOUS
<1> HIDE DEF g, h
<1>1. PICK E : /\ push_exception_frame(Ctx(R, <<t, k>>, M, <<>>)) = Ctx(R, <<t, h>>, E, <<>>)
               /\ Stacks(E) /\ OnlyStack(M, E, t)
               /\ 0 <= h /\ k <= Depth => ExceptionFrame(E, t, h, R)
  <2>1. ExceptionPushed(push_exception_frame(Ctx(R, <<t, k>>, M, <<>>)), R, M, t, k, h, <<>>)
    BY <1>0, PushExceptionFrame, Zenon
  <2> QED BY <2>1 DEF ExceptionPushed
<1>2. PICK F : /\ write_ascending(Ctx(R, <<t, h>>, E, <<>>), EXC_RETURN) = Ctx(R, <<t, g>>, F, <<>>)
               /\ Put(E, F, t, g, EXC_RETURN)
  <2>1. PutAt(write_ascending(Ctx(R, <<t, h>>, E, <<>>), EXC_RETURN), R, E, t, g, g, <<>>, EXC_RETURN)
    BY <1>0, <1>1, WriteAscending, Zenon
  <2> QED BY <2>1 DEF PutAt
<1>3. PICK N : /\ push_ascending(Ctx(R, <<t, g>>, F, <<>>), 4, 12) = Ctx(R, <<t, m>>, N, <<>>)
               /\ Copied(F, N, t, m, R, 4, 12)
  <2>1. PushedTo(push_ascending(Ctx(R, <<t, g>>, F, <<>>), 4, 12), R, F, t, m, m, <<>>, 4, 12)
    BY <1>0, <1>2, PushAscending, Zenon DEF Put
  <2> QED BY <2>1 DEF PushedTo
<1>4. write_m4f(Context(R, M)) = Ctx([R EXCEPT ![13] = <<t, m>>], <<t, m>>, N, <<t, m>>)
  <2>1. AtSp(Context(R, M)) = Ctx(R, <<t, k>>, M, <<>>)
    BY AtSpIs
  <2>2. Lowered(Ctx(R, <<t, m>>, N, <<>>)) = Ctx([R EXCEPT ![13] = <<t, m>>], <<t, m>>, N, <<t, m>>)
    BY LoweredIs
  <2> QED BY <1>1, <1>2, <1>3, <2>1, <2>2, Zenon DEF write_m4f
<1>5. Stacks(N) /\ OnlyStack(M, N, t)
  BY <1>1, <1>2, <1>3, OnlyStackTwice, Zenon DEF Copied, Put
<1>6. \A x \in 0..(Depth - 1) :
         /\ N[t][x] = IF m <= x /\ x < m + 8 THEN R[4 + (x - m)] ELSE F[t][x]
         /\ F[t][x] = IF x = m + 8 THEN EXC_RETURN ELSE E[t][x]
  BY <1>0, <1>2, <1>3 DEF Copied, Put
<1>7. ASSUME 0 <= m, k <= Depth, NEW i \in 1..17
      PROVE  N[t][m + i - 1] = Entry(R, FALSE, Frame("m4f", FALSE)[i])
  <2> DEFINE x == m + i - 1
  <2>0. x \in 0..(Depth - 1) /\ x \in Int /\ m \in Int /\ x - m = i - 1
    BY <1>0, <1>7, FrameAssumption
  <2> HIDE DEF x
  <2>1. CASE i \in 1..8
    <3>1. m <= x /\ x < m + 8 /\ 4 + (x - m) = i + 3
      BY <2>0, <2>1
    <3>2. N[t][x] = R[i + 3]
      BY <1>6, <2>0, <3>1
    <3>3. Frame("m4f", FALSE)[i] = i + 3
      BY <2>1, FrameM4f, Zenon
    <3>4. i + 3 \in 0..33
      BY <2>1
    <3> QED BY <3>2, <3>3, <3>4, Entries, Zenon DEF x
  <2>2. CASE i = 9
    <3>1. ~(m <= x /\ x < m + 8) /\ x = m + 8
      BY <2>0, <2>2
    <3>2. N[t][x] = EXC_RETURN
      BY <1>6, <2>0, <3>1
    <3> QED BY <2>2, <3>2, FrameM4f, Entries, Zenon DEF x
  <2>3. CASE i \in 10..17
    <3>1. ~(m <= x /\ x < m + 8) /\ x # m + 8 /\ i - 9 \in 1..8 /\ x = h + (i - 9) - 1
      BY <1>0, <2>0, <2>3
    <3>2. N[t][x] = E[t][x]
      BY <1>6, <2>0, <3>1
    <3>3. E[t][h + (i - 9) - 1] = R[Hardware[i - 9]]
      <4>1. ExceptionFrame(E, t, h, R)
        BY <1>0, <1>1, <1>7
      <4> QED BY <3>1, <4>1, Zenon DEF ExceptionFrame
    <3>4. Frame("m4f", FALSE)[i] = Hardware[i - 9]
      BY <2>3, FrameM4f, Zenon
    <3>5. Hardware[i - 9] \in 0..33
      BY <3>1, HardwareRegisters
    <3>6. Entry(R, FALSE, Hardware[i - 9]) = R[Hardware[i - 9]]
      BY <3>5, Entries, Zenon
    <3> QED BY <3>1, <3>2, <3>3, <3>4, <3>6 DEF x
  <2>4. i \in 1..8 \/ i = 9 \/ i \in 10..17
    BY <1>7
  <2> QED BY <2>1, <2>2, <2>3, <2>4, Zenon
<1> DEFINE Q == [R EXCEPT ![13] = <<t, m>>]
<1>8. DOMAIN Q = DOMAIN R /\ \A r \in DOMAIN R \ {13} : Q[r] = R[r]
  OBVIOUS
<1> HIDE DEF Q
<1>9. write_m4f(Context(R, M)) = Ctx(Q, <<t, m>>, N, <<t, m>>)
  BY <1>4 DEF Q
<1>10. 0 <= m /\ k <= Depth => FrameIn(N, t, m, R, "m4f", 17)
  BY <1>7 DEF FrameIn
<1> QED BY <1>5, <1>8, <1>9, <1>10 DEF Saves

LEMMA WriteM33 ==
  ASSUME NEW R, NEW M, Stacks(M), NEW t \in Tcb, NEW k \in Int, R[13] = <<t, k>>,
         NEW m, m = k - 18
  PROVE  Saves(write_m33(Context(R, M)), R, M, t, k, m, 13, "m33", 18)
<1> DEFINE f == k - 17
           g == k - 16
           h == k - 8
<1>0. /\ m \in Int /\ f \in Int /\ g \in Int /\ h \in Int
      /\ h = k - 8 /\ g = h - (12 - 4) /\ f = g - 1 /\ m = f - 1
      /\ 4 \in Int /\ 12 \in Int /\ 4 <= 12
      /\ h = m + 10 /\ g = m + 2 /\ f = m + 1 /\ k = m + 18 /\ m = k - 18
  OBVIOUS
<1> HIDE DEF f, g, h
<1>1. PICK E : /\ push_exception_frame(Ctx(R, <<t, k>>, M, <<>>)) = Ctx(R, <<t, h>>, E, <<>>)
               /\ Stacks(E) /\ OnlyStack(M, E, t)
               /\ 0 <= h /\ k <= Depth => ExceptionFrame(E, t, h, R)
  <2>1. ExceptionPushed(push_exception_frame(Ctx(R, <<t, k>>, M, <<>>)), R, M, t, k, h, <<>>)
    BY <1>0, PushExceptionFrame, Zenon
  <2> QED BY <2>1 DEF ExceptionPushed
<1>2. PICK F : /\ push_ascending(Ctx(R, <<t, h>>, E, <<>>), 4, 12) = Ctx(R, <<t, g>>, F, <<>>)
               /\ Copied(E, F, t, g, R, 4, 12)
  <2>1. PushedTo(push_ascending(Ctx(R, <<t, h>>, E, <<>>), 4, 12), R, E, t, g, g, <<>>, 4, 12)
    BY <1>0, <1>1, PushAscending, Zenon
  <2> QED BY <2>1 DEF PushedTo
<1>3. PICK G : /\ write_ascending(Ctx(R, <<t, g>>, F, <<>>), EXC_RETURN) = Ctx(R, <<t, f>>, G, <<>>)
               /\ Put(F, G, t, f, EXC_RETURN)
  <2>1. PutAt(write_ascending(Ctx(R, <<t, g>>, F, <<>>), EXC_RETURN), R, F, t, f, f, <<>>, EXC_RETURN)
    BY <1>0, <1>2, WriteAscending, Zenon DEF Copied
  <2> QED BY <2>1 DEF PutAt
<1>4. PICK N : /\ write_ascending(Ctx(R, <<t, f>>, G, <<>>), ZERO) = Ctx(R, <<t, m>>, N, <<>>)
               /\ Put(G, N, t, m, ZERO)
  <2>1. PutAt(write_ascending(Ctx(R, <<t, f>>, G, <<>>), ZERO), R, G, t, m, m, <<>>, ZERO)
    BY <1>0, <1>3, WriteAscending, Zenon DEF Put
  <2> QED BY <2>1 DEF PutAt
<1>5. write_m33(Context(R, M)) = Ctx([R EXCEPT ![13] = <<t, m>>], <<t, m>>, N, <<t, m>>)
  <2>1. AtSp(Context(R, M)) = Ctx(R, <<t, k>>, M, <<>>)
    BY AtSpIs
  <2>2. Lowered(Ctx(R, <<t, m>>, N, <<>>)) = Ctx([R EXCEPT ![13] = <<t, m>>], <<t, m>>, N, <<t, m>>)
    BY LoweredIs
  <2> QED BY <1>1, <1>2, <1>3, <1>4, <2>1, <2>2, Zenon DEF write_m33
<1>6. Stacks(N) /\ OnlyStack(M, N, t)
  <2>1. OnlyStack(M, F, t)
    BY <1>1, <1>2, OnlyStackTwice, Zenon DEF Copied
  <2>2. OnlyStack(M, G, t)
    BY <1>3, <2>1, OnlyStackTwice, Zenon DEF Put
  <2> QED BY <1>4, <2>2, OnlyStackTwice, Zenon DEF Put
<1>7. \A x \in 0..(Depth - 1) :
         /\ N[t][x] = IF x = m THEN ZERO ELSE G[t][x]
         /\ G[t][x] = IF x = m + 1 THEN EXC_RETURN ELSE F[t][x]
         /\ F[t][x] = IF m + 2 <= x /\ x < m + 10 THEN R[4 + (x - g)] ELSE E[t][x]
  BY <1>0, <1>2, <1>3, <1>4 DEF Copied, Put
<1>8. ASSUME 0 <= m, k <= Depth, NEW i \in 1..18
      PROVE  N[t][m + i - 1] = Entry(R, FALSE, Frame("m33", FALSE)[i])
  <2> DEFINE x == m + i - 1
  <2>0. x \in 0..(Depth - 1) /\ x \in Int /\ m \in Int /\ x - m = i - 1
    BY <1>0, <1>8, FrameAssumption
  <2> HIDE DEF x
  <2>1. CASE i = 1
    <3>1. x = m
      BY <2>0, <2>1
    <3>2. N[t][x] = ZERO
      BY <1>7, <2>0, <3>1
    <3> QED BY <2>1, <3>2, FrameM33, Entries, Zenon DEF x
  <2>2. CASE i = 2
    <3>1. x # m /\ x = m + 1
      BY <2>0, <2>2
    <3>2. N[t][x] = EXC_RETURN
      BY <1>7, <2>0, <3>1
    <3> QED BY <2>2, <3>2, FrameM33, Entries, Zenon DEF x
  <2>3. CASE i \in 3..10
    <3>1. x # m /\ x # m + 1 /\ m + 2 <= x /\ x < m + 10 /\ 4 + (x - g) = i + 1
      BY <1>0, <2>0, <2>3
    <3>2. N[t][x] = R[i + 1]
      BY <1>7, <2>0, <3>1
    <3>3. Frame("m33", FALSE)[i] = i + 1
      BY <2>3, FrameM33, Zenon
    <3>4. i + 1 \in 0..33
      BY <2>3
    <3> QED BY <3>2, <3>3, <3>4, Entries, Zenon DEF x
  <2>4. CASE i \in 11..18
    <3>1. /\ x # m /\ x # m + 1 /\ ~(m + 2 <= x /\ x < m + 10)
          /\ i - 10 \in 1..8 /\ x = h + (i - 10) - 1
      <4>1. h = m + 10 /\ i \in Int /\ 11 <= i /\ i <= 18
        BY <1>0, <2>4
      <4>2. x = m + i - 1
        BY <2>0, <4>1
      <4> QED BY <2>0, <4>1, <4>2
    <3>2. N[t][x] = E[t][x]
      <4>1. N[t][x] = G[t][x] /\ G[t][x] = F[t][x]
        BY <1>7, <2>0, <3>1
      <4>2. F[t][x] = E[t][x]
        BY <1>7, <2>0, <3>1
      <4> QED BY <4>1, <4>2
    <3>3. E[t][h + (i - 10) - 1] = R[Hardware[i - 10]]
      <4>1. 0 <= h
        BY <1>0, <1>8
      <4>2. ExceptionFrame(E, t, h, R)
        BY <1>1, <1>8, <4>1, Zenon
      <4> QED BY <3>1, <4>2, Zenon DEF ExceptionFrame
    <3>4. Frame("m33", FALSE)[i] = Hardware[i - 10]
      BY <2>4, FrameM33, Zenon
    <3>5. Hardware[i - 10] \in 0..33
      BY <3>1, HardwareRegisters
    <3>6. Entry(R, FALSE, Hardware[i - 10]) = R[Hardware[i - 10]]
      BY <3>5, Entries, Zenon
    <3> QED BY <3>1, <3>2, <3>3, <3>4, <3>6 DEF x
  <2>5. i = 1 \/ i = 2 \/ i \in 3..10 \/ i \in 11..18
    BY <1>8
  <2> QED BY <2>1, <2>2, <2>3, <2>4, <2>5, Zenon
<1> DEFINE Q == [R EXCEPT ![13] = <<t, m>>]
<1>9. DOMAIN Q = DOMAIN R /\ \A r \in DOMAIN R \ {13} : Q[r] = R[r]
  OBVIOUS
<1> HIDE DEF Q
<1>10. write_m33(Context(R, M)) = Ctx(Q, <<t, m>>, N, <<t, m>>)
  BY <1>5 DEF Q
<1>11. 0 <= m /\ k <= Depth => FrameIn(N, t, m, R, "m33", 18)
  BY <1>8 DEF FrameIn
<1> QED BY <1>6, <1>9, <1>10, <1>11 DEF Saves

-----------------------------------------------------------------------------
(* What those of the RISC-V ports write.                                   *)

LEMMA BelowIs ==
  ASSUME NEW R, NEW M, NEW t, NEW k \in Int, R[2] = <<t, k>>, NEW words \in Int,
         NEW m, m = k - words
  PROVE  Below(Context(R, M), words) = Ctx(R, <<t, m>>, M, <<t, m>>)
<1>1. Context(R, M).registers = R
  BY DEF Context
<1>2. Move(<<t, k>>, -words) = <<t, m>>
  BY DEF Move
<1>3. [[Context(R, M) EXCEPT !.pointer = <<t, m>>] EXCEPT !.sp = <<t, m>>] = Ctx(R, <<t, m>>, M, <<t, m>>)
  <2>1. Context(R, M) = Ctx(R, <<>>, M, <<>>)
    BY DEF Context, Ctx
  <2>2. [Ctx(R, <<>>, M, <<>>) EXCEPT !.pointer = <<t, m>>] = Ctx(R, <<t, m>>, M, <<>>)
    BY DEF Ctx
  <2>3. [Ctx(R, <<t, m>>, M, <<>>) EXCEPT !.sp = <<t, m>>] = Ctx(R, <<t, m>>, M, <<t, m>>)
    BY DEF Ctx
  <2> QED BY <2>1, <2>2, <2>3
<1>4. Move(Context(R, M).registers[2], -words) = <<t, m>>
  BY <1>1, <1>2, Zenon
<1> QED BY <1>3, <1>4, Zenon DEF Below

LEMMA WriteRv32Std ==
  ASSUME NEW R, NEW M, Stacks(M), NEW t \in Tcb, NEW k \in Int, R[2] = <<t, k>>,
         NEW m, m = k - 31
  PROVE  Saves(write_rv32_std(Context(R, M)), R, M, t, k, m, 2, "rv32_std", 31)
<1> DEFINE m1 == k - 30
           m2 == k - 29
           m3 == k - 2
           m4 == k - 1
           s  == <<t, m>>
<1>0. /\ m \in Int /\ m1 \in Int /\ m2 \in Int /\ m3 \in Int /\ m4 \in Int /\ k \in Int
      /\ m = k - 31 /\ m1 = m + 1 /\ m2 = m1 + (2 - 1) /\ m3 = m2 + (32 - 5) /\ m4 = m3 + 1 /\ k = m4 + 1
      /\ 1 \in Int /\ 2 \in Int /\ 1 <= 2 /\ 5 \in Int /\ 32 \in Int /\ 5 <= 32 /\ 31 \in Int
  OBVIOUS
<1>a. m1 = m + 1 /\ m2 = m + 2 /\ m3 = m + 29 /\ m4 = m + 30 /\ k = m + 31
  OBVIOUS
<1> HIDE DEF m1, m2, m3, m4, s
<1>1. Below(Context(R, M), 31) = Ctx(R, <<t, m>>, M, s)
  <2>1. Below(Context(R, M), 31) = Ctx(R, <<t, m>>, M, <<t, m>>)
    BY BelowIs
  <2> QED BY <2>1 DEF s
<1>2. PICK M1 : /\ push32(Ctx(R, <<t, m>>, M, s), R[32]) = Ctx(R, <<t, m1>>, M1, s)
                /\ Put(M, M1, t, m, R[32])
  <2>1. PutAt(push32(Ctx(R, <<t, m>>, M, s), R[32]), R, M, t, m, m1, s, R[32])
    BY <1>0, Push32, Zenon
  <2> QED BY <2>1 DEF PutAt
<1>3. PICK M2 : /\ push(Ctx(R, <<t, m1>>, M1, s), 1, 2) = Ctx(R, <<t, m2>>, M2, s)
                /\ Copied(M1, M2, t, m1, R, 1, 2)
  <2>1. PushedTo(push(Ctx(R, <<t, m1>>, M1, s), 1, 2), R, M1, t, m1, m2, s, 1, 2)
    BY <1>0, <1>2, Push, Zenon DEF Put
  <2> QED BY <2>1 DEF PushedTo
<1>4. PICK M3 : /\ push(Ctx(R, <<t, m2>>, M2, s), 5, 32) = Ctx(R, <<t, m3>>, M3, s)
                /\ Copied(M2, M3, t, m2, R, 5, 32)
  <2>1. PushedTo(push(Ctx(R, <<t, m2>>, M2, s), 5, 32), R, M2, t, m2, m3, s, 5, 32)
    BY <1>0, <1>3, Push, Zenon DEF Copied
  <2> QED BY <2>1 DEF PushedTo
<1>5. PICK M4 : /\ push32(Ctx(R, <<t, m3>>, M3, s), ZERO) = Ctx(R, <<t, m4>>, M4, s)
                /\ Put(M3, M4, t, m3, ZERO)
  <2>1. PutAt(push32(Ctx(R, <<t, m3>>, M3, s), ZERO), R, M3, t, m3, m4, s, ZERO)
    BY <1>0, <1>4, Push32, Zenon DEF Copied
  <2> QED BY <2>1 DEF PutAt
<1>6. PICK N : /\ push32(Ctx(R, <<t, m4>>, M4, s), R[33]) = Ctx(R, <<t, k>>, N, s)
               /\ Put(M4, N, t, m4, R[33])
  <2>1. PutAt(push32(Ctx(R, <<t, m4>>, M4, s), R[33]), R, M4, t, m4, k, s, R[33])
    BY <1>0, <1>5, Push32, Zenon DEF Put
  <2> QED BY <2>1 DEF PutAt
<1>7. write_rv32_std(Context(R, M)) = Ctx(R, <<t, k>>, N, s)
  <2>1. Context(R, M).registers = R
    BY DEF Context
  <2> QED BY <1>1, <1>2, <1>3, <1>4, <1>5, <1>6, <2>1, Zenon DEF write_rv32_std, PC, MSTATUS
<1>8. Stacks(N) /\ OnlyStack(M, N, t)
  <2>1. OnlyStack(M, M2, t)
    BY <1>2, <1>3, OnlyStackTwice, Zenon DEF Copied, Put
  <2>2. OnlyStack(M, M3, t)
    BY <1>4, <2>1, OnlyStackTwice, Zenon DEF Copied
  <2>3. OnlyStack(M, M4, t)
    BY <1>5, <2>2, OnlyStackTwice, Zenon DEF Put
  <2> QED BY <1>6, <2>3, OnlyStackTwice, Zenon DEF Put
<1>9. \A x \in 0..(Depth - 1) :
         /\ N[t][x] = IF x = m4 THEN R[33] ELSE M4[t][x]
         /\ M4[t][x] = IF x = m3 THEN ZERO ELSE M3[t][x]
         /\ M3[t][x] = IF m2 <= x /\ x < m2 + (32 - 5) THEN R[5 + (x - m2)] ELSE M2[t][x]
         /\ M2[t][x] = IF m1 <= x /\ x < m1 + (2 - 1) THEN R[1 + (x - m1)] ELSE M1[t][x]
         /\ M1[t][x] = IF x = m THEN R[32] ELSE M[t][x]
  BY <1>2, <1>3, <1>4, <1>5, <1>6, Zenon DEF Copied, Put
<1>10. ASSUME 0 <= m, k <= Depth, NEW i \in 1..31
       PROVE  N[t][m + i - 1] = Entry(R, FALSE, Frame("rv32_std", FALSE)[i])
  <2> DEFINE x == m + i - 1
  <2>0. x \in 0..(Depth - 1) /\ x \in Int /\ m \in Int /\ x - m = i - 1
    BY <1>0, <1>a, <1>10, FrameAssumption
  <2> HIDE DEF x
  <2>1. CASE i = 1
    <3>1. /\ x # m4 /\ x # m3 /\ ~(m2 <= x /\ x < m2 + (32 - 5))
          /\ ~(m1 <= x /\ x < m1 + (2 - 1)) /\ x = m
      BY <1>a, <2>0, <2>1
    <3>2. N[t][x] = R[32]
      <4>1. N[t][x] = M4[t][x]
        BY <1>9, <2>0, <3>1
      <4>2. M4[t][x] = M3[t][x]
        BY <1>9, <2>0, <3>1
      <4>3. M3[t][x] = M2[t][x]
        BY <1>9, <2>0, <3>1
      <4>4. M2[t][x] = M1[t][x]
        BY <1>9, <2>0, <3>1
      <4>5. M1[t][x] = R[32]
        BY <1>9, <2>0, <3>1
      <4> QED BY <4>1, <4>2, <4>3, <4>4, <4>5
    <3>3. 32 \in 0..33
      OBVIOUS
    <3> QED BY <2>1, <3>2, <3>3, FrameRv32Std, Entries, ZenonT(60) DEF x
  <2>2. CASE i = 2
    <3>1. /\ x # m4 /\ x # m3 /\ ~(m2 <= x /\ x < m2 + (32 - 5))
          /\ m1 <= x /\ x < m1 + (2 - 1) /\ 1 + (x - m1) = 1
      BY <1>a, <2>0, <2>2
    <3>2. N[t][x] = R[1]
      <4>1. N[t][x] = M4[t][x]
        BY <1>9, <2>0, <3>1
      <4>2. M4[t][x] = M3[t][x]
        BY <1>9, <2>0, <3>1
      <4>3. M3[t][x] = M2[t][x]
        BY <1>9, <2>0, <3>1
      <4>4. M2[t][x] = R[1]
        BY <1>9, <2>0, <3>1
      <4> QED BY <4>1, <4>2, <4>3, <4>4
    <3>3. 1 \in 0..33
      OBVIOUS
    <3> QED BY <2>2, <3>2, <3>3, FrameRv32Std, Entries, ZenonT(60) DEF x
  <2>3. CASE i \in 3..29
    <3>1. /\ x # m4 /\ x # m3 /\ m2 <= x /\ x < m2 + (32 - 5) /\ 5 + (x - m2) = i + 2
      BY <1>a, <2>0, <2>3
    <3>2. N[t][x] = R[i + 2]
      <4>1. N[t][x] = M4[t][x]
        BY <1>9, <2>0, <3>1
      <4>2. M4[t][x] = M3[t][x]
        BY <1>9, <2>0, <3>1
      <4>3. M3[t][x] = R[i + 2]
        BY <1>9, <2>0, <3>1
      <4> QED BY <4>1, <4>2, <4>3
    <3>3. Frame("rv32_std", FALSE)[i] = i + 2
      BY <2>3, FrameRv32Std, Zenon
    <3>4. i + 2 \in 0..33
      BY <2>3
    <3> QED BY <3>2, <3>3, <3>4, Entries, Zenon DEF x
  <2>4. CASE i = 30
    <3>1. x # m4 /\ x = m3
      BY <1>a, <2>0, <2>4
    <3>2. N[t][x] = ZERO
      BY <1>9, <2>0, <3>1, Zenon
    <3> QED BY <2>4, <3>2, FrameRv32Std, Entries, ZenonT(60) DEF x
  <2>5. CASE i = 31
    <3>1. x = m4
      BY <1>a, <2>0, <2>5
    <3>2. N[t][x] = R[33]
      BY <1>9, <2>0, <3>1, Zenon
    <3>3. 33 \in 0..33
      OBVIOUS
    <3> QED BY <2>5, <3>2, <3>3, FrameRv32Std, Entries, ZenonT(60) DEF x
  <2>6. i = 1 \/ i = 2 \/ i \in 3..29 \/ i = 30 \/ i = 31
    BY <1>10
  <2> QED BY <2>1, <2>2, <2>3, <2>4, <2>5, <2>6, Zenon
<1>11. 0 <= m /\ k <= Depth => FrameIn(N, t, m, R, "rv32_std", 31)
  BY <1>10 DEF FrameIn
<1> QED BY <1>7, <1>8, <1>11 DEF Saves, s

LEMMA WriteCh32 ==
  ASSUME NEW R, NEW M, Stacks(M), NEW t \in Tcb, NEW k \in Int, R[2] = <<t, k>>,
         NEW m, m = k - 30, NEW p \in {"ch32", "ch32_fpu"}
  PROVE  Saves(write_ch32(Context(R, M)), R, M, t, k, m, 2, p, 30)
<1> DEFINE m1 == k - 29
           m2 == k - 28
           m3 == k - 27
           s  == <<t, m>>
           w  == ClearFS(R[33])
<1>0. /\ m \in Int /\ m1 \in Int /\ m2 \in Int /\ m3 \in Int /\ k \in Int
      /\ m = k - 30 /\ m1 = m + 1 /\ m2 = m1 + 1 /\ m3 = m2 + (2 - 1) /\ k = m3 + (32 - 5)
      /\ 1 \in Int /\ 2 \in Int /\ 1 <= 2 /\ 5 \in Int /\ 32 \in Int /\ 5 <= 32
  OBVIOUS
<1>a. m1 = m + 1 /\ m2 = m + 2 /\ m3 = m + 3 /\ k = m + 30
  OBVIOUS
<1> HIDE DEF m1, m2, m3, s, w
<1>1. Below(Context(R, M), 30) = Ctx(R, <<t, m>>, M, s)
  <2>1. Below(Context(R, M), 30) = Ctx(R, <<t, m>>, M, <<t, m>>)
    BY BelowIs
  <2> QED BY <2>1 DEF s
<1>2. PICK M1 : /\ push32(Ctx(R, <<t, m>>, M, s), R[32]) = Ctx(R, <<t, m1>>, M1, s)
                /\ Put(M, M1, t, m, R[32])
  <2>1. PutAt(push32(Ctx(R, <<t, m>>, M, s), R[32]), R, M, t, m, m1, s, R[32])
    BY <1>0, Push32, Zenon
  <2> QED BY <2>1 DEF PutAt
<1>3. PICK M2 : /\ push32(Ctx(R, <<t, m1>>, M1, s), w) = Ctx(R, <<t, m2>>, M2, s)
                /\ Put(M1, M2, t, m1, w)
  <2>1. PutAt(push32(Ctx(R, <<t, m1>>, M1, s), w), R, M1, t, m1, m2, s, w)
    BY <1>0, <1>2, Push32, Zenon DEF Put
  <2> QED BY <2>1 DEF PutAt
<1>4. PICK M3 : /\ push(Ctx(R, <<t, m2>>, M2, s), 1, 2) = Ctx(R, <<t, m3>>, M3, s)
                /\ Copied(M2, M3, t, m2, R, 1, 2)
  <2>1. PushedTo(push(Ctx(R, <<t, m2>>, M2, s), 1, 2), R, M2, t, m2, m3, s, 1, 2)
    BY <1>0, <1>3, Push, Zenon DEF Put
  <2> QED BY <2>1 DEF PushedTo
<1>5. PICK N : /\ push(Ctx(R, <<t, m3>>, M3, s), 5, 32) = Ctx(R, <<t, k>>, N, s)
               /\ Copied(M3, N, t, m3, R, 5, 32)
  <2>1. PushedTo(push(Ctx(R, <<t, m3>>, M3, s), 5, 32), R, M3, t, m3, k, s, 5, 32)
    BY <1>0, <1>4, Push, Zenon DEF Copied
  <2> QED BY <2>1 DEF PushedTo
<1>6. write_ch32(Context(R, M)) = Ctx(R, <<t, k>>, N, s)
  <2>1. Context(R, M).registers = R
    BY DEF Context
  <2> QED BY <1>1, <1>2, <1>3, <1>4, <1>5, <2>1, Zenon DEF write_ch32, PC, MSTATUS, w
<1>7. Stacks(N) /\ OnlyStack(M, N, t)
  <2>1. OnlyStack(M, M2, t)
    BY <1>2, <1>3, OnlyStackTwice, Zenon DEF Put
  <2>2. OnlyStack(M, M3, t)
    BY <1>4, <2>1, OnlyStackTwice, Zenon DEF Copied
  <2> QED BY <1>5, <2>2, OnlyStackTwice, Zenon DEF Copied
<1>8. \A x \in 0..(Depth - 1) :
         /\ N[t][x] = IF m3 <= x /\ x < m3 + (32 - 5) THEN R[5 + (x - m3)] ELSE M3[t][x]
         /\ M3[t][x] = IF m2 <= x /\ x < m2 + (2 - 1) THEN R[1 + (x - m2)] ELSE M2[t][x]
         /\ M2[t][x] = IF x = m1 THEN w ELSE M1[t][x]
         /\ M1[t][x] = IF x = m THEN R[32] ELSE M[t][x]
  BY <1>2, <1>3, <1>4, <1>5, Zenon DEF Copied, Put
<1>9. ASSUME 0 <= m, k <= Depth, Tidy(R, p), NEW i \in 1..30
      PROVE  N[t][m + i - 1] = Entry(R, FALSE, Frame(p, FALSE)[i])
  <2> DEFINE x == m + i - 1
  <2>0. x \in 0..(Depth - 1) /\ x \in Int /\ m \in Int /\ x - m = i - 1
    BY <1>0, <1>a, <1>9, FrameAssumption
  <2> HIDE DEF x
  <2>1. CASE i = 1
    <3>1. /\ ~(m3 <= x /\ x < m3 + (32 - 5)) /\ ~(m2 <= x /\ x < m2 + (2 - 1))
          /\ x # m1 /\ x = m
      BY <1>a, <2>0, <2>1
    <3>2. N[t][x] = R[32]
      <4>1. N[t][x] = M3[t][x]
        BY <1>8, <2>0, <3>1
      <4>2. M3[t][x] = M2[t][x]
        BY <1>8, <2>0, <3>1
      <4>3. M2[t][x] = M1[t][x]
        BY <1>8, <2>0, <3>1
      <4>4. M1[t][x] = R[32]
        BY <1>8, <2>0, <3>1
      <4> QED BY <4>1, <4>2, <4>3, <4>4
    <3>3. 32 \in 0..33
      OBVIOUS
    <3> QED BY <2>1, <3>2, <3>3, FrameCh32, Entries, ZenonT(60) DEF x
  <2>2. CASE i = 2
    <3>1. ~(m3 <= x /\ x < m3 + (32 - 5)) /\ ~(m2 <= x /\ x < m2 + (2 - 1)) /\ x = m1
      BY <1>a, <2>0, <2>2
    <3>2. N[t][x] = w
      <4>1. N[t][x] = M3[t][x]
        BY <1>8, <2>0, <3>1
      <4>2. M3[t][x] = M2[t][x]
        BY <1>8, <2>0, <3>1
      <4>3. M2[t][x] = w
        BY <1>8, <2>0, <3>1
      <4> QED BY <4>1, <4>2, <4>3
    <3>3. 33 \in 0..33 /\ w = R[33]
      BY <1>9 DEF Tidy, w, MSTATUS
    <3>4. Frame(p, FALSE)[i] = 33
      BY <2>2, FrameCh32, Zenon
    <3>5. Entry(R, FALSE, 33) = R[33]
      BY <3>3, Entries, Zenon
    <3> QED BY <3>2, <3>3, <3>4, <3>5 DEF x
  <2>3. CASE i = 3
    <3>1. ~(m3 <= x /\ x < m3 + (32 - 5)) /\ m2 <= x /\ x < m2 + (2 - 1) /\ 1 + (x - m2) = 1
      BY <1>a, <2>0, <2>3
    <3>2. N[t][x] = R[1]
      <4>1. N[t][x] = M3[t][x]
        BY <1>8, <2>0, <3>1
      <4>2. M3[t][x] = R[1]
        BY <1>8, <2>0, <3>1
      <4> QED BY <4>1, <4>2
    <3>3. 1 \in 0..33
      OBVIOUS
    <3> QED BY <2>3, <3>2, <3>3, FrameCh32, Entries, ZenonT(60) DEF x
  <2>4. CASE i \in 4..30
    <3>1. m3 <= x /\ x < m3 + (32 - 5) /\ 5 + (x - m3) = i + 1
      BY <1>a, <2>0, <2>4
    <3>2. N[t][x] = R[i + 1]
      BY <1>8, <2>0, <3>1
    <3>3. Frame(p, FALSE)[i] = i + 1
      BY <2>4, FrameCh32, Zenon
    <3>4. i + 1 \in 0..33
      BY <2>4
    <3> QED BY <3>2, <3>3, <3>4, Entries, Zenon DEF x
  <2>5. i = 1 \/ i = 2 \/ i = 3 \/ i \in 4..30
    BY <1>9
  <2> QED BY <2>1, <2>2, <2>3, <2>4, <2>5, Zenon
<1>10. 0 <= m /\ k <= Depth /\ Tidy(R, p) => FrameIn(N, t, m, R, p, 30)
  BY <1>9 DEF FrameIn
<1> QED BY <1>6, <1>7, <1>10 DEF Saves, s

-----------------------------------------------------------------------------
(* What the handlers read.                                                 *)

IsOn(P, S) == P = [r \in S |-> P[r]]

\* Registers first..(last - 1) have been popped at word n of stack u
Popped(P, Q, M, u, n, first, last, S) ==
  /\ IsOn(P, S)
  /\ \A r \in S : P[r] = IF first <= r /\ r < last THEN M[u][n + (r - first)] ELSE Q[r]
PopsTo(d, Q, M, u, n, m, s, first, last, S) ==
  \E P : d = Ctx(P, <<u, m>>, M, s) /\ Popped(P, Q, M, u, n, first, last, S)

LEMMA Pop ==
  ASSUME NEW Q, NEW S \in SUBSET Int, DOMAIN Q = S, NEW M, NEW u, NEW n \in Int, NEW s,
         NEW first \in Int, NEW last \in Int, NEW m, m = n + (last - first)
  PROVE  PopsTo(pop_ascending(Ctx(Q, <<u, n>>, M, s), first, last), Q, M, u, n, m, s, first, last, S)
<1> DEFINE c == Ctx(Q, <<u, n>>, M, s)
           P == [r \in S |-> IF r \in first..(last - 1) THEN Word(M, Move(<<u, n>>, r - first)) ELSE Q[r]]
<1>1. c.registers = Q /\ c.pointer = <<u, n>> /\ c.mem = M
  BY DEF Ctx
<1>2. [[c EXCEPT !.registers = P] EXCEPT !.pointer = <<u, m>>] = Ctx(P, <<u, m>>, M, s)
  <2> HIDE DEF P
  <2>1. [c EXCEPT !.registers = P] = Ctx(P, <<u, n>>, M, s)
    BY DEF Ctx
  <2>2. [Ctx(P, <<u, n>>, M, s) EXCEPT !.pointer = <<u, m>>] = Ctx(P, <<u, m>>, M, s)
    BY DEF Ctx
  <2> QED BY <2>1, <2>2
<1>3. Move(<<u, n>>, last - first) = <<u, m>>
  BY DEF Move
<1>4. pop_ascending(c, first, last) = Ctx(P, <<u, m>>, M, s)
  <2> DEFINE W == [r \in DOMAIN c.registers |-> IF r \in first..(last - 1)
                                     THEN Word(c.mem, Move(c.pointer, r - first)) ELSE c.registers[r]]
  <2>1. W = P
    <3> HIDE DEF c
    <3> QED BY <1>1
  <2>2. pop_ascending(c, first, last)
          = [[c EXCEPT !.registers = W] EXCEPT !.pointer = Move(c.pointer, last - first)]
    <3> HIDE DEF c
    <3> QED BY Zenon DEF pop_ascending
  <2> HIDE DEF W, P, c
  <2> QED BY <1>1, <1>2, <1>3, <2>1, <2>2
<1>5. ASSUME NEW r \in S
      PROVE  P[r] = IF first <= r /\ r < last THEN M[u][n + (r - first)] ELSE Q[r]
  <2>1. Word(M, Move(<<u, n>>, r - first)) = M[u][n + (r - first)]
    BY DEF Word, Move
  <2>2. r \in first..(last - 1) <=> first <= r /\ r < last
    OBVIOUS
  <2>3. P[r] = IF r \in first..(last - 1) THEN Word(M, Move(<<u, n>>, r - first)) ELSE Q[r]
    OBVIOUS
  <2> HIDE DEF P
  <2> QED BY <2>1, <2>2, <2>3
<1>6. IsOn(P, S)
  BY DEF IsOn
<1> HIDE DEF c, P
<1>7. Popped(P, Q, M, u, n, first, last, S)
  BY <1>5, <1>6 DEF Popped
<1> QED BY <1>4, <1>7 DEF PopsTo, c

\* What a handler reads of a frame at word n of stack u: the pointer is on that
\* stack, the registers that no frame holds are those it held, and the others
\* those of the frame, if it is one of the port
Loads(L, Q, M, u, n, R, p, sp, size, S) ==
  /\ IsOn(L, S)
  /\ \E x \in Int : L[sp] = <<u, x>>
  /\ S = RiscvReg => L[3] = Q[3] /\ L[4] = Q[4]
  /\ FrameIn(M, u, n, R, p, size) /\ Tidy(R, p) =>
       /\ L[sp] = <<u, n + size>>
       /\ \A r \in S \ {sp} : L[r] = R[r] \/ (S = RiscvReg /\ r \in {3, 4})

\* The registers of the frame that the core saves, and the others of an ARM core
ByCore == {0, 1, 2, 3, 12, 14, 15, 16}
ExceptionPops(d, Q, M, u, n, m, s, R) ==
  \E P : /\ d = Ctx(P, <<u, m>>, M, s) /\ IsOn(P, ArmReg)
         /\ \A r \in 4..11 : P[r] = Q[r]
         /\ ExceptionFrame(M, u, n, R) => \A r \in ByCore : P[r] = R[r]

LEMMA PopExceptionFrame ==
  ASSUME NEW Q, DOMAIN Q = ArmReg, NEW M, NEW u, NEW n \in Int, NEW s, NEW m, m = n + 8, NEW R
  PROVE  ExceptionPops(pop_exception_frame(Ctx(Q, <<u, n>>, M, s)), Q, M, u, n, m, s, R)
<1> DEFINE n1 == n + 4
           n2 == n + 5
           n3 == n + 7
<1>0. /\ n1 \in Int /\ n1 = n + (4 - 0) /\ n2 \in Int /\ n2 = n1 + (13 - 12)
      /\ n3 \in Int /\ n3 = n2 + (16 - 14) /\ m \in Int /\ m = n3 + (17 - 16)
      /\ 0 \in Int /\ 4 \in Int /\ 12 \in Int /\ 13 \in Int /\ 14 \in Int /\ 16 \in Int /\ 17 \in Int
      /\ ArmReg \in SUBSET Int
  BY DEF ArmReg
<1>a. n1 = n + 4 /\ n2 = n + 5 /\ n3 = n + 7
  OBVIOUS
<1> HIDE DEF n1, n2, n3
<1>1. PICK P1 : /\ pop_ascending(Ctx(Q, <<u, n>>, M, s), 0, 4) = Ctx(P1, <<u, n1>>, M, s)
                /\ Popped(P1, Q, M, u, n, 0, 4, ArmReg)
  <2>1. PopsTo(pop_ascending(Ctx(Q, <<u, n>>, M, s), 0, 4), Q, M, u, n, n1, s, 0, 4, ArmReg)
    BY <1>0, Pop, Zenon
  <2> QED BY <2>1 DEF PopsTo
<1>2. PICK P2 : /\ pop_ascending(Ctx(P1, <<u, n1>>, M, s), 12, 13) = Ctx(P2, <<u, n2>>, M, s)
                /\ Popped(P2, P1, M, u, n1, 12, 13, ArmReg)
  <2>1. DOMAIN P1 = ArmReg
    BY <1>1 DEF Popped, IsOn
  <2>2. PopsTo(pop_ascending(Ctx(P1, <<u, n1>>, M, s), 12, 13), P1, M, u, n1, n2, s, 12, 13, ArmReg)
    BY <1>0, <2>1, Pop, Zenon
  <2> QED BY <2>2 DEF PopsTo
<1>3. PICK P3 : /\ pop_ascending(Ctx(P2, <<u, n2>>, M, s), 14, 16) = Ctx(P3, <<u, n3>>, M, s)
                /\ Popped(P3, P2, M, u, n2, 14, 16, ArmReg)
  <2>1. DOMAIN P2 = ArmReg
    BY <1>2 DEF Popped, IsOn
  <2>2. PopsTo(pop_ascending(Ctx(P2, <<u, n2>>, M, s), 14, 16), P2, M, u, n2, n3, s, 14, 16, ArmReg)
    BY <1>0, <2>1, Pop, Zenon
  <2> QED BY <2>2 DEF PopsTo
<1>4. PICK P : /\ pop_ascending(Ctx(P3, <<u, n3>>, M, s), 16, 17) = Ctx(P, <<u, m>>, M, s)
               /\ Popped(P, P3, M, u, n3, 16, 17, ArmReg)
  <2>1. DOMAIN P3 = ArmReg
    BY <1>3 DEF Popped, IsOn
  <2>2. PopsTo(pop_ascending(Ctx(P3, <<u, n3>>, M, s), 16, 17), P3, M, u, n3, m, s, 16, 17, ArmReg)
    BY <1>0, <2>1, Pop, Zenon
  <2> QED BY <2>2 DEF PopsTo
<1>5. pop_exception_frame(Ctx(Q, <<u, n>>, M, s)) = Ctx(P, <<u, m>>, M, s)
  BY <1>1, <1>2, <1>3, <1>4, Zenon DEF pop_exception_frame
<1>6. \A r \in 0..16 :
        /\ P1[r] = IF 0 <= r /\ r < 4 THEN M[u][n + (r - 0)] ELSE Q[r]
        /\ P2[r] = IF 12 <= r /\ r < 13 THEN M[u][n1 + (r - 12)] ELSE P1[r]
        /\ P3[r] = IF 14 <= r /\ r < 16 THEN M[u][n2 + (r - 14)] ELSE P2[r]
        /\ P[r] = IF 16 <= r /\ r < 17 THEN M[u][n3 + (r - 16)] ELSE P3[r]
  BY <1>1, <1>2, <1>3, <1>4, Zenon DEF Popped, ArmReg
<1>7. ASSUME NEW r \in 4..11 PROVE P[r] = Q[r]
  <2>1. P1[r] = Q[r] /\ P2[r] = P1[r]
    BY <1>6
  <2>2. P3[r] = P2[r] /\ P[r] = P3[r]
    BY <1>6
  <2> QED BY <2>1, <2>2
<1>8. ASSUME ExceptionFrame(M, u, n, R), NEW r \in ByCore PROVE P[r] = R[r]
  <2>0. \A i \in 1..8 : M[u][n + i - 1] = R[Hardware[i]]
    BY <1>8 DEF ExceptionFrame
  <2>1. CASE r \in 0..3
    <3>1. P1[r] = M[u][n + (r - 0)] /\ P2[r] = P1[r]
      BY <1>6, <2>1
    <3>2. P3[r] = P2[r] /\ P[r] = P3[r]
      BY <1>6, <2>1
    <3>3. r + 1 \in 1..8 /\ n + (r + 1) - 1 = n + (r - 0) /\ r + 1 \in 1..4 /\ (r + 1) - 1 = r
      BY <2>1
    <3>4. M[u][n + (r + 1) - 1] = R[Hardware[r + 1]]
      BY <2>0, <3>3, Zenon
    <3>5. Hardware[r + 1] = (r + 1) - 1
      BY <3>3, HardwareIs, Zenon
    <3> QED BY <3>1, <3>2, <3>3, <3>4, <3>5
  <2>2. CASE r = 12
    <3>1. P2[12] = M[u][n1 + (12 - 12)] /\ P3[12] = P2[12] /\ P[12] = P3[12]
      BY <1>6
    <3>2. n1 + (12 - 12) = n + 5 - 1
      BY <1>a
    <3>3. M[u][n + 5 - 1] = R[Hardware[5]]
      BY <2>0
    <3> QED BY <2>2, <3>1, <3>2, <3>3, HardwareIs
  <2>3. CASE r = 14
    <3>1. P3[14] = M[u][n2 + (14 - 14)] /\ P[14] = P3[14]
      BY <1>6
    <3>2. n2 + (14 - 14) = n + 6 - 1
      BY <1>a
    <3>3. M[u][n + 6 - 1] = R[Hardware[6]]
      BY <2>0
    <3> QED BY <2>3, <3>1, <3>2, <3>3, HardwareIs
  <2>4. CASE r = 15
    <3>1. P3[15] = M[u][n2 + (15 - 14)] /\ P[15] = P3[15]
      BY <1>6
    <3>2. n2 + (15 - 14) = n + 7 - 1
      BY <1>a
    <3>3. M[u][n + 7 - 1] = R[Hardware[7]]
      BY <2>0
    <3> QED BY <2>4, <3>1, <3>2, <3>3, HardwareIs
  <2>5. CASE r = 16
    <3>1. P[16] = M[u][n3 + (16 - 16)]
      BY <1>6
    <3>2. n3 + (16 - 16) = n + 8 - 1
      BY <1>a
    <3>3. M[u][n + 8 - 1] = R[Hardware[8]]
      BY <2>0
    <3> QED BY <2>5, <3>1, <3>2, <3>3, HardwareIs
  <2>6. r \in 0..3 \/ r = 12 \/ r = 14 \/ r = 15 \/ r = 16
    BY <1>8 DEF ByCore
  <2> QED BY <2>1, <2>2, <2>3, <2>4, <2>5, <2>6, Zenon
<1>9. IsOn(P, ArmReg)
  BY <1>4 DEF Popped
<1> QED BY <1>5, <1>7, <1>8, <1>9 DEF ExceptionPops

\* r4..r11 popped at word a, the registers of the exception frame at word h
LowWords(M, u, a, R) == \A r \in 4..11 : M[u][a + (r - 4)] = R[r]
ArmReads(Q, M, u, a, b, h, m, R, s) ==
  \E P, L :
     /\ pop_ascending(Ctx(Q, <<u, a>>, M, s), 4, 12) = Ctx(P, <<u, b>>, M, s)
     /\ Lowered(pop_exception_frame(Ctx(P, <<u, h>>, M, s))) = Ctx(L, <<u, m>>, M, <<u, m>>)
     /\ IsOn(L, ArmReg) /\ L[13] = <<u, m>>
     /\ LowWords(M, u, a, R) /\ ExceptionFrame(M, u, h, R) => \A r \in ArmReg \ {13} : L[r] = R[r]

LEMMA ArmRead ==
  ASSUME NEW Q, DOMAIN Q = ArmReg, NEW M, NEW u, NEW a \in Int, NEW b, b = a + 8,
         NEW h \in Int, NEW m, m = h + 8, NEW R, NEW s
  PROVE  ArmReads(Q, M, u, a, b, h, m, R, s)
<1>0. 4 \in Int /\ 12 \in Int /\ b = a + (12 - 4) /\ ArmReg \in SUBSET Int
  BY DEF ArmReg
<1>1. PICK P : /\ pop_ascending(Ctx(Q, <<u, a>>, M, s), 4, 12) = Ctx(P, <<u, b>>, M, s)
               /\ Popped(P, Q, M, u, a, 4, 12, ArmReg)
  <2>1. PopsTo(pop_ascending(Ctx(Q, <<u, a>>, M, s), 4, 12), Q, M, u, a, b, s, 4, 12, ArmReg)
    BY <1>0, Pop, Zenon
  <2> QED BY <2>1 DEF PopsTo
<1>2. PICK E : /\ pop_exception_frame(Ctx(P, <<u, h>>, M, s)) = Ctx(E, <<u, m>>, M, s) /\ IsOn(E, ArmReg)
               /\ \A r \in 4..11 : E[r] = P[r]
               /\ ExceptionFrame(M, u, h, R) => \A r \in ByCore : E[r] = R[r]
  <2>1. DOMAIN P = ArmReg
    BY <1>1 DEF Popped, IsOn
  <2>2. ExceptionPops(pop_exception_frame(Ctx(P, <<u, h>>, M, s)), P, M, u, h, m, s, R)
    BY <2>1, PopExceptionFrame, Zenon
  <2> QED BY <2>2 DEF ExceptionPops
<1> DEFINE L == [E EXCEPT ![13] = <<u, m>>]
<1>3. Lowered(pop_exception_frame(Ctx(P, <<u, h>>, M, s))) = Ctx(L, <<u, m>>, M, <<u, m>>)
  BY <1>2, LoweredIs
<1>4. IsOn(L, ArmReg) /\ L[13] = <<u, m>> /\ \A r \in ArmReg \ {13} : L[r] = E[r]
  <2>1. DOMAIN E = ArmReg /\ 13 \in ArmReg
    BY <1>2 DEF IsOn, ArmReg
  <2> QED BY <2>1 DEF IsOn
<1> HIDE DEF L
<1>5. ASSUME LowWords(M, u, a, R), ExceptionFrame(M, u, h, R), NEW r \in ArmReg \ {13}
      PROVE  L[r] = R[r]
  <2>1. L[r] = E[r]
    BY <1>4
  <2>2. CASE r \in 4..11
    <3>1. 4 <= r /\ r < 12 /\ r \in ArmReg
      BY <2>2
    <3>2. P[r] = M[u][a + (r - 4)]
      BY <1>1, <3>1 DEF Popped
    <3>3. M[u][a + (r - 4)] = R[r]
      BY <1>5, <2>2, Zenon DEF LowWords
    <3> QED BY <1>2, <2>1, <2>2, <3>2, <3>3
  <2>3. CASE r \in ByCore
    BY <1>2, <1>5, <2>1, <2>3
  <2>4. r \in 4..11 \/ r \in ByCore
    BY DEF ArmReg, ByCore
  <2> QED BY <2>2, <2>3, <2>4
<1> QED BY <1>1, <1>3, <1>4, <1>5 DEF ArmReads

LEMMA ArmFrames ==
  ASSUME NEW M, NEW u, NEW n \in Int, NEW R
  PROVE  /\ FrameIn(M, u, n, R, "m3", 16) => LowWords(M, u, n, R) /\ ExceptionFrame(M, u, n + 8, R)
         /\ FrameIn(M, u, n, R, "m4f", 17) =>
              /\ LowWords(M, u, n, R) /\ ExceptionFrame(M, u, n + 9, R)
              /\ M[u][n + 8] = EXC_RETURN
         /\ FrameIn(M, u, n, R, "m33", 18) => LowWords(M, u, n + 2, R) /\ ExceptionFrame(M, u, n + 10, R)
<1>1. ASSUME FrameIn(M, u, n, R, "m3", 16)
      PROVE  LowWords(M, u, n, R) /\ ExceptionFrame(M, u, n + 8, R)
  <2>0. \A i \in 1..16 : M[u][n + i - 1] = Entry(R, FALSE, Frame("m3", FALSE)[i])
    BY <1>1 DEF FrameIn
  <2>1. ASSUME NEW r \in 4..11 PROVE M[u][n + (r - 4)] = R[r]
    <3>1. r - 3 \in 1..16 /\ r - 3 \in 1..8 /\ n + (r - 3) - 1 = n + (r - 4) /\ (r - 3) + 3 = r /\ r \in 0..33
      OBVIOUS
    <3>2. M[u][n + (r - 3) - 1] = Entry(R, FALSE, Frame("m3", FALSE)[r - 3])
      BY <2>0, <3>1, Zenon
    <3>3. Frame("m3", FALSE)[r - 3] = (r - 3) + 3
      BY <3>1, FrameM3, Zenon
    <3>4. Entry(R, FALSE, r) = R[r]
      BY <3>1, Entries, Zenon
    <3> QED BY <3>1, <3>2, <3>3, <3>4
  <2>2. ASSUME NEW i \in 1..8 PROVE M[u][n + 8 + i - 1] = R[Hardware[i]]
    <3>1. i + 8 \in 1..16 /\ i + 8 \in 9..16 /\ n + (i + 8) - 1 = n + 8 + i - 1 /\ (i + 8) - 8 = i
      OBVIOUS
    <3>2. M[u][n + (i + 8) - 1] = Entry(R, FALSE, Frame("m3", FALSE)[i + 8])
      BY <2>0, <3>1, Zenon
    <3>3. Frame("m3", FALSE)[i + 8] = Hardware[(i + 8) - 8]
      BY <3>1, FrameM3, Zenon
    <3>4. Hardware[i] \in 0..33
      BY HardwareRegisters
    <3>5. Entry(R, FALSE, Hardware[i]) = R[Hardware[i]]
      BY <3>4, Entries, Zenon
    <3> QED BY <3>1, <3>2, <3>3, <3>5
  <2> QED BY <2>1, <2>2 DEF LowWords, ExceptionFrame
<1>2. ASSUME FrameIn(M, u, n, R, "m4f", 17)
      PROVE  /\ LowWords(M, u, n, R) /\ ExceptionFrame(M, u, n + 9, R)
             /\ M[u][n + 8] = EXC_RETURN
  <2>0. \A i \in 1..17 : M[u][n + i - 1] = Entry(R, FALSE, Frame("m4f", FALSE)[i])
    BY <1>2 DEF FrameIn
  <2>1. ASSUME NEW r \in 4..11 PROVE M[u][n + (r - 4)] = R[r]
    <3>1. r - 3 \in 1..17 /\ r - 3 \in 1..8 /\ n + (r - 3) - 1 = n + (r - 4) /\ (r - 3) + 3 = r /\ r \in 0..33
      OBVIOUS
    <3>2. M[u][n + (r - 3) - 1] = Entry(R, FALSE, Frame("m4f", FALSE)[r - 3])
      BY <2>0, <3>1, Zenon
    <3>3. Frame("m4f", FALSE)[r - 3] = (r - 3) + 3
      BY <3>1, FrameM4f, Zenon
    <3>4. Entry(R, FALSE, r) = R[r]
      BY <3>1, Entries, Zenon
    <3> QED BY <3>1, <3>2, <3>3, <3>4
  <2>2. ASSUME NEW i \in 1..8 PROVE M[u][n + 9 + i - 1] = R[Hardware[i]]
    <3>1. i + 9 \in 1..17 /\ i + 9 \in 10..17 /\ n + (i + 9) - 1 = n + 9 + i - 1 /\ (i + 9) - 9 = i
      OBVIOUS
    <3>2. M[u][n + (i + 9) - 1] = Entry(R, FALSE, Frame("m4f", FALSE)[i + 9])
      BY <2>0, <3>1, Zenon
    <3>3. Frame("m4f", FALSE)[i + 9] = Hardware[(i + 9) - 9]
      BY <3>1, FrameM4f, Zenon
    <3>4. Hardware[i] \in 0..33
      BY HardwareRegisters
    <3>5. Entry(R, FALSE, Hardware[i]) = R[Hardware[i]]
      BY <3>4, Entries, Zenon
    <3> QED BY <3>1, <3>2, <3>3, <3>5
  <2>3. M[u][n + 8] = EXC_RETURN
    <3>1. 9 \in 1..17 /\ n + 9 - 1 = n + 8
      OBVIOUS
    <3>2. M[u][n + 9 - 1] = Entry(R, FALSE, Frame("m4f", FALSE)[9])
      BY <2>0, <3>1, Zenon
    <3> QED BY <3>1, <3>2, FrameM4f, Entries, Zenon
  <2> QED BY <2>1, <2>2, <2>3 DEF LowWords, ExceptionFrame
<1>3. ASSUME FrameIn(M, u, n, R, "m33", 18)
      PROVE  LowWords(M, u, n + 2, R) /\ ExceptionFrame(M, u, n + 10, R)
  <2>0. \A i \in 1..18 : M[u][n + i - 1] = Entry(R, FALSE, Frame("m33", FALSE)[i])
    BY <1>3 DEF FrameIn
  <2>1. ASSUME NEW r \in 4..11 PROVE M[u][n + 2 + (r - 4)] = R[r]
    <3>1. r - 1 \in 1..18 /\ r - 1 \in 3..10 /\ n + (r - 1) - 1 = n + 2 + (r - 4) /\ (r - 1) + 1 = r /\ r \in 0..33
      OBVIOUS
    <3>2. M[u][n + (r - 1) - 1] = Entry(R, FALSE, Frame("m33", FALSE)[r - 1])
      BY <2>0, <3>1, Zenon
    <3>3. Frame("m33", FALSE)[r - 1] = (r - 1) + 1
      BY <3>1, FrameM33, Zenon
    <3>4. Entry(R, FALSE, r) = R[r]
      BY <3>1, Entries, Zenon
    <3> QED BY <3>1, <3>2, <3>3, <3>4
  <2>2. ASSUME NEW i \in 1..8 PROVE M[u][n + 10 + i - 1] = R[Hardware[i]]
    <3>1. i + 10 \in 1..18 /\ i + 10 \in 11..18 /\ n + (i + 10) - 1 = n + 10 + i - 1 /\ (i + 10) - 10 = i
      OBVIOUS
    <3>2. M[u][n + (i + 10) - 1] = Entry(R, FALSE, Frame("m33", FALSE)[i + 10])
      BY <2>0, <3>1, Zenon
    <3>3. Frame("m33", FALSE)[i + 10] = Hardware[(i + 10) - 10]
      BY <3>1, FrameM33, Zenon
    <3>4. Hardware[i] \in 0..33
      BY HardwareRegisters
    <3>5. Entry(R, FALSE, Hardware[i]) = R[Hardware[i]]
      BY <3>4, Entries, Zenon
    <3> QED BY <3>1, <3>2, <3>3, <3>5
  <2> QED BY <2>1, <2>2 DEF LowWords, ExceptionFrame
<1> QED BY <1>1, <1>2, <1>3

LEMMA AtAddress ==
  ASSUME NEW Q, NEW q, NEW M, NEW s, NEW p
  PROVE  [Ctx(Q, q, M, s) EXCEPT !.pointer = p] = Ctx(Q, p, M, s)
BY DEF Ctx

LEMMA ReadM3 ==
  ASSUME NEW Q, DOMAIN Q = ArmReg, NEW q, NEW M, NEW s, NEW u, NEW n \in Int, NEW R
  PROVE  Loads(read_m3(Ctx(Q, q, M, s), <<u, n>>).registers, Q, M, u, n, R, "m3", 13, 16, ArmReg)
<1> DEFINE b == n + 8
           m == n + 16
<1>0. b \in Int /\ b = n + 8 /\ m \in Int /\ m = b + 8
  OBVIOUS
<1>a. m = n + 16
  OBVIOUS
<1> HIDE DEF b, m
<1>1. PICK P, L : /\ pop_ascending(Ctx(Q, <<u, n>>, M, s), 4, 12) = Ctx(P, <<u, b>>, M, s)
                  /\ Lowered(pop_exception_frame(Ctx(P, <<u, b>>, M, s))) = Ctx(L, <<u, m>>, M, <<u, m>>)
                  /\ IsOn(L, ArmReg) /\ L[13] = <<u, m>>
                  /\ LowWords(M, u, n, R) /\ ExceptionFrame(M, u, b, R) =>
                       \A r \in ArmReg \ {13} : L[r] = R[r]
  <2>1. ArmReads(Q, M, u, n, b, b, m, R, s)
    BY <1>0, ArmRead, Zenon
  <2> QED BY <2>1 DEF ArmReads
<1>2. read_m3(Ctx(Q, q, M, s), <<u, n>>) = Ctx(L, <<u, m>>, M, <<u, m>>)
  <2>1. [Ctx(Q, q, M, s) EXCEPT !.pointer = <<u, n>>] = Ctx(Q, <<u, n>>, M, s)
    BY AtAddress
  <2> QED BY <1>1, <2>1, Zenon DEF read_m3
<1>3. FrameIn(M, u, n, R, "m3", 16) => LowWords(M, u, n, R) /\ ExceptionFrame(M, u, b, R)
  BY ArmFrames DEF b
<1>7. \E x \in Int : L[13] = <<u, x>>
  BY <1>0, <1>1
<1>8. ArmReg # RiscvReg
  BY DEF ArmReg, RiscvReg
<1>9. Ctx(L, <<u, m>>, M, <<u, m>>).registers = L
  BY DEF Ctx
<1> QED BY <1>a, <1>1, <1>2, <1>3, <1>7, <1>8, <1>9 DEF Loads

LEMMA ReadM33 ==
  ASSUME NEW Q, DOMAIN Q = ArmReg, NEW q, NEW M, NEW s, NEW u, NEW n \in Int, NEW R
  PROVE  Loads(read_m33(Ctx(Q, q, M, s), <<u, n>>).registers, Q, M, u, n, R, "m33", 13, 18, ArmReg)
<1> DEFINE a == n + 2
           b == n + 10
           m == n + 18
<1>0. a \in Int /\ b \in Int /\ b = a + 8 /\ m \in Int /\ m = b + 8
  OBVIOUS
<1>a. m = n + 18
  OBVIOUS
<1> HIDE DEF b, m
<1>b. Move(<<u, n>>, 2) = <<u, a>>
  BY DEF Move
<1> HIDE DEF a
<1>1. PICK P, L : /\ pop_ascending(Ctx(Q, <<u, a>>, M, s), 4, 12) = Ctx(P, <<u, b>>, M, s)
                  /\ Lowered(pop_exception_frame(Ctx(P, <<u, b>>, M, s))) = Ctx(L, <<u, m>>, M, <<u, m>>)
                  /\ IsOn(L, ArmReg) /\ L[13] = <<u, m>>
                  /\ LowWords(M, u, a, R) /\ ExceptionFrame(M, u, b, R) =>
                       \A r \in ArmReg \ {13} : L[r] = R[r]
  <2>1. ArmReads(Q, M, u, a, b, b, m, R, s)
    BY <1>0, ArmRead, Zenon
  <2> QED BY <2>1 DEF ArmReads
<1>2. read_m33(Ctx(Q, q, M, s), <<u, n>>) = Ctx(L, <<u, m>>, M, <<u, m>>)
  <2>1. [Ctx(Q, q, M, s) EXCEPT !.pointer = <<u, a>>] = Ctx(Q, <<u, a>>, M, s)
    BY AtAddress
  <2> QED BY <1>b, <1>1, <2>1, Zenon DEF read_m33
<1>3. FrameIn(M, u, n, R, "m33", 18) => LowWords(M, u, a, R) /\ ExceptionFrame(M, u, b, R)
  BY ArmFrames DEF a, b
<1>7. \E x \in Int : L[13] = <<u, x>>
  BY <1>0, <1>1
<1>8. ArmReg # RiscvReg
  BY DEF ArmReg, RiscvReg
<1>9. Ctx(L, <<u, m>>, M, <<u, m>>).registers = L
  BY DEF Ctx
<1> QED BY <1>a, <1>1, <1>2, <1>3, <1>7, <1>8, <1>9 DEF Loads

LEMMA ReadM4f ==
  ASSUME NEW Q, DOMAIN Q = ArmReg, NEW q, NEW M, NEW s, NEW u, NEW n \in Int, NEW R
  PROVE  Loads(read_m4f(Ctx(Q, q, M, s), <<u, n>>).registers, Q, M, u, n, R, "m4f", 13, 17, ArmReg)
<1> DEFINE b    == n + 8
           skip == IF M[u][b] = EXC_RETURN_FPU THEN 17 ELSE 1
           h    == b + skip
           m    == h + 8
<1>0. b \in Int /\ b = n + 8 /\ h \in Int /\ m \in Int /\ m = h + 8
  OBVIOUS
<1>a. M[u][b] # EXC_RETURN_FPU => m = n + 17 /\ h = n + 9
  OBVIOUS
<1>b. /\ Move(<<u, b>>, skip) = <<u, h>> /\ Word(M, <<u, b>>) = M[u][b]
      /\ skip = IF M[u][b] = EXC_RETURN_FPU THEN 1 + 16 ELSE 1
  BY DEF Move, Word
<1> HIDE DEF b, skip, h, m
<1>1. PICK P, L : /\ pop_ascending(Ctx(Q, <<u, n>>, M, s), 4, 12) = Ctx(P, <<u, b>>, M, s)
                  /\ Lowered(pop_exception_frame(Ctx(P, <<u, h>>, M, s))) = Ctx(L, <<u, m>>, M, <<u, m>>)
                  /\ IsOn(L, ArmReg) /\ L[13] = <<u, m>>
                  /\ LowWords(M, u, n, R) /\ ExceptionFrame(M, u, h, R) =>
                       \A r \in ArmReg \ {13} : L[r] = R[r]
  <2>1. ArmReads(Q, M, u, n, b, h, m, R, s)
    BY <1>0, ArmRead, Zenon
  <2> QED BY <2>1 DEF ArmReads
<1>2. read_m4f(Ctx(Q, q, M, s), <<u, n>>) = Ctx(L, <<u, m>>, M, <<u, m>>)
  <2> DEFINE d == Ctx(P, <<u, b>>, M, s)
  <2>1. d.mem = M /\ d.pointer = <<u, b>>
    BY DEF Ctx
  <2>2. [d EXCEPT !.pointer = <<u, h>>] = Ctx(P, <<u, h>>, M, s)
    BY AtAddress
  <2>3. pop_ascending([Ctx(Q, q, M, s) EXCEPT !.pointer = <<u, n>>], 4, 12) = d
    BY <1>1, AtAddress
  <2> HIDE DEF d
  <2>4. (IF Word(d.mem, d.pointer) = EXC_RETURN_FPU THEN 1 + 16 ELSE 1) = skip
    BY <1>b, <2>1
  <2>5. [d EXCEPT !.pointer = Move(d.pointer, skip)] = Ctx(P, <<u, h>>, M, s)
    BY <1>b, <2>1, <2>2
  <2> QED BY <1>1, <2>3, <2>4, <2>5, Zenon DEF read_m4f
<1>3. FrameIn(M, u, n, R, "m4f", 17) =>
        LowWords(M, u, n, R) /\ ExceptionFrame(M, u, h, R) /\ m = n + 17
  <2>1. EXC_RETURN # EXC_RETURN_FPU
    BY DEF EXC_RETURN, EXC_RETURN_FPU
  <2>2. FrameIn(M, u, n, R, "m4f", 17) => M[u][b] = EXC_RETURN
    BY ArmFrames DEF b
  <2>3. FrameIn(M, u, n, R, "m4f", 17) => m = n + 17 /\ h = n + 9
    BY <1>a, <2>1, <2>2
  <2> QED BY <2>3, ArmFrames
<1>7. \E x \in Int : L[13] = <<u, x>>
  BY <1>0, <1>1
<1>8. ArmReg # RiscvReg
  BY DEF ArmReg, RiscvReg
<1>9. Ctx(L, <<u, m>>, M, <<u, m>>).registers = L
  BY DEF Ctx
<1> QED BY <1>1, <1>2, <1>3, <1>7, <1>8, <1>9 DEF Loads

LEMMA RaisedIs ==
  ASSUME NEW R, NEW p, NEW M, NEW s
  PROVE  Raised(Ctx(R, p, M, s)) = Ctx([R EXCEPT ![2] = p], p, M, p)
<1> DEFINE c == Ctx(R, p, M, s)
<1>1. c.pointer = p /\ c.registers = R
  BY DEF Ctx
<1>2. [c EXCEPT !.registers = [R EXCEPT ![2] = p]] = Ctx([R EXCEPT ![2] = p], p, M, s)
  BY DEF Ctx
<1>3. [Ctx([R EXCEPT ![2] = p], p, M, s) EXCEPT !.sp = p] = Ctx([R EXCEPT ![2] = p], p, M, p)
  BY DEF Ctx
<1> HIDE DEF c
<1>4. [c EXCEPT !.registers[2] = p] = [c EXCEPT !.registers = [R EXCEPT ![2] = p]]
  BY <1>1
<1>5. Raised(c) = [[c EXCEPT !.registers[2] = p] EXCEPT !.sp = p]
  BY <1>1 DEF Raised
<1> QED BY <1>2, <1>3, <1>4, <1>5 DEF c

LEMMA Pop32 ==
  ASSUME NEW Q, NEW S \in SUBSET Int, DOMAIN Q = S, NEW M, NEW u, NEW n \in Int, NEW s,
         NEW register \in Int, NEW m, m = n + 1
  PROVE  PopsTo(pop32(Ctx(Q, <<u, n>>, M, s), register), Q, M, u, n, m, s, register, register + 1, S)
<1>1. register + 1 \in Int /\ m = n + ((register + 1) - register)
  OBVIOUS
<1>2. PopsTo(pop_ascending(Ctx(Q, <<u, n>>, M, s), register, register + 1),
             Q, M, u, n, m, s, register, register + 1, S)
  BY <1>1, Pop, Zenon
<1> QED BY <1>2, Zenon DEF pop32

LEMMA Skip32 ==
  ASSUME NEW Q, NEW M, NEW u, NEW n \in Int, NEW s, NEW words \in Int, NEW m, m = n + words
  PROVE  skip32(Ctx(Q, <<u, n>>, M, s), words) = Ctx(Q, <<u, m>>, M, s)
<1> DEFINE c == Ctx(Q, <<u, n>>, M, s)
<1>1. c.pointer = <<u, n>>
  BY DEF Ctx
<1>2. Move(<<u, n>>, words) = <<u, m>>
  BY DEF Move
<1>3. [c EXCEPT !.pointer = <<u, m>>] = Ctx(Q, <<u, m>>, M, s)
  BY DEF Ctx
<1> HIDE DEF c
<1>4. skip32(c, words) = [c EXCEPT !.pointer = <<u, m>>]
  BY <1>1, <1>2 DEF skip32
<1> QED BY <1>3, <1>4 DEF c

\* x5..x31, x1, pc and mstatus at word a
HighWords(M, u, a, R) == \A r \in 5..31 : M[u][a + (r - 5)] = R[r]

LEMMA RiscvFrames ==
  ASSUME NEW M, NEW u, NEW n \in Int, NEW R
  PROVE  /\ FrameIn(M, u, n, R, "rv32_std", 31) =>
              /\ M[u][n] = R[32] /\ M[u][n + 1] = R[1] /\ M[u][n + 30] = R[33]
              /\ HighWords(M, u, n + 2, R)
         /\ \A p \in {"ch32", "ch32_fpu"} : FrameIn(M, u, n, R, p, 30) =>
              /\ M[u][n] = R[32] /\ M[u][n + 1] = R[33] /\ M[u][n + 2] = R[1]
              /\ HighWords(M, u, n + 3, R)
<1>a. Entry(R, FALSE, 32) = R[32] /\ Entry(R, FALSE, 33) = R[33] /\ Entry(R, FALSE, 1) = R[1]
  <2>1. 32 \in 0..33 /\ 33 \in 0..33 /\ 1 \in 0..33
    OBVIOUS
  <2> QED BY <2>1, Entries, Zenon
<1>1. ASSUME FrameIn(M, u, n, R, "rv32_std", 31)
      PROVE  /\ M[u][n] = R[32] /\ M[u][n + 1] = R[1] /\ M[u][n + 30] = R[33]
             /\ HighWords(M, u, n + 2, R)
  <2>0. \A i \in 1..31 : M[u][n + i - 1] = Entry(R, FALSE, Frame("rv32_std", FALSE)[i])
    BY <1>1 DEF FrameIn
  <2>1. M[u][n] = R[32]
    <3>1. 1 \in 1..31 /\ n + 1 - 1 = n
      OBVIOUS
    <3>2. M[u][n + 1 - 1] = Entry(R, FALSE, Frame("rv32_std", FALSE)[1])
      BY <2>0, <3>1, Zenon
    <3> QED BY <1>a, <3>1, <3>2, FrameRv32Std, Zenon
  <2>2. M[u][n + 1] = R[1]
    <3>1. 2 \in 1..31 /\ n + 2 - 1 = n + 1
      OBVIOUS
    <3>2. M[u][n + 2 - 1] = Entry(R, FALSE, Frame("rv32_std", FALSE)[2])
      BY <2>0, <3>1, Zenon
    <3> QED BY <1>a, <3>1, <3>2, FrameRv32Std, Zenon
  <2>3. M[u][n + 30] = R[33]
    <3>1. 31 \in 1..31 /\ n + 31 - 1 = n + 30
      OBVIOUS
    <3>2. M[u][n + 31 - 1] = Entry(R, FALSE, Frame("rv32_std", FALSE)[31])
      BY <2>0, <3>1, Zenon
    <3> QED BY <1>a, <3>1, <3>2, FrameRv32Std, Zenon
  <2>4. ASSUME NEW r \in 5..31 PROVE M[u][n + 2 + (r - 5)] = R[r]
    <3>1. /\ r - 2 \in 1..31 /\ r - 2 \in 3..29 /\ n + (r - 2) - 1 = n + 2 + (r - 5)
          /\ (r - 2) + 2 = r /\ r \in 0..33
      OBVIOUS
    <3>2. M[u][n + (r - 2) - 1] = Entry(R, FALSE, Frame("rv32_std", FALSE)[r - 2])
      BY <2>0, <3>1, Zenon
    <3>3. Frame("rv32_std", FALSE)[r - 2] = (r - 2) + 2
      BY <3>1, FrameRv32Std, Zenon
    <3>4. Entry(R, FALSE, r) = R[r]
      BY <3>1, Entries, Zenon
    <3> QED BY <3>1, <3>2, <3>3, <3>4
  <2> QED BY <2>1, <2>2, <2>3, <2>4 DEF HighWords
<1>2. ASSUME NEW p \in {"ch32", "ch32_fpu"}, FrameIn(M, u, n, R, p, 30)
      PROVE  /\ M[u][n] = R[32] /\ M[u][n + 1] = R[33] /\ M[u][n + 2] = R[1]
             /\ HighWords(M, u, n + 3, R)
  <2>0. \A i \in 1..30 : M[u][n + i - 1] = Entry(R, FALSE, Frame(p, FALSE)[i])
    BY <1>2 DEF FrameIn
  <2>1. M[u][n] = R[32]
    <3>1. 1 \in 1..30 /\ n + 1 - 1 = n
      OBVIOUS
    <3>2. M[u][n + 1 - 1] = Entry(R, FALSE, Frame(p, FALSE)[1])
      BY <2>0, <3>1, Zenon
    <3>3. Frame(p, FALSE)[1] = 32
      BY FrameCh32, Zenon
    <3> QED BY <1>a, <3>1, <3>2, <3>3
  <2>2. M[u][n + 1] = R[33]
    <3>1. 2 \in 1..30 /\ n + 2 - 1 = n + 1
      OBVIOUS
    <3>2. M[u][n + 2 - 1] = Entry(R, FALSE, Frame(p, FALSE)[2])
      BY <2>0, <3>1, Zenon
    <3>3. Frame(p, FALSE)[2] = 33
      BY FrameCh32, Zenon
    <3> QED BY <1>a, <3>1, <3>2, <3>3
  <2>3. M[u][n + 2] = R[1]
    <3>1. 3 \in 1..30 /\ n + 3 - 1 = n + 2
      OBVIOUS
    <3>2. M[u][n + 3 - 1] = Entry(R, FALSE, Frame(p, FALSE)[3])
      BY <2>0, <3>1, Zenon
    <3>3. Frame(p, FALSE)[3] = 1
      BY FrameCh32, Zenon
    <3> QED BY <1>a, <3>1, <3>2, <3>3
  <2>4. ASSUME NEW r \in 5..31 PROVE M[u][n + 3 + (r - 5)] = R[r]
    <3>1. /\ r - 1 \in 1..30 /\ r - 1 \in 4..30 /\ n + (r - 1) - 1 = n + 3 + (r - 5)
          /\ (r - 1) + 1 = r /\ r \in 0..33
      OBVIOUS
    <3>2. M[u][n + (r - 1) - 1] = Entry(R, FALSE, Frame(p, FALSE)[r - 1])
      BY <2>0, <3>1, Zenon
    <3>3. Frame(p, FALSE)[r - 1] = (r - 1) + 1
      BY <3>1, FrameCh32, Zenon
    <3>4. Entry(R, FALSE, r) = R[r]
      BY <3>1, Entries, Zenon
    <3> QED BY <3>1, <3>2, <3>3, <3>4
  <2> QED BY <2>1, <2>2, <2>3, <2>4 DEF HighWords
<1> QED BY <1>1, <1>2

LEMMA ReadRv32Std ==
  ASSUME NEW Q, DOMAIN Q = RiscvReg, NEW q, NEW M, NEW s, NEW u, NEW n \in Int, NEW R
  PROVE  Loads(read_rv32_std(Ctx(Q, q, M, s), <<u, n>>).registers, Q, M, u, n, R, "rv32_std", 2, 31, RiscvReg)
<1> DEFINE n1 == n + 1
           n2 == n + 2
           n3 == n + 29
           n4 == n + 30
           m  == n + 31
<1>0. /\ n1 \in Int /\ n1 = n + 1 /\ n2 \in Int /\ n2 = n1 + 1 /\ n3 \in Int /\ n3 = n2 + (32 - 5)
      /\ n4 \in Int /\ n4 = n3 + 1 /\ m \in Int /\ m = n4 + 1
      /\ 1 \in Int /\ 5 \in Int /\ 32 \in Int /\ 33 \in Int
      /\ RiscvReg \in SUBSET Int
  BY DEF RiscvReg
<1>a. n1 = n + 1 /\ n2 = n + 2 /\ n4 = n + 30 /\ m = n + 31
  OBVIOUS
<1> HIDE DEF n1, n2, n3, n4, m
<1>1. PICK P1 : /\ pop32(Ctx(Q, <<u, n>>, M, s), 32) = Ctx(P1, <<u, n1>>, M, s)
               /\ Popped(P1, Q, M, u, n, 32, 32 + 1, RiscvReg)
  <2>2. PopsTo(pop32(Ctx(Q, <<u, n>>, M, s), 32), Q, M, u, n, n1, s, 32, 32 + 1, RiscvReg)
    BY <1>0, Pop32, Zenon
  <2> QED BY <2>2 DEF PopsTo
<1>2. PICK P2 : /\ pop32(Ctx(P1, <<u, n1>>, M, s), 1) = Ctx(P2, <<u, n2>>, M, s)
               /\ Popped(P2, P1, M, u, n1, 1, 1 + 1, RiscvReg)
  <2>1. DOMAIN P1 = RiscvReg
    BY <1>1 DEF Popped, IsOn
  <2>2. PopsTo(pop32(Ctx(P1, <<u, n1>>, M, s), 1), P1, M, u, n1, n2, s, 1, 1 + 1, RiscvReg)
    BY <1>0, <2>1, Pop32, Zenon
  <2> QED BY <2>2 DEF PopsTo
<1>3. PICK P3 : /\ pop_ascending(Ctx(P2, <<u, n2>>, M, s), 5, 32) = Ctx(P3, <<u, n3>>, M, s)
               /\ Popped(P3, P2, M, u, n2, 5, 32, RiscvReg)
  <2>1. DOMAIN P2 = RiscvReg
    BY <1>2 DEF Popped, IsOn
  <2>2. PopsTo(pop_ascending(Ctx(P2, <<u, n2>>, M, s), 5, 32), P2, M, u, n2, n3, s, 5, 32, RiscvReg)
    BY <1>0, <2>1, Pop, Zenon
  <2> QED BY <2>2 DEF PopsTo
<1>4. skip32(Ctx(P3, <<u, n3>>, M, s), 1) = Ctx(P3, <<u, n4>>, M, s)
  BY <1>0, Skip32
<1>5. PICK P : /\ pop32(Ctx(P3, <<u, n4>>, M, s), 33) = Ctx(P, <<u, m>>, M, s)
              /\ Popped(P, P3, M, u, n4, 33, 33 + 1, RiscvReg)
  <2>1. DOMAIN P3 = RiscvReg
    BY <1>3 DEF Popped, IsOn
  <2>2. PopsTo(pop32(Ctx(P3, <<u, n4>>, M, s), 33), P3, M, u, n4, m, s, 33, 33 + 1, RiscvReg)
    BY <1>0, <2>1, Pop32, Zenon
  <2> QED BY <2>2 DEF PopsTo
<1> DEFINE L == [P EXCEPT ![2] = <<u, m>>]
<1>6. read_rv32_std(Ctx(Q, q, M, s), <<u, n>>) = Ctx(L, <<u, m>>, M, <<u, m>>)
  <2>1. [Ctx(Q, q, M, s) EXCEPT !.pointer = <<u, n>>] = Ctx(Q, <<u, n>>, M, s)
    BY AtAddress
  <2>2. Raised(Ctx(P, <<u, m>>, M, s)) = Ctx(L, <<u, m>>, M, <<u, m>>)
    BY RaisedIs
  <2>3. pop32(pop32([Ctx(Q, q, M, s) EXCEPT !.pointer = <<u, n>>], PC), 1) = Ctx(P2, <<u, n2>>, M, s)
    BY <1>1, <1>2, <2>1 DEF PC
  <2>4. Raised(pop32(skip32(pop_ascending(Ctx(P2, <<u, n2>>, M, s), 5, 32), 1), MSTATUS))
          = Ctx(L, <<u, m>>, M, <<u, m>>)
    BY <1>3, <1>4, <1>5, <2>2 DEF MSTATUS
  <2> HIDE DEF L
  <2> QED BY <2>3, <2>4, Zenon DEF read_rv32_std
<1>7. IsOn(L, RiscvReg) /\ L[2] = <<u, m>> /\ \A r \in RiscvReg \ {2} : L[r] = P[r]
  <2>1. DOMAIN P = RiscvReg /\ 2 \in RiscvReg
    BY <1>5 DEF Popped, IsOn, RiscvReg
  <2> QED BY <2>1 DEF IsOn
<1> HIDE DEF L
<1>8. \A r \in 1..33 :
        /\ P1[r] = IF 32 <= r /\ r < 32 + 1 THEN M[u][n + (r - 32)] ELSE Q[r]
        /\ P2[r] = IF 1 <= r /\ r < 1 + 1 THEN M[u][n1 + (r - 1)] ELSE P1[r]
        /\ P3[r] = IF 5 <= r /\ r < 32 THEN M[u][n2 + (r - 5)] ELSE P2[r]
        /\ P[r] = IF 33 <= r /\ r < 33 + 1 THEN M[u][n4 + (r - 33)] ELSE P3[r]
  BY <1>1, <1>2, <1>3, <1>5, Zenon DEF Popped, RiscvReg
<1>9. ASSUME NEW r \in {3, 4} PROVE L[r] = Q[r]
  <2>1. r \in RiscvReg \ {2} /\ r \in 1..33
    BY DEF RiscvReg
  <2>2. P[r] = P3[r] /\ P3[r] = P2[r]
    BY <1>8, <1>9
  <2>3. P2[r] = P1[r] /\ P1[r] = Q[r]
    BY <1>8, <1>9
  <2> QED BY <1>7, <2>1, <2>2, <2>3
<1>10. ASSUME FrameIn(M, u, n, R, "rv32_std", 31), NEW r \in RiscvReg \ {2}, r \notin {3, 4}
       PROVE  L[r] = R[r]
  <2>0. /\ M[u][n] = R[32] /\ M[u][n + 1] = R[1] /\ M[u][n + 30] = R[33]
        /\ HighWords(M, u, n + 2, R)
    BY <1>10, RiscvFrames, Zenon
  <2>1. L[r] = P[r]
    BY <1>7
  <2>2. CASE r = 1
    <3>1. P[1] = P3[1] /\ P3[1] = P2[1] /\ P2[1] = M[u][n1 + (1 - 1)]
      BY <1>8
    <3>2. n1 + (1 - 1) = n + 1
      BY <1>a
    <3> QED BY <2>0, <2>1, <2>2, <3>1, <3>2
  <2>3. CASE r \in 5..31
    <3>1. P[r] = P3[r] /\ P3[r] = M[u][n2 + (r - 5)]
      BY <1>8, <2>3
    <3>2. n2 = n + 2
      BY <1>a
    <3>3. M[u][n + 2 + (r - 5)] = R[r]
      BY <2>0, <2>3, Zenon DEF HighWords
    <3> QED BY <2>1, <3>1, <3>2, <3>3
  <2>4. CASE r = 32
    <3>1. P[32] = P3[32] /\ P3[32] = P2[32]
      BY <1>8
    <3>2. P2[32] = P1[32] /\ P1[32] = M[u][n + (32 - 32)]
      BY <1>8
    <3>3. n + (32 - 32) = n
      OBVIOUS
    <3> QED BY <2>0, <2>1, <2>4, <3>1, <3>2, <3>3
  <2>5. CASE r = 33
    <3>1. P[33] = M[u][n4 + (33 - 33)]
      BY <1>8
    <3>2. n4 + (33 - 33) = n + 30
      BY <1>a
    <3> QED BY <2>0, <2>1, <2>5, <3>1, <3>2
  <2>6. r = 1 \/ r \in 5..31 \/ r = 32 \/ r = 33
    BY <1>10 DEF RiscvReg
  <2> QED BY <2>2, <2>3, <2>4, <2>5, <2>6, Zenon
<1>11. \E x \in Int : L[2] = <<u, x>>
  BY <1>0, <1>7
<1>12. Ctx(L, <<u, m>>, M, <<u, m>>).registers = L
  BY DEF Ctx
<1> QED BY <1>a, <1>6, <1>7, <1>9, <1>10, <1>11, <1>12 DEF Loads

LEMMA ReadCh32 ==
  ASSUME NEW Q, DOMAIN Q = RiscvReg, NEW q, NEW M, NEW s, NEW u, NEW n \in Int, NEW R,
         NEW layout, NEW p \in {"ch32", "ch32_fpu"}
  PROVE  Loads(read_ch32(Ctx(Q, q, M, s), <<u, n>>, layout).registers, Q, M, u, n, R, p, 2, 30, RiscvReg)
<1> DEFINE n1 == n + 1
           n2 == n + 2
<1>b. n1 = n + 1 /\ n2 = n + 2
  OBVIOUS
<1>0. /\ n1 \in Int /\ n1 = n + 1 /\ n2 \in Int /\ n2 = n1 + 1
      /\ 1 \in Int /\ 5 \in Int /\ 32 \in Int /\ 33 \in Int
      /\ RiscvReg \in SUBSET Int
  BY DEF RiscvReg
<1> HIDE DEF n1, n2
<1>1. PICK P1 : /\ pop32(Ctx(Q, <<u, n>>, M, s), 32) = Ctx(P1, <<u, n1>>, M, s)
               /\ Popped(P1, Q, M, u, n, 32, 32 + 1, RiscvReg)
  <2>2. PopsTo(pop32(Ctx(Q, <<u, n>>, M, s), 32), Q, M, u, n, n1, s, 32, 32 + 1, RiscvReg)
    BY <1>0, Pop32, Zenon
  <2> QED BY <2>2 DEF PopsTo
<1>2. PICK P2 : /\ pop32(Ctx(P1, <<u, n1>>, M, s), 33) = Ctx(P2, <<u, n2>>, M, s)
               /\ Popped(P2, P1, M, u, n1, 33, 33 + 1, RiscvReg)
  <2>1. DOMAIN P1 = RiscvReg
    BY <1>1 DEF Popped, IsOn
  <2>2. PopsTo(pop32(Ctx(P1, <<u, n1>>, M, s), 33), P1, M, u, n1, n2, s, 33, 33 + 1, RiscvReg)
    BY <1>0, <2>1, Pop32, Zenon
  <2> QED BY <2>2 DEF PopsTo
<1> DEFINE skip == IF layout = "CH32_FPU" /\ DirtyFS(P2[33]) THEN 32 ELSE 0
           h    == n2 + skip
           h1   == h + 1
           m    == h + 28
<1>c. h \in Int /\ h = n2 + skip /\ h1 \in Int /\ h1 = h + 1 /\ m \in Int /\ m = h1 + (32 - 5) /\ skip \in Int
  BY <1>0
<1>d. ~DirtyFS(P2[33]) => h = n + 2 /\ h1 = n + 3 /\ m = n + 30
  BY <1>b
<1> HIDE DEF skip, h, h1, m
<1>4. skip32(Ctx(P2, <<u, n2>>, M, s), skip) = Ctx(P2, <<u, h>>, M, s)
  BY <1>0, <1>c, Skip32
<1>5. PICK P3 : /\ pop32(Ctx(P2, <<u, h>>, M, s), 1) = Ctx(P3, <<u, h1>>, M, s)
               /\ Popped(P3, P2, M, u, h, 1, 1 + 1, RiscvReg)
  <2>1. DOMAIN P2 = RiscvReg
    BY <1>2 DEF Popped, IsOn
  <2>2. PopsTo(pop32(Ctx(P2, <<u, h>>, M, s), 1), P2, M, u, h, h1, s, 1, 1 + 1, RiscvReg)
    BY <1>0, <1>c, <2>1, Pop32, Zenon
  <2> QED BY <2>2 DEF PopsTo
<1>6. PICK P : /\ pop_ascending(Ctx(P3, <<u, h1>>, M, s), 5, 32) = Ctx(P, <<u, m>>, M, s)
              /\ Popped(P, P3, M, u, h1, 5, 32, RiscvReg)
  <2>1. DOMAIN P3 = RiscvReg
    BY <1>5 DEF Popped, IsOn
  <2>2. PopsTo(pop_ascending(Ctx(P3, <<u, h1>>, M, s), 5, 32), P3, M, u, h1, m, s, 5, 32, RiscvReg)
    BY <1>0, <1>c, <2>1, Pop, Zenon
  <2> QED BY <2>2 DEF PopsTo
<1> DEFINE L == [P EXCEPT ![2] = <<u, m>>]
<1>7. read_ch32(Ctx(Q, q, M, s), <<u, n>>, layout) = Ctx(L, <<u, m>>, M, <<u, m>>)
  <2>1. [Ctx(Q, q, M, s) EXCEPT !.pointer = <<u, n>>] = Ctx(Q, <<u, n>>, M, s)
    BY AtAddress
  <2>2. Raised(Ctx(P, <<u, m>>, M, s)) = Ctx(L, <<u, m>>, M, <<u, m>>)
    BY RaisedIs
  <2> DEFINE d == Ctx(P2, <<u, n2>>, M, s)
  <2>3. pop32(pop32([Ctx(Q, q, M, s) EXCEPT !.pointer = <<u, n>>], PC), MSTATUS) = d
    BY <1>1, <1>2, <2>1 DEF PC, MSTATUS
  <2>4. Raised(pop_ascending(pop32(skip32(d, skip), 1), 5, 32)) = Ctx(L, <<u, m>>, M, <<u, m>>)
    BY <1>4, <1>5, <1>6, <2>2
  <2>5. d.registers = P2
    BY DEF Ctx
  <2> HIDE DEF L, d
  <2>6. (IF layout = "CH32_FPU" /\ DirtyFS(d.registers[MSTATUS]) THEN 32 ELSE 0) = skip
    BY <2>5 DEF skip, MSTATUS
  <2> QED BY <2>3, <2>4, <2>6, Zenon DEF read_ch32
<1>8. IsOn(L, RiscvReg) /\ L[2] = <<u, m>> /\ \A r \in RiscvReg \ {2} : L[r] = P[r]
  <2>1. DOMAIN P = RiscvReg /\ 2 \in RiscvReg
    BY <1>6 DEF Popped, IsOn, RiscvReg
  <2> QED BY <2>1 DEF IsOn
<1> HIDE DEF L
<1>9. \A r \in 1..33 :
        /\ P1[r] = IF 32 <= r /\ r < 32 + 1 THEN M[u][n + (r - 32)] ELSE Q[r]
        /\ P2[r] = IF 33 <= r /\ r < 33 + 1 THEN M[u][n1 + (r - 33)] ELSE P1[r]
        /\ P3[r] = IF 1 <= r /\ r < 1 + 1 THEN M[u][h + (r - 1)] ELSE P2[r]
        /\ P[r] = IF 5 <= r /\ r < 32 THEN M[u][h1 + (r - 5)] ELSE P3[r]
  BY <1>1, <1>2, <1>5, <1>6, Zenon DEF Popped, RiscvReg
<1>10. ASSUME NEW r \in {3, 4} PROVE L[r] = Q[r]
  <2>1. r \in RiscvReg \ {2} /\ r \in 1..33
    BY DEF RiscvReg
  <2>2. P[r] = P3[r] /\ P3[r] = P2[r]
    BY <1>9, <1>10
  <2>3. P2[r] = P1[r] /\ P1[r] = Q[r]
    BY <1>9, <1>10
  <2> QED BY <1>8, <2>1, <2>2, <2>3
<1>11. P2[33] = M[u][n + 1]
  <2>1. P2[33] = M[u][n1 + (33 - 33)]
    BY <1>9
  <2>2. n1 + (33 - 33) = n + 1
    BY <1>b
  <2> QED BY <2>1, <2>2
<1>12. ASSUME FrameIn(M, u, n, R, p, 30), Tidy(R, p)
       PROVE  h = n + 2 /\ h1 = n + 3 /\ m = n + 30
  <2>1. M[u][n + 1] = R[33]
    <3>1. /\ M[u][n] = R[32] /\ M[u][n + 1] = R[33] /\ M[u][n + 2] = R[1]
          /\ HighWords(M, u, n + 3, R)
      BY <1>12, RiscvFrames, Zenon
    <3> QED BY <3>1
  <2>2. ~DirtyFS(R[33])
    <3>1. ClearFS(R[33]) = R[33]
      BY <1>12 DEF Tidy, MSTATUS
    <3>2. ClearFS(R[33])[3] = CLEAN
      BY DEF ClearFS
    <3>3. R[33][3] = CLEAN
      BY <3>1, <3>2
    <3> QED BY <3>3 DEF DirtyFS, CLEAN, DIRTY
  <2> QED BY <1>d, <1>11, <2>1, <2>2
<1>13. ASSUME FrameIn(M, u, n, R, p, 30), Tidy(R, p), NEW r \in RiscvReg \ {2}, r \notin {3, 4}
       PROVE  L[r] = R[r]
  <2>0. /\ M[u][n] = R[32] /\ M[u][n + 1] = R[33] /\ M[u][n + 2] = R[1]
        /\ HighWords(M, u, n + 3, R)
    BY <1>13, RiscvFrames, Zenon
  <2>1. L[r] = P[r]
    BY <1>8
  <2>2. CASE r = 1
    <3>1. P[1] = P3[1] /\ P3[1] = M[u][h + (1 - 1)]
      BY <1>9
    <3>2. h + (1 - 1) = n + 2
      BY <1>12, <1>13
    <3> QED BY <2>0, <2>1, <2>2, <3>1, <3>2
  <2>3. CASE r \in 5..31
    <3>1. P[r] = M[u][h1 + (r - 5)]
      BY <1>9, <2>3
    <3>2. h1 = n + 3
      BY <1>12, <1>13
    <3>3. M[u][n + 3 + (r - 5)] = R[r]
      BY <2>0, <2>3, Zenon DEF HighWords
    <3> QED BY <2>1, <3>1, <3>2, <3>3
  <2>4. CASE r = 32
    <3>1. P[32] = P3[32] /\ P3[32] = P2[32]
      BY <1>9
    <3>2. P2[32] = P1[32] /\ P1[32] = M[u][n + (32 - 32)]
      BY <1>9
    <3>3. n + (32 - 32) = n
      OBVIOUS
    <3> QED BY <2>0, <2>1, <2>4, <3>1, <3>2, <3>3
  <2>5. CASE r = 33
    <3>1. P[33] = P3[33] /\ P3[33] = P2[33]
      BY <1>9
    <3> QED BY <1>11, <2>0, <2>1, <2>5, <3>1
  <2>6. r = 1 \/ r \in 5..31 \/ r = 32 \/ r = 33
    BY <1>13 DEF RiscvReg
  <2> QED BY <2>2, <2>3, <2>4, <2>5, <2>6, Zenon
<1>14. \E x \in Int : L[2] = <<u, x>>
  BY <1>c, <1>8
<1>15. Ctx(L, <<u, m>>, M, <<u, m>>).registers = L
  BY DEF Ctx
<1> QED BY <1>7, <1>8, <1>10, <1>12, <1>13, <1>14, <1>15 DEF Loads

-----------------------------------------------------------------------------
(* All the handlers, and the ports.                                        *)

FrameLen(p) == Len(Frame(p, FALSE))

LEMMA FrameLens ==
  ASSUME NEW p \in Port
  PROVE  /\ FrameLen(p) \in 16..31 /\ FrameLen(p) = FrameSize(HandlerOf(p))
         /\ DOMAIN Frame(p, FALSE) = 1..FrameLen(p)
<1>1. CASE p = "m3"
  <2>1. Frame(p, FALSE) \in Seq(Nat) /\ FrameLen(p) = 16
    BY <1>1, FrameM3, Zenon DEF FrameLen
  <2>2. HandlerOf(p) = "m3" /\ FrameSize("m3") = 16
    BY <1>1 DEF HandlerOf, FrameSize
  <2>3. DOMAIN Frame(p, FALSE) = 1..FrameLen(p)
    BY <2>1, Zenon, LenProperties DEF FrameLen
  <2>4. FrameLen(p) \in 16..31
    BY <2>1
  <2>5. FrameLen(p) = FrameSize(HandlerOf(p))
    BY <2>1, <2>2, Zenon
  <2> QED BY <2>3, <2>4, <2>5, Zenon
<1>2. CASE p = "m4f"
  <2>1. Frame(p, FALSE) \in Seq(Nat) /\ FrameLen(p) = 17
    BY <1>2, FrameM4f, Zenon DEF FrameLen
  <2>2. HandlerOf(p) = "m4f" /\ FrameSize("m4f") = 17
    BY <1>2 DEF HandlerOf, FrameSize
  <2>3. DOMAIN Frame(p, FALSE) = 1..FrameLen(p)
    BY <2>1, Zenon, LenProperties DEF FrameLen
  <2>4. FrameLen(p) \in 16..31
    BY <2>1
  <2>5. FrameLen(p) = FrameSize(HandlerOf(p))
    BY <2>1, <2>2, Zenon
  <2> QED BY <2>3, <2>4, <2>5, Zenon
<1>3. CASE p = "m33"
  <2>1. Frame(p, FALSE) \in Seq(Nat) /\ FrameLen(p) = 18
    BY <1>3, FrameM33, Zenon DEF FrameLen
  <2>2. HandlerOf(p) = "m33" /\ FrameSize("m33") = 18
    BY <1>3 DEF HandlerOf, FrameSize
  <2>3. DOMAIN Frame(p, FALSE) = 1..FrameLen(p)
    BY <2>1, Zenon, LenProperties DEF FrameLen
  <2>4. FrameLen(p) \in 16..31
    BY <2>1
  <2>5. FrameLen(p) = FrameSize(HandlerOf(p))
    BY <2>1, <2>2, Zenon
  <2> QED BY <2>3, <2>4, <2>5, Zenon
<1>4. CASE p = "rv32_std"
  <2>1. Frame(p, FALSE) \in Seq(Nat) /\ FrameLen(p) = 31
    BY <1>4, FrameRv32Std, Zenon DEF FrameLen
  <2>2. HandlerOf(p) = "rv32_std" /\ FrameSize("rv32_std") = 31
    BY <1>4 DEF HandlerOf, FrameSize
  <2>3. DOMAIN Frame(p, FALSE) = 1..FrameLen(p)
    BY <2>1, Zenon, LenProperties DEF FrameLen
  <2>4. FrameLen(p) \in 16..31
    BY <2>1
  <2>5. FrameLen(p) = FrameSize(HandlerOf(p))
    BY <2>1, <2>2, Zenon
  <2> QED BY <2>3, <2>4, <2>5, Zenon
<1>5. CASE p \in {"ch32", "ch32_fpu"}
  <2>1. Frame(p, FALSE) \in Seq(Nat) /\ FrameLen(p) = 30
    BY <1>5, FrameCh32, Zenon DEF FrameLen
  <2>2. HandlerOf(p) = "ch32" /\ FrameSize("ch32") = 30
    BY <1>5 DEF HandlerOf, FrameSize
  <2>3. DOMAIN Frame(p, FALSE) = 1..FrameLen(p)
    BY <2>1, Zenon, LenProperties DEF FrameLen
  <2>4. FrameLen(p) \in 16..31
    BY <2>1
  <2>5. FrameLen(p) = FrameSize(HandlerOf(p))
    BY <2>1, <2>2, Zenon
  <2> QED BY <2>3, <2>4, <2>5, Zenon
<1>6. p \in {"m3", "m4f", "m33", "rv32_std", "ch32", "ch32_fpu"}
  BY DEF Port
<1> QED BY <1>1, <1>2, <1>3, <1>4, <1>5, <1>6, Zenon

LEMMA HandlerSaves ==
  ASSUME NEW p \in Port, NEW R, NEW M, Stacks(M), NEW t \in Tcb, NEW k \in Int,
         R[PortSP(p)] = <<t, k>>, NEW m, m = k - FrameLen(p)
  PROVE  Saves(write_registers_to_stack(HandlerOf(p), Context(R, M)), R, M, t, k, m,
               PortSP(p), p, FrameLen(p))
<1>1. CASE p = "m3"
  <2>1. HandlerOf(p) = "m3" /\ PortSP(p) = 13 /\ FrameLen(p) = 16
    BY <1>1, FrameM3 DEF HandlerOf, PortSP, FrameLen
  <2>2. Saves(write_m3(Context(R, M)), R, M, t, k, m, 13, "m3", 16)
    BY <2>1, WriteM3
  <2>3. write_registers_to_stack("m3", Context(R, M)) = write_m3(Context(R, M))
    BY DEF write_registers_to_stack
  <2> QED BY <1>1, <2>1, <2>2, <2>3
<1>2. CASE p = "m4f"
  <2>1. HandlerOf(p) = "m4f" /\ PortSP(p) = 13 /\ FrameLen(p) = 17
    BY <1>2, FrameM4f DEF HandlerOf, PortSP, FrameLen
  <2>2. Saves(write_m4f(Context(R, M)), R, M, t, k, m, 13, "m4f", 17)
    BY <2>1, WriteM4f
  <2>3. write_registers_to_stack("m4f", Context(R, M)) = write_m4f(Context(R, M))
    BY DEF write_registers_to_stack
  <2> QED BY <1>2, <2>1, <2>2, <2>3
<1>3. CASE p = "m33"
  <2>1. HandlerOf(p) = "m33" /\ PortSP(p) = 13 /\ FrameLen(p) = 18
    BY <1>3, FrameM33 DEF HandlerOf, PortSP, FrameLen
  <2>2. Saves(write_m33(Context(R, M)), R, M, t, k, m, 13, "m33", 18)
    BY <2>1, WriteM33
  <2>3. write_registers_to_stack("m33", Context(R, M)) = write_m33(Context(R, M))
    BY DEF write_registers_to_stack
  <2> QED BY <1>3, <2>1, <2>2, <2>3
<1>4. CASE p = "rv32_std"
  <2>1. HandlerOf(p) = "rv32_std" /\ PortSP(p) = 2 /\ FrameLen(p) = 31
    BY <1>4, FrameRv32Std DEF HandlerOf, PortSP, FrameLen
  <2>2. Saves(write_rv32_std(Context(R, M)), R, M, t, k, m, 2, "rv32_std", 31)
    BY <2>1, WriteRv32Std
  <2>3. write_registers_to_stack("rv32_std", Context(R, M)) = write_rv32_std(Context(R, M))
    BY DEF write_registers_to_stack
  <2> QED BY <1>4, <2>1, <2>2, <2>3
<1>5. CASE p \in {"ch32", "ch32_fpu"}
  <2>1. HandlerOf(p) = "ch32" /\ PortSP(p) = 2
    BY <1>5 DEF HandlerOf, PortSP
  <2>2. FrameLen(p) = 30
    BY <1>5, FrameCh32, Zenon DEF FrameLen
  <2>3. m = k - 30 /\ R[2] = <<t, k>>
    BY <2>1, <2>2
  <2>4. Saves(write_ch32(Context(R, M)), R, M, t, k, m, 2, p, 30)
    BY <1>5, <2>3, WriteCh32, Zenon
  <2>5. write_registers_to_stack("ch32", Context(R, M)) = write_ch32(Context(R, M))
    BY DEF write_registers_to_stack
  <2> QED BY <2>1, <2>2, <2>4, <2>5
<1> QED BY <1>1, <1>2, <1>3, <1>4, <1>5 DEF Port

LEMMA HandlerLoads ==
  ASSUME NEW p \in Port, NEW Q, DOMAIN Q = PortReg(p), NEW q, NEW M, NEW s, NEW u, NEW n \in Int,
         NEW R, NEW layout
  PROVE  Loads(read_registers_from_addr(HandlerOf(p), layout, Ctx(Q, q, M, s), <<u, n>>).registers,
               Q, M, u, n, R, p, PortSP(p), FrameLen(p), PortReg(p))
<1> DEFINE c == Ctx(Q, q, M, s)
           a == <<u, n>>
<1>1. CASE p = "m3"
  <2>1. HandlerOf(p) = "m3" /\ PortSP(p) = 13 /\ FrameLen(p) = 16 /\ PortReg(p) = ArmReg
    BY <1>1, FrameM3 DEF HandlerOf, PortSP, FrameLen, PortReg
  <2>2. Loads(read_m3(c, a).registers, Q, M, u, n, R, "m3", 13, 16, ArmReg)
    BY <2>1, ReadM3
  <2>3. read_registers_from_addr("m3", layout, c, a) = read_m3(c, a)
    BY DEF read_registers_from_addr
  <2> QED BY <1>1, <2>1, <2>2, <2>3
<1>2. CASE p = "m4f"
  <2>1. HandlerOf(p) = "m4f" /\ PortSP(p) = 13 /\ FrameLen(p) = 17 /\ PortReg(p) = ArmReg
    BY <1>2, FrameM4f DEF HandlerOf, PortSP, FrameLen, PortReg
  <2>2. Loads(read_m4f(c, a).registers, Q, M, u, n, R, "m4f", 13, 17, ArmReg)
    BY <2>1, ReadM4f
  <2>3. read_registers_from_addr("m4f", layout, c, a) = read_m4f(c, a)
    BY DEF read_registers_from_addr
  <2> QED BY <1>2, <2>1, <2>2, <2>3
<1>3. CASE p = "m33"
  <2>1. HandlerOf(p) = "m33" /\ PortSP(p) = 13 /\ FrameLen(p) = 18 /\ PortReg(p) = ArmReg
    BY <1>3, FrameM33 DEF HandlerOf, PortSP, FrameLen, PortReg
  <2>2. Loads(read_m33(c, a).registers, Q, M, u, n, R, "m33", 13, 18, ArmReg)
    BY <2>1, ReadM33
  <2>3. read_registers_from_addr("m33", layout, c, a) = read_m33(c, a)
    BY DEF read_registers_from_addr
  <2> QED BY <1>3, <2>1, <2>2, <2>3
<1>4. CASE p = "rv32_std"
  <2>1. HandlerOf(p) = "rv32_std" /\ PortSP(p) = 2 /\ FrameLen(p) = 31 /\ PortReg(p) = RiscvReg
    BY <1>4, FrameRv32Std DEF HandlerOf, PortSP, FrameLen, PortReg
  <2>2. Loads(read_rv32_std(c, a).registers, Q, M, u, n, R, "rv32_std", 2, 31, RiscvReg)
    BY <2>1, ReadRv32Std
  <2>3. read_registers_from_addr("rv32_std", layout, c, a) = read_rv32_std(c, a)
    BY DEF read_registers_from_addr
  <2> QED BY <1>4, <2>1, <2>2, <2>3
<1>5. CASE p \in {"ch32", "ch32_fpu"}
  <2>1. HandlerOf(p) = "ch32" /\ PortSP(p) = 2 /\ PortReg(p) = RiscvReg
    BY <1>5 DEF HandlerOf, PortSP, PortReg
  <2>2. FrameLen(p) = 30
    BY <1>5, FrameCh32, Zenon DEF FrameLen
  <2>3. DOMAIN Q = RiscvReg
    BY <2>1
  <2>4. Loads(read_ch32(c, a, layout).registers, Q, M, u, n, R, p, 2, 30, RiscvReg)
    BY <1>5, <2>3, ReadCh32, Zenon
  <2>5. read_registers_from_addr("ch32", layout, c, a) = read_ch32(c, a, layout)
    BY DEF read_registers_from_addr
  <2> QED BY <2>1, <2>2, <2>4, <2>5
<1> QED BY <1>1, <1>2, <1>3, <1>4, <1>5 DEF Port

LEMMA AllHardware == \A r \in ByCore : \E j \in 1..8 : Hardware[j] = r
<1>1. /\ 1 \in 1..8 /\ 2 \in 1..8 /\ 3 \in 1..8 /\ 4 \in 1..8
      /\ 5 \in 1..8 /\ 6 \in 1..8 /\ 7 \in 1..8 /\ 8 \in 1..8
  OBVIOUS
<1>2. /\ Hardware[1] = 0 /\ Hardware[2] = 1 /\ Hardware[3] = 2 /\ Hardware[4] = 3
      /\ Hardware[5] = 12 /\ Hardware[6] = 14 /\ Hardware[7] = 15 /\ Hardware[8] = 16
  BY DEF Hardware
<1> QED BY <1>1, <1>2, Zenon DEF ByCore

\* A frame has all the registers but the stack pointer, and x3 and x4
LEMMA InFrame ==
  ASSUME NEW p \in Port, NEW r \in PortReg(p) \ {PortSP(p)},
         ~(PortReg(p) = RiscvReg /\ r \in {3, 4})
  PROVE  \E i \in 1..FrameLen(p) : Frame(p, FALSE)[i] = r
<1>1. CASE p = "m3"
  <2>1. FrameLen(p) = 16 /\ \A j \in 1..16 : Frame(p, FALSE)[j] = Frame("m3", FALSE)[j]
    BY <1>1, FrameM3, Zenon DEF FrameLen
  <2>2. CASE r \in 4..11
    <3>1. r - 3 \in 1..16 /\ r - 3 \in 1..8 /\ (r - 3) + 3 = r
      BY <2>2
    <3>2. Frame("m3", FALSE)[r - 3] = (r - 3) + 3
      BY <3>1, FrameM3, Zenon
    <3> QED BY <2>1, <3>1, <3>2
  <2>3. CASE r \in ByCore
    <3>1. PICK j \in 1..8 : Hardware[j] = r
      BY <2>3, AllHardware
    <3>2. j + 8 \in 1..16 /\ j + 8 \in 9..16 /\ (j + 8) - 8 = j
      OBVIOUS
    <3>3. Frame("m3", FALSE)[j + 8] = Hardware[(j + 8) - 8]
      BY <3>2, FrameM3, Zenon
    <3> QED BY <2>1, <3>1, <3>2, <3>3
  <2>4. r \in 4..11 \/ r \in ByCore
    BY <1>1 DEF PortReg, PortSP, ArmReg, ByCore
  <2> QED BY <2>2, <2>3, <2>4, Zenon
<1>2. CASE p = "m4f"
  <2>1. FrameLen(p) = 17 /\ \A j \in 1..17 : Frame(p, FALSE)[j] = Frame("m4f", FALSE)[j]
    BY <1>2, FrameM4f, Zenon DEF FrameLen
  <2>2. CASE r \in 4..11
    <3>1. r - 3 \in 1..17 /\ r - 3 \in 1..8 /\ (r - 3) + 3 = r
      BY <2>2
    <3>2. Frame("m4f", FALSE)[r - 3] = (r - 3) + 3
      BY <3>1, FrameM4f, Zenon
    <3> QED BY <2>1, <3>1, <3>2
  <2>3. CASE r \in ByCore
    <3>1. PICK j \in 1..8 : Hardware[j] = r
      BY <2>3, AllHardware
    <3>2. j + 9 \in 1..17 /\ j + 9 \in 10..17 /\ (j + 9) - 9 = j
      OBVIOUS
    <3>3. Frame("m4f", FALSE)[j + 9] = Hardware[(j + 9) - 9]
      BY <3>2, FrameM4f, Zenon
    <3> QED BY <2>1, <3>1, <3>2, <3>3
  <2>4. r \in 4..11 \/ r \in ByCore
    BY <1>2 DEF PortReg, PortSP, ArmReg, ByCore
  <2> QED BY <2>2, <2>3, <2>4, Zenon
<1>3. CASE p = "m33"
  <2>1. FrameLen(p) = 18 /\ \A j \in 1..18 : Frame(p, FALSE)[j] = Frame("m33", FALSE)[j]
    BY <1>3, FrameM33, Zenon DEF FrameLen
  <2>2. CASE r \in 4..11
    <3>1. r - 1 \in 1..18 /\ r - 1 \in 3..10 /\ (r - 1) + 1 = r
      BY <2>2
    <3>2. Frame("m33", FALSE)[r - 1] = (r - 1) + 1
      BY <3>1, FrameM33, Zenon
    <3> QED BY <2>1, <3>1, <3>2
  <2>3. CASE r \in ByCore
    <3>1. PICK j \in 1..8 : Hardware[j] = r
      BY <2>3, AllHardware
    <3>2. j + 10 \in 1..18 /\ j + 10 \in 11..18 /\ (j + 10) - 10 = j
      OBVIOUS
    <3>3. Frame("m33", FALSE)[j + 10] = Hardware[(j + 10) - 10]
      BY <3>2, FrameM33, Zenon
    <3> QED BY <2>1, <3>1, <3>2, <3>3
  <2>4. r \in 4..11 \/ r \in ByCore
    BY <1>3 DEF PortReg, PortSP, ArmReg, ByCore
  <2> QED BY <2>2, <2>3, <2>4, Zenon
<1>4. CASE p = "rv32_std"
  <2>1. FrameLen(p) = 31 /\ \A j \in 1..31 : Frame(p, FALSE)[j] = Frame("rv32_std", FALSE)[j]
    BY <1>4, FrameRv32Std, Zenon DEF FrameLen
  <2>2. CASE r \in 5..31
    <3>1. r - 2 \in 1..31 /\ r - 2 \in 3..29 /\ (r - 2) + 2 = r
      BY <2>2
    <3>2. Frame("rv32_std", FALSE)[r - 2] = (r - 2) + 2
      BY <3>1, FrameRv32Std, Zenon
    <3> QED BY <2>1, <3>1, <3>2
  <2>3. CASE r \in {1, 32, 33}
    <3>1. 1 \in 1..31 /\ 2 \in 1..31 /\ 31 \in 1..31
      OBVIOUS
    <3>2. /\ Frame(p, FALSE)[1] = 32 /\ Frame(p, FALSE)[2] = 1 /\ Frame(p, FALSE)[31] = 33
      BY <1>4, FrameRv32Std, Zenon
    <3> QED BY <2>1, <2>3, <3>1, <3>2, Zenon
  <2>4. r \in 5..31 \/ r \in {1, 32, 33}
    BY <1>4 DEF PortReg, PortSP, RiscvReg
  <2> QED BY <2>2, <2>3, <2>4, Zenon
<1>5. CASE p \in {"ch32", "ch32_fpu"}
  <2>1. FrameLen(p) = 30
    BY <1>5, FrameCh32, Zenon DEF FrameLen
  <2>2. CASE r \in 5..31
    <3>1. r - 1 \in 1..30 /\ r - 1 \in 4..30 /\ (r - 1) + 1 = r
      BY <2>2
    <3>2. Frame(p, FALSE)[r - 1] = (r - 1) + 1
      BY <1>5, <3>1, FrameCh32, Zenon
    <3> QED BY <2>1, <3>1, <3>2
  <2>3. CASE r \in {1, 32, 33}
    <3>1. 1 \in 1..30 /\ 2 \in 1..30 /\ 3 \in 1..30
      OBVIOUS
    <3>2. /\ Frame(p, FALSE)[1] = 32 /\ Frame(p, FALSE)[2] = 33 /\ Frame(p, FALSE)[3] = 1
      BY <1>5, FrameCh32, Zenon
    <3> QED BY <2>1, <2>3, <3>1, <3>2, Zenon
  <2>4. r \in 5..31 \/ r \in {1, 32, 33}
    BY <1>5 DEF PortReg, PortSP, RiscvReg
  <2> QED BY <2>2, <2>3, <2>4, Zenon
<1>6. p \in {"m3", "m4f", "m33", "rv32_std", "ch32", "ch32_fpu"}
  BY DEF Port
<1> QED BY <1>1, <1>2, <1>3, <1>4, <1>5, <1>6, Zenon

\* x3 and x4 are in none, whether or not it holds the FPU registers
Others == Nat \ {3, 4}
LEMMA FrameParts ==
  /\ \A S \in {Nat, Others} :
       /\ From(5, 31) \in Seq(S) /\ <<32, 1>> \in Seq(S) /\ <<NONE, 33>> \in Seq(S)
       /\ <<32, 33>> \in Seq(S) /\ <<1>> \in Seq(S) /\ Times(32, FPU) \in Seq(S) /\ <<>> \in Seq(S)
  /\ From(4, 11) \in Seq(Nat) /\ Hardware \in Seq(Nat) /\ <<EXC>> \in Seq(Nat)
  /\ <<NONE, EXC>> \in Seq(Nat) /\ Times(16, FPU) \in Seq(Nat) /\ Times(18, FPU) \in Seq(Nat)
<1>1. ASSUME NEW S \in {Nat, Others}
      PROVE  /\ From(5, 31) \in Seq(S) /\ <<32, 1>> \in Seq(S) /\ <<NONE, 33>> \in Seq(S)
             /\ <<32, 33>> \in Seq(S) /\ <<1>> \in Seq(S) /\ Times(32, FPU) \in Seq(S) /\ <<>> \in Seq(S)
  <2>1. \A i \in 1..27 : 5 + i - 1 \in S
    BY DEF Others
  <2>2. From(5, 31) \in Seq(S)
    <3>1. From(5, 31) = [i \in 1..27 |-> 5 + i - 1]
      BY DEF From
    <3>2. From(5, 31) \in [1..27 -> S]
      BY <2>1, <3>1
    <3>3. Seq(S) = UNION {[1..n -> S] : n \in Nat} /\ 27 \in Nat
      BY SeqDef
    <3> QED BY <3>2, <3>3, Zenon
  <2>3. 32 \in S /\ 1 \in S /\ 33 \in S /\ NONE \in S /\ FPU \in S
    BY DEF Others, NONE, FPU
  <2>4. Times(32, FPU) \in Seq(S)
    BY <2>3 DEF Times
  <2>5. <<32, 1>> \in Seq(S) /\ <<NONE, 33>> \in Seq(S)
    BY <2>3
  <2>6. <<32, 33>> \in Seq(S) /\ <<1>> \in Seq(S)
    BY <2>3
  <2> QED BY <2>2, <2>4, <2>5, <2>6
<1>2. /\ From(4, 11) \in Seq(Nat) /\ Hardware \in Seq(Nat) /\ <<EXC>> \in Seq(Nat)
      /\ <<NONE, EXC>> \in Seq(Nat)
  BY LowRegisters, HardwareIs, Marks
<1>3. Times(16, FPU) \in Seq(Nat) /\ Times(18, FPU) \in Seq(Nat)
  BY DEF Times, FPU
<1> QED BY <1>1, <1>2, <1>3

LEMMA FrameIsSeq ==
  ASSUME NEW p \in Port, NEW F \in BOOLEAN
  PROVE  /\ Frame(p, F) \in Seq(Nat)
         /\ PortReg(p) = RiscvReg => Frame(p, F) \in Seq(Others)
<1>a. ArmReg # RiscvReg
  BY DEF ArmReg, RiscvReg
<1>1. CASE p \in {"m3", "m33"}
  <2>1. Frame(p, F) = Frame(p, FALSE) /\ PortReg(p) = ArmReg
    BY <1>1 DEF Frame, PortReg
  <2> QED BY <1>1, <1>a, <2>1, FrameM3, FrameM33
<1>2. CASE p = "m4f"
  <2>1. PortReg(p) = ArmReg
    BY <1>2 DEF PortReg
  <2>2. CASE F = TRUE
    <3> DEFINE a == From(4, 11)  b == <<EXC>>  c == Times(16, FPU)  d == Hardware  e == Times(18, FPU)
    <3>1. Frame(p, F) = a \o b \o c \o d \o e
      BY <1>2, <2>2 DEF Frame
    <3>2. a \in Seq(Nat) /\ b \in Seq(Nat) /\ c \in Seq(Nat) /\ d \in Seq(Nat) /\ e \in Seq(Nat)
      BY FrameParts, Zenon
    <3> HIDE DEF a, b, c, d, e
    <3>3. a \o b \o c \o d \o e \in Seq(Nat)
      BY <3>2
    <3> QED BY <1>a, <2>1, <3>1, <3>3
  <2> QED BY <1>2, <1>a, <2>1, <2>2, FrameM4f
<1>3. CASE p = "rv32_std"
  <2> DEFINE a == <<32, 1>>  b == From(5, 31)  c == <<NONE, 33>>
  <2>1. Frame(p, F) = a \o b \o c
    BY <1>3 DEF Frame
  <2>2. ASSUME NEW S \in {Nat, Others} PROVE a \o b \o c \in Seq(S)
    <3>1. a \in Seq(S) /\ b \in Seq(S) /\ c \in Seq(S)
      BY FrameParts, Zenon
    <3> HIDE DEF a, b, c
    <3> QED BY <3>1
  <2> QED BY <2>1, <2>2
<1>4. CASE p \in {"ch32", "ch32_fpu"}
  <2> DEFINE a == <<32, 33>>  b == IF F THEN Times(32, FPU) ELSE <<>>  c == <<1>>  d == From(5, 31)
  <2>1. Frame(p, F) = a \o b \o c \o d
    BY <1>4 DEF Frame
  <2>2. ASSUME NEW S \in {Nat, Others} PROVE a \o b \o c \o d \in Seq(S)
    <3>1. a \in Seq(S) /\ c \in Seq(S) /\ d \in Seq(S)
      BY FrameParts, Zenon
    <3>2. b \in Seq(S)
      BY FrameParts
    <3> HIDE DEF a, b, c, d
    <3> QED BY <3>1, <3>2
  <2> QED BY <2>1, <2>2
<1>5. p \in {"m3", "m4f", "m33", "rv32_std", "ch32", "ch32_fpu"}
  BY DEF Port
<1> QED BY <1>1, <1>2, <1>3, <1>4, <1>5

\* What the port itself restores
LEMMA PortLoads ==
  ASSUME NEW p \in Port, NEW C, NEW M, NEW u, NEW n \in Int, NEW R
  PROVE  Loads(PortRestore(p, M, <<u, n>>, C), C, M, u, n, R, p, PortSP(p), FrameLen(p), PortReg(p))
<1> DEFINE F     == HasFpu(p, M, <<u, n>>)
           frame == Frame(p, F)
           at(r) == {i \in DOMAIN frame : frame[i] = r}
           S     == PortReg(p)
           sp    == PortSP(p)
           L     == PortRestore(p, M, <<u, n>>, C)
           value(r) == IF r = sp THEN Move(<<u, n>>, Len(frame))
                       ELSE IF at(r) = {} THEN C[r]
                       ELSE Word(M, Move(<<u, n>>, (CHOOSE i \in at(r) : TRUE) - 1))
<1>1. F \in BOOLEAN
  BY DEF HasFpu, DirtyFS, Port
<1>2. L = [r \in S |-> value(r)]
  BY Zenon DEF PortRestore
<1>3. frame \in Seq(Nat) /\ (S = RiscvReg => frame \in Seq(Others))
  <2> HIDE DEF F
  <2> QED BY <1>1, FrameIsSeq
<1>4. sp \in S /\ (S = RiscvReg => sp = 2)
  BY DEF Port, PortSP, PortReg, ArmReg, RiscvReg
<1> HIDE DEF F, L, S, sp
<1>5. IsOn(L, S)
  BY <1>2 DEF IsOn
<1>6. L[sp] = <<u, n + Len(frame)>> /\ Len(frame) \in Nat
  <2>1. L[sp] = Move(<<u, n>>, Len(frame))
    BY <1>2, <1>4
  <2>2. Len(frame) \in Nat
    BY <1>3, LenProperties
  <2> HIDE DEF frame
  <2> QED BY <2>1, <2>2 DEF Move
<1>7. \E x \in Int : L[sp] = <<u, x>>
  <2>1. n + Len(frame) \in Int
    BY <1>6
  <2> QED BY <1>6, <2>1, Zenon
<1>8. ASSUME S = RiscvReg, NEW r \in {3, 4} PROVE L[r] = C[r]
  <2>1. frame \in Seq(Others)
    BY <1>3, <1>8
  <2> HIDE DEF frame
  <2>2. at(r) = {}
    <3>1. ASSUME NEW i \in DOMAIN frame PROVE frame[i] # r
      <4>1. frame[i] \in Others
        BY <2>1
      <4> QED BY <4>1 DEF Others
    <3> QED BY <3>1
  <2>3. r \in S /\ r # sp
    BY <1>4, <1>8 DEF RiscvReg
  <2>4. L[r] = value(r)
    BY <1>2, <2>3
  <2> HIDE DEF at
  <2> QED BY <2>2, <2>3, <2>4
<1>9. ASSUME FrameIn(M, u, n, R, p, FrameLen(p)), Tidy(R, p) PROVE F = FALSE
  <2>1. CASE p = "m4f"
    <3>1. FrameLen(p) = 17
      BY <2>1, FrameM4f, Zenon DEF FrameLen
    <3>2. M[u][n + 8] = EXC_RETURN
      BY <1>9, <2>1, <3>1, ArmFrames
    <3>3. F = (M[u][n + 8] = EXC_RETURN_FPU)
      BY <2>1 DEF F, HasFpu, Word, Move
    <3>4. EXC_RETURN # EXC_RETURN_FPU
      BY DEF EXC_RETURN, EXC_RETURN_FPU
    <3> QED BY <3>2, <3>3, <3>4
  <2>2. CASE p = "ch32_fpu"
    <3>0. p \in {"ch32", "ch32_fpu"}
      BY <2>2
    <3>1. FrameLen(p) = 30
      BY <3>0, FrameCh32, Zenon DEF FrameLen
    <3>2. /\ M[u][n] = R[32] /\ M[u][n + 1] = R[33] /\ M[u][n + 2] = R[1]
          /\ HighWords(M, u, n + 3, R)
      BY <1>9, <3>0, <3>1, RiscvFrames, Zenon
    <3>3. ClearFS(R[33]) = R[33]
      BY <1>9, <2>2 DEF Tidy, MSTATUS
    <3>4. ClearFS(R[33])[3] = CLEAN
      BY DEF ClearFS
    <3>5. ~DirtyFS(R[33])
      <4>1. R[33][3] = CLEAN
        BY <3>3, <3>4
      <4> QED BY <4>1 DEF DirtyFS, CLEAN, DIRTY
    <3>6. F = DirtyFS(M[u][n + 1])
      BY <2>2 DEF F, HasFpu, Word, Move
    <3> QED BY <1>1, <3>2, <3>5, <3>6
  <2>3. CASE p \notin {"m4f", "ch32_fpu"}
    BY <2>3 DEF F, HasFpu
  <2> QED BY <2>1, <2>2, <2>3
<1>10. ASSUME FrameIn(M, u, n, R, p, FrameLen(p)), Tidy(R, p)
       PROVE  L[sp] = <<u, n + FrameLen(p)>>
  BY <1>6, <1>9, <1>10 DEF FrameLen
<1>11. ASSUME FrameIn(M, u, n, R, p, FrameLen(p)), Tidy(R, p), NEW r \in S \ {sp},
              ~(S = RiscvReg /\ r \in {3, 4})
       PROVE  L[r] = R[r]
  <2>1. frame = Frame(p, FALSE)
    BY <1>9, <1>11
  <2> HIDE DEF frame
  <2>2. PICK j \in 1..FrameLen(p) : Frame(p, FALSE)[j] = r
    BY <1>11, InFrame DEF S, sp
  <2>3. DOMAIN frame = 1..FrameLen(p) /\ FrameLen(p) \in Nat
    <3>1. DOMAIN Frame(p, FALSE) = 1..FrameLen(p) /\ FrameLen(p) \in 16..31
      BY FrameLens, ZenonT(60)
    <3>2. FrameLen(p) \in Nat
      BY <3>1
    <3> QED BY <2>1, <3>1, <3>2, Zenon
  <2> DEFINE i == CHOOSE x \in at(r) : TRUE
  <2>4. j \in at(r)
    BY <2>1, <2>2, <2>3
  <2>5. i \in at(r)
    BY <2>4
  <2>6. i \in 1..FrameLen(p) /\ frame[i] = r
    BY <2>3, <2>5
  <2>7. L[r] = Word(M, Move(<<u, n>>, i - 1))
    <3>1. L[r] = value(r) /\ r # sp
      BY <1>2, <1>11
    <3> HIDE DEF at
    <3> QED BY <2>4, <3>1
  <2> HIDE DEF i
  <2>8. L[r] = M[u][n + i - 1]
    <3>1. n + (i - 1) = n + i - 1
      BY <2>3, <2>6
    <3> QED BY <2>7, <3>1 DEF Word, Move
  <2>9. M[u][n + i - 1] = Entry(R, FALSE, Frame(p, FALSE)[i])
    BY <1>11, <2>6, Zenon DEF FrameIn
  <2>10. r \in 0..33
    BY <1>11 DEF S, PortReg, ArmReg, RiscvReg
  <2>11. Entry(R, FALSE, r) = R[r]
    BY <2>10, Entries, Zenon
  <2> QED BY <2>1, <2>6, <2>8, <2>9, <2>11
<1> QED BY <1>5, <1>7, <1>8, <1>10, <1>11 DEF Loads, L, S, sp

-----------------------------------------------------------------------------
(* The lists of the kernel.                                                *)

LEMMA Least ==
  ASSUME NEW I \in SUBSET Nat, I # {}
  PROVE  Min(I) \in I
<1> DEFINE R == OpToRel(<, Nat)
<1>1. IsWellFoundedOn(R, Nat)
  BY NatLessThanWellFounded DEF OpToRel
<1>2. ASSUME NEW x \in Nat, NEW y \in Nat PROVE y < x <=> <<y, x>> \in R
  BY DEF OpToRel
<1> HIDE DEF R
<1>3. PICK x \in I : \A y \in I : ~(<<y, x>> \in R)
  BY <1>1, WFMin, Zenon
<1>4. ASSUME NEW y \in I PROVE x =< y
  <2>1. ~(<<y, x>> \in R) /\ x \in Nat /\ y \in Nat
    BY <1>3
  <2>2. ~(y < x)
    BY <1>2, <2>1
  <2> QED BY <2>1, <2>2
<1> QED BY <1>4, Zenon DEF Min

\* One entry e at most is gone
RemovesOne(r, s, e, S) ==
  /\ r \in Seq(S) /\ Tasks(r) \subseteq Tasks(s)
  /\ Tasks(s) \ {e} \subseteq Tasks(r)
  /\ e \notin Tasks(s) => r = s

LEMMA Removed ==
  ASSUME NEW S, NEW s \in Seq(S), NEW e
  PROVE  RemovesOne(RemoveFirst(s, e), s, e, S)
<1> DEFINE I == {i \in 1..Len(s) : s[i] = e}
<1>1. Len(s) \in Nat /\ DOMAIN s = 1..Len(s)
  BY LenProperties
<1>2. CASE I = {}
  <2>1. RemoveFirst(s, e) = s
    BY <1>2 DEF RemoveFirst
  <2> QED BY <2>1 DEF RemovesOne
<1>3. CASE I # {}
  <2> DEFINE k == Min(I)
             n == Len(s)
             a == SubSeq(s, 1, k - 1)
             b == SubSeq(s, k + 1, n)
             r == a \o b
  <2>1. RemoveFirst(s, e) = RemoveAt(s, k)
    <3>1. SelectInSeq(s, LAMBDA v : v = e) = k
      BY <1>3 DEF SelectInSeq
    <3>2. \E i \in 1..Len(s) : s[i] = e
      BY <1>3
    <3> QED BY <3>1, <3>2 DEF RemoveFirst
  <2>2. RemoveFirst(s, e) = r
    BY <2>1 DEF RemoveAt
  <2>3. k \in 1..n /\ s[k] = e
    <3>1. I \in SUBSET Nat
      BY <1>1
    <3>2. k \in I
      <4> HIDE DEF I
      <4> QED BY <1>3, <3>1, Least
    <3> QED BY <3>2
  <2>4. n \in Nat
    BY <1>1
  <2> HIDE DEF I, k
  <2>s. \A j \in 1..n : s[j] \in S
    BY ElementOfSeq
  <2>5. a \in Seq(S) /\ Len(a) = k - 1 /\ \A j \in 1..(k - 1) : a[j] = s[j]
    <3>1. k - 1 \in Int /\ 1 \in Int /\ \A j \in 1..(k - 1) : s[j] \in S
      BY <2>3, <2>4, <2>s
    <3>2. /\ a \in Seq(S) /\ Len(a) = IF 1 <= k - 1 THEN (k - 1) - 1 + 1 ELSE 0
          /\ \A j \in 1..((k - 1) - 1 + 1) : a[j] = s[1 + j - 1]
      BY <3>1, SubSeqProperties
    <3> HIDE DEF a
    <3>3. Len(a) = k - 1
      BY <2>3, <2>4, <3>2
    <3>4. ASSUME NEW j \in 1..(k - 1) PROVE a[j] = s[j]
      <4>1. j \in 1..((k - 1) - 1 + 1) /\ 1 + j - 1 = j
        BY <2>3, <2>4
      <4> QED BY <3>2, <4>1
    <3> QED BY <3>2, <3>3, <3>4
  <2>6. b \in Seq(S) /\ Len(b) = n - k /\ \A j \in 1..(n - k) : b[j] = s[k + j]
    <3> DEFINE l == k + 1
    <3>0. l \in Int /\ n \in Int /\ l = k + 1
      BY <2>3, <2>4
    <3>1. \A j \in l..n : s[j] \in S
      BY <2>3, <2>4, <2>s
    <3> HIDE DEF l, n
    <3>2. /\ b \in Seq(S) /\ Len(b) = IF l <= n THEN n - l + 1 ELSE 0
          /\ \A j \in 1..(n - l + 1) : b[j] = s[l + j - 1]
      BY <3>0, <3>1, SubSeqProperties
    <3> HIDE DEF b
    <3>3. Len(b) = n - k
      BY <2>3, <2>4, <3>0, <3>2
    <3>4. ASSUME NEW j \in 1..(n - k) PROVE b[j] = s[k + j]
      <4>1. j \in 1..(n - l + 1) /\ l + j - 1 = k + j
        BY <2>3, <2>4, <3>0
      <4> QED BY <3>2, <4>1
    <3> QED BY <3>2, <3>3, <3>4
  <2> HIDE DEF n, a, b
  <2>7. r \in Seq(S) /\ Len(r) = n - 1
    <3>1. r \in Seq(S) /\ Len(r) = Len(a) + Len(b)
      BY <2>5, <2>6, ConcatProperties
    <3> HIDE DEF r
    <3> QED BY <2>3, <2>4, <2>5, <2>6, <3>1
  <2>8. \A j \in 1..(n - 1) : r[j] = IF j < k THEN s[j] ELSE s[j + 1]
    <3>1. \A j \in 1..(Len(a) + Len(b)) : r[j] = IF j <= Len(a) THEN a[j] ELSE b[j - Len(a)]
      BY <2>5, <2>6, ConcatProperties
    <3> HIDE DEF r
    <3>2. ASSUME NEW j \in 1..(n - 1) PROVE r[j] = IF j < k THEN s[j] ELSE s[j + 1]
      <4>0. r[j] = IF j <= k - 1 THEN a[j] ELSE b[j - (k - 1)]
        BY <2>3, <2>4, <2>5, <2>6, <3>1
      <4>1. CASE j < k
        BY <2>3, <2>4, <2>5, <4>0, <4>1
      <4>2. CASE ~(j < k)
        <5>1. j - (k - 1) \in 1..(n - k) /\ k + (j - (k - 1)) = j + 1
          BY <2>3, <2>4, <4>2
        <5>2. b[j - (k - 1)] = s[k + (j - (k - 1))]
          BY <2>6, <5>1
        <5>3. ~(j <= k - 1)
          BY <2>3, <2>4, <4>2
        <5> QED BY <4>0, <4>2, <5>1, <5>2, <5>3
      <4> QED BY <4>1, <4>2
    <3> QED BY <3>2
  <2> HIDE DEF r
  <2>9. DOMAIN r = 1..(n - 1) /\ DOMAIN s = 1..n
    BY <1>1, <2>7, LenProperties DEF n
  <2>10. Tasks(r) \subseteq Tasks(s)
    <3>1. ASSUME NEW j \in 1..(n - 1) PROVE r[j] \in Tasks(s)
      <4>1. j \in 1..n /\ j + 1 \in 1..n
        BY <2>4
      <4> QED BY <2>8, <2>9, <4>1 DEF Tasks
    <3> QED BY <2>9, <3>1 DEF Tasks
  <2>11. Tasks(s) \ {e} \subseteq Tasks(r)
    <3>1. ASSUME NEW j \in 1..n, s[j] # e PROVE s[j] \in Tasks(r)
      <4>1. CASE j < k
        <5>1. j \in 1..(n - 1)
          BY <2>3, <2>4, <4>1
        <5> QED BY <2>8, <2>9, <4>1, <5>1 DEF Tasks
      <4>2. CASE j > k
        <5>1. j - 1 \in 1..(n - 1) /\ ~(j - 1 < k) /\ (j - 1) + 1 = j
          BY <2>3, <2>4, <4>2
        <5>2. r[j - 1] = s[j]
          BY <2>8, <5>1
        <5> QED BY <2>9, <5>1, <5>2 DEF Tasks
      <4>3. j # k
        BY <2>3, <3>1
      <4> QED BY <2>3, <4>1, <4>2, <4>3
    <3> QED BY <2>9, <3>1 DEF Tasks
  <2>12. e \in Tasks(s)
    BY <2>3, <2>9 DEF Tasks
  <2> QED BY <2>2, <2>7, <2>10, <2>11, <2>12 DEF RemovesOne
<1> QED BY <1>2, <1>3

\* The tasks of some lists, and what is left of those of the kernel
LiveIn(L) == UNION {Tasks(L[l]) : l \in Lists}
HiddenIn(L) == L[OtherReady] # <<>>
ListsAre(L, low, high) ==
  /\ L \in [Lists -> Seq(Tcb)]
  /\ low \subseteq LiveIn(L) /\ LiveIn(L) \subseteq high

LEMMA IndexesOfLists ==
  /\ SuspendedList \in Lists /\ DelayedList \in Lists /\ ReadyList \in Lists /\ OtherReady \in Lists
  /\ SuspendedList # OtherReady /\ DelayedList # OtherReady /\ ReadyList # OtherReady
  /\ \A l \in Lists : l \in {SuspendedList, DelayedList, ReadyList, OtherReady}
BY DEF Lists, SuspendedList, DelayedList, ReadyList, OtherReady

LEMMA Appended ==
  ASSUME NEW s \in Seq(Tcb), NEW t \in Tcb
  PROVE  Append(s, t) \in Seq(Tcb) /\ Tasks(Append(s, t)) = Tasks(s) \cup {t}
<1> DEFINE n == Len(s)
           r == Append(s, t)
<1>1. n \in Nat /\ DOMAIN s = 1..n
  BY LenProperties
<1>2. /\ r \in Seq(Tcb) /\ DOMAIN r = 1..(n + 1) /\ r[n + 1] = t
      /\ \A i \in 1..n : r[i] = s[i]
  <2>1. r \in Seq(Tcb) /\ Len(r) = n + 1 /\ r[n + 1] = t /\ \A i \in 1..n : r[i] = s[i]
    BY AppendProperties
  <2> HIDE DEF r, n
  <2> QED BY <2>1, LenProperties
<1> HIDE DEF r, n
<1>3. ASSUME NEW i \in 1..(n + 1) PROVE r[i] \in Tasks(s) \cup {t}
  <2>1. i \in 1..n \/ i = n + 1
    BY <1>1
  <2> QED BY <1>1, <1>2, <2>1 DEF Tasks
<1>4. ASSUME NEW i \in 1..n PROVE s[i] \in Tasks(r)
  <2>1. i \in 1..(n + 1)
    BY <1>1
  <2> QED BY <1>2, <2>1 DEF Tasks
<1>5. t \in Tasks(r)
  <2>1. n + 1 \in 1..(n + 1)
    BY <1>1
  <2> QED BY <1>2, <2>1 DEF Tasks
<1>6. Tasks(r) \subseteq Tasks(s) \cup {t}
  BY <1>2, <1>3 DEF Tasks
<1>7. Tasks(s) \subseteq Tasks(r)
  BY <1>1, <1>4 DEF Tasks
<1> QED BY <1>2, <1>5, <1>6, <1>7 DEF r

LEMMA ListsWithout ==
  ASSUME Kinds, NEW t \in Tcb
  PROVE  /\ ListsAre(Without(t), Live \ {t}, Live)
         /\ ~HiddenIn(lists) => ~HiddenIn(Without(t))
<1> DEFINE L == Without(t)
<1>1. ASSUME NEW l \in Lists PROVE RemovesOne(L[l], lists[l], t, Tcb)
  <2>1. lists[l] \in Seq(Tcb)
    BY DEF Kinds
  <2>2. L[l] = RemoveFirst(lists[l], t)
    BY DEF Without
  <2> QED BY <2>1, <2>2, Removed
<1>2. L = [l \in Lists |-> L[l]]
  BY DEF Without
<1> HIDE DEF L
<1>3. L \in [Lists -> Seq(Tcb)]
  BY <1>1, <1>2 DEF RemovesOne
<1>4. LiveIn(L) \subseteq Live
  BY <1>1 DEF RemovesOne, LiveIn, Live
<1>5. Live \ {t} \subseteq LiveIn(L)
  BY <1>1 DEF RemovesOne, LiveIn, Live
<1>6. ~HiddenIn(lists) => ~HiddenIn(L)
  <2>1. SUFFICES ASSUME lists[OtherReady] = <<>> PROVE L[OtherReady] = <<>>
    BY DEF HiddenIn
  <2>2. t \notin Tasks(lists[OtherReady])
    BY <2>1 DEF Tasks
  <2>3. RemovesOne(L[OtherReady], lists[OtherReady], t, Tcb)
    BY <1>1, IndexesOfLists
  <2> QED BY <2>1, <2>2, <2>3 DEF RemovesOne
<1> QED BY <1>3, <1>4, <1>5, <1>6 DEF ListsAre, L

LEMMA ListAppended ==
  ASSUME NEW L \in [Lists -> Seq(Tcb)], NEW t \in Tcb, NEW to \in Lists
  PROVE  /\ ListsAre([L EXCEPT ![to] = Append(@, t)], LiveIn(L) \cup {t}, LiveIn(L) \cup {t})
         /\ ~HiddenIn(L) /\ to # OtherReady => ~HiddenIn([L EXCEPT ![to] = Append(@, t)])
<1> DEFINE N == [L EXCEPT ![to] = Append(@, t)]
<1>1. L[to] \in Seq(Tcb)
  OBVIOUS
<1>2. N[to] = Append(L[to], t) /\ \A l \in Lists \ {to} : N[l] = L[l]
  OBVIOUS
<1>3. Append(L[to], t) \in Seq(Tcb) /\ Tasks(Append(L[to], t)) = Tasks(L[to]) \cup {t}
  BY <1>1, Appended
<1>4. N \in [Lists -> Seq(Tcb)]
  BY <1>3
<1> HIDE DEF N
<1>5. LiveIn(N) = LiveIn(L) \cup {t}
  BY <1>2, <1>3 DEF LiveIn
<1>6. ~HiddenIn(L) /\ to # OtherReady => ~HiddenIn(N)
  BY <1>2, IndexesOfLists DEF HiddenIn
<1> QED BY <1>4, <1>5, <1>6 DEF ListsAre, N

LEMMA ListsMoved ==
  ASSUME Kinds, NEW t \in Tcb, NEW to \in Lists
  PROVE  /\ ListsAre(Moved(t, to), Live \cup {t}, Live \cup {t})
         /\ ~HiddenIn(lists) /\ to # OtherReady => ~HiddenIn(Moved(t, to))
<1> DEFINE L == Without(t)
           N == [L EXCEPT ![to] = Append(@, t)]
<1>1. ListsAre(L, Live \ {t}, Live) /\ (~HiddenIn(lists) => ~HiddenIn(L))
  BY ListsWithout
<1>2. Moved(t, to) = N
  BY DEF Moved
<1> HIDE DEF L
<1>3. /\ ListsAre(N, LiveIn(L) \cup {t}, LiveIn(L) \cup {t})
      /\ ~HiddenIn(L) /\ to # OtherReady => ~HiddenIn(N)
  BY <1>1, ListAppended DEF ListsAre
<1> HIDE DEF N
<1>4. ListsAre(N, Live \cup {t}, Live \cup {t})
  BY <1>1, <1>3 DEF ListsAre
<1> QED BY <1>1, <1>2, <1>3, <1>4

-----------------------------------------------------------------------------
(* The frames of the kernel.                                               *)

\* The registers of a task: its pointer is on its stack
RegistersOf(R, t, v) ==
  /\ CoreIsOfCurrent(R, t)
  /\ R[PortSP(port)] = <<t, Depth - v>>
  /\ t \notin fpu => Tidy(R, port)

LEMMA PortRegisters ==
  ASSUME port \in Port
  PROVE  /\ PortSP(port) \in PortReg(port) /\ PortReg(port) \in SUBSET Int
         /\ PortReg(port) = RiscvReg => 3 \in PortReg(port) /\ 4 \in PortReg(port) /\ PortSP(port) = 2
         /\ PortSP(port) # MSTATUS /\ PortSP(port) \notin {3, 4} /\ MSTATUS \notin {3, 4}
         /\ port \in {"ch32", "ch32_fpu"} => MSTATUS \in PortReg(port)
BY DEF Port, PortReg, PortSP, ArmReg, RiscvReg, MSTATUS

LEMMA RegistersAre ==
  ASSUME port \in Port, NEW t \in Tcb, NEW v \in 0..1
  PROVE  RegistersOf(Registers(t, v), t, v)
<1> DEFINE R == Registers(t, v)
           value(r) ==
             CASE r = PortSP(port)                             -> <<t, Depth - v>>
               [] r = MSTATUS                                  -> <<t, v, IF t \in fpu THEN DIRTY ELSE CLEAN>>
               [] r \in {3, 4} /\ PortReg(port) = RiscvReg     -> <<"shared", 0, r>>
               [] OTHER                                        -> <<t, v, r>>
<1>1. R = [r \in PortReg(port) |-> value(r)]
  BY DEF Registers
<1>2. \A r \in PortReg(port) : R[r] = value(r)
  <2> HIDE DEF value
  <2> QED BY <1>1
<1>3. R = [r \in PortReg(port) |-> R[r]]
  <2> HIDE DEF value
  <2> QED BY <1>1
<1> HIDE DEF R
<1>4. R[PortSP(port)] = <<t, Depth - v>>
  <2>1. R[PortSP(port)] = value(PortSP(port))
    <3> HIDE DEF value
    <3> QED BY <1>2, PortRegisters
  <2> QED BY <2>1, PortRegisters
<1>5. <<t, Depth - v>>[2] \in Int /\ <<t, Depth - v>> = <<t, <<t, Depth - v>>[2]>>
  BY FrameAssumption
<1>6. ASSUME PortReg(port) = RiscvReg PROVE R[3] = Shared /\ R[4] = SharedTp
  <2>1. R[3] = value(3) /\ R[4] = value(4) /\ PortSP(port) = 2
    <3> HIDE DEF value
    <3> QED BY <1>2, <1>6, PortRegisters
  <2>2. value(3) = Shared
    BY <1>6, <2>1 DEF Shared, MSTATUS
  <2>3. value(4) = SharedTp
    BY <1>6, <2>1 DEF SharedTp, MSTATUS
  <2> QED BY <2>1, <2>2, <2>3
<1>7. ASSUME t \notin fpu, port \in {"ch32", "ch32_fpu"} PROVE ClearFS(R[MSTATUS]) = R[MSTATUS]
  <2>1. R[MSTATUS] = value(MSTATUS)
    <3> HIDE DEF value
    <3> QED BY <1>2, <1>7, PortRegisters
  <2>2. value(MSTATUS) = <<t, v, CLEAN>>
    BY <1>7, PortRegisters
  <2>3. ClearFS(<<t, v, CLEAN>>) = <<t, v, CLEAN>>
    BY DEF ClearFS
  <2> HIDE DEF value
  <2> QED BY <2>1, <2>2, <2>3
<1> HIDE DEF value
<1>8. CoreIsOfCurrent(R, t)
  BY <1>3, <1>4, <1>5, <1>6 DEF CoreIsOfCurrent
<1> QED BY <1>4, <1>7, <1>8 DEF RegistersOf, Tidy, R

\* The kernel leaves task t at n, in stacks N
KernelLeaves(M, N, p, t, v) ==
  /\ Stacks(N) /\ OnlyStack(M, N, t)
  /\ p[2] \in Int /\ p = <<t, p[2]>>
  /\ t \notin fpu => p[2] = Depth - v - Size /\ FrameAt(N, t, p[2], Registers(t, v))

LEMMA KernelSaves ==
  ASSUME port \in Port, NEW M, Stacks(M), NEW t \in Tcb, NEW v \in 0..1
  PROVE  KernelLeaves(M, Saved(M, t, v), SavedTop(t, v), t, v)
<1> DEFINE R == Registers(t, v)
           F == t \in fpu
           frame == Frame(port, F)
           n == Depth - v - Len(frame)
           words == FrameWords(port, R, F)
           N == Saved(M, t, v)
<1>1. R[PortSP(port)] = <<t, Depth - v>>
  BY RegistersAre DEF RegistersOf
<1>2. frame \in Seq(Nat) /\ Len(frame) \in Nat /\ DOMAIN frame = 1..Len(frame)
  <2>1. F \in BOOLEAN
    OBVIOUS
  <2> HIDE DEF F
  <2>2. frame \in Seq(Nat)
    BY <2>1, FrameIsSeq
  <2> HIDE DEF frame
  <2> QED BY <2>2, LenProperties
<1>3. SavedTop(t, v) = <<t, n>> /\ n \in Int
  <2>1. SavedTop(t, v) = Move(R[PortSP(port)], -Len(frame))
    BY DEF SavedTop, PortTop
  <2> HIDE DEF frame
  <2>2. Depth - v \in Int /\ (Depth - v) + (-Len(frame)) = Depth - v - Len(frame)
    BY <1>2, FrameAssumption
  <2> QED BY <1>1, <1>2, <2>1, <2>2 DEF Move
<1>4. words = [i \in 1..Len(frame) |-> Entry(R, F, frame[i])]
  <2>1. words = [i \in DOMAIN frame |-> Entry(R, F, frame[i])]
    BY DEF FrameWords
  <2> HIDE DEF frame, R, F, words
  <2> QED BY <1>2, <2>1
<1>5. N = Store(M, <<t, n>>, words)
  BY <1>3 DEF Saved, SavedTop
<1> HIDE DEF R, frame, n, words, N, F
<1>6. Len(words) = Len(frame)
  <2> DEFINE l == Len(frame)
             S == {Entry(R, F, frame[i]) : i \in 1..l}
  <2>1. words \in [1..l -> S]
    BY <1>4
  <2>2. l \in Nat
    BY <1>2
  <2> HIDE DEF S, l
  <2>3. words \in Seq(S)
    BY <2>1, <2>2, SeqDef
  <2>4. DOMAIN words = 1..l /\ DOMAIN words = 1..Len(words) /\ Len(words) \in Nat
    BY <2>1, <2>3, LenProperties
  <2>5. Len(words) = l
    BY <2>2, <2>4
  <2> QED BY <2>5 DEF l
<1>7. Stored(M, N, t, n, Len(words), words)
  <2>1. Len(words) \in Nat /\ n \in Int
    BY <1>2, <1>3, <1>6
  <2> QED BY <1>5, <2>1, StoreStores
<1>8. OnlyStack(M, N, t) /\ Stacks(N)
  BY <1>7, StacksKept DEF Stored
<1>9. ASSUME t \notin fpu PROVE n = Depth - v - Size /\ FrameAt(N, t, n, R)
  <2>1. F = FALSE
    BY <1>9 DEF F
  <2>2. n = Depth - v - Size /\ Len(frame) = Size /\ frame = Frame(port, FALSE)
    BY <2>1 DEF n, frame, Size
  <2>3. Size \in 16..31
    BY FrameLens DEF Size, FrameLen
  <2>4. ASSUME NEW i \in 1..Size PROVE N[t][n + i - 1] = Entry(R, FALSE, Frame(port, FALSE)[i])
    <3> DEFINE a == n + i - 1
    <3>1. a \in 0..(Depth - 1) /\ n <= a /\ a < n + Size /\ a - n + 1 = i
      <4>1. Depth \in Nat /\ Depth > 62
        BY FrameAssumption, ThreadAssumption
      <4> HIDE DEF Size
      <4> QED BY <4>1, <2>2, <2>3
    <3> HIDE DEF a
    <3>2. a \in DOMAIN M[t]
      BY <3>1 DEF Stacks
    <3>3. Len(words) = Size
      BY <1>6, <2>2
    <3>4. N[t][a] = words[a - n + 1]
      <4>1. N[t][a] = IF n <= a /\ a < n + Len(words) THEN words[a - n + 1] ELSE M[t][a]
        BY <1>7, <3>2 DEF Stored
      <4>2. n <= a /\ a < n + Len(words)
        BY <3>1, <3>3
      <4> QED BY <4>1, <4>2
    <3>5. words[i] = Entry(R, FALSE, Frame(port, FALSE)[i])
      <4>1. i \in 1..Len(frame)
        BY <2>2
      <4> QED BY <1>4, <2>1, <2>2, <4>1
    <3> QED BY <3>1, <3>4, <3>5 DEF a
  <2> QED BY <2>2, <2>4 DEF FrameAt
<1>10. <<t, n>>[2] = n
  OBVIOUS
<1> QED BY <1>3, <1>8, <1>9, <1>10 DEF KernelLeaves, N, R

\* The registers that a port or a handler has loaded from a frame
LEMMA Loaded ==
  ASSUME port \in Port, NEW C, PortReg(port) = RiscvReg => C[3] = Shared /\ C[4] = SharedTp,
         NEW M, NEW u \in Tcb, NEW n \in Int, NEW v \in 0..1, NEW L,
         Loads(L, C, M, u, n, Registers(u, v), port, PortSP(port), FrameLen(port), PortReg(port))
  PROVE  /\ CoreIsOfCurrent(L, u)
         /\ u \notin fpu /\ n = Depth - v - Size /\ FrameAt(M, u, n, Registers(u, v))
              => L = Registers(u, v)
<1> DEFINE R  == Registers(u, v)
           S  == PortReg(port)
           sp == PortSP(port)
<1>1. RegistersOf(R, u, v)
  BY RegistersAre
<1>2. L = [r \in S |-> L[r]]
  BY DEF Loads, IsOn
<1>3. PICK x \in Int : L[sp] = <<u, x>>
  BY DEF Loads
<1>4. S = RiscvReg => L[3] = Shared /\ L[4] = SharedTp
  BY DEF Loads
<1>5. CoreIsOfCurrent(L, u)
  <2>1. L[sp][2] \in Int /\ L[sp] = <<u, L[sp][2]>>
    BY <1>3
  <2> QED BY <1>2, <1>4, <2>1 DEF CoreIsOfCurrent
<1>6. ASSUME u \notin fpu, n = Depth - v - Size, FrameAt(M, u, n, R)
      PROVE  L = R
  <2>1. FrameIn(M, u, n, R, port, FrameLen(port)) /\ Tidy(R, port)
    BY <1>1, <1>6 DEF FrameAt, FrameIn, FrameLen, Size, RegistersOf
  <2>2. /\ L[sp] = <<u, n + FrameLen(port)>>
        /\ \A r \in S \ {sp} : L[r] = R[r] \/ (S = RiscvReg /\ r \in {3, 4})
    <3> HIDE DEF R
    <3> QED BY <2>1 DEF Loads, R
  <2>3. n + FrameLen(port) = Depth - v
    <3>1. FrameLen(port) \in 16..31 /\ Size = FrameLen(port)
      BY FrameLens DEF FrameLen, Size
    <3> QED BY <1>6, <3>1, FrameAssumption
  <2>4. L[sp] = R[sp]
    BY <1>1, <2>2, <2>3 DEF RegistersOf
  <2>5. S = RiscvReg => R[3] = Shared /\ R[4] = SharedTp
    BY <1>1 DEF RegistersOf, CoreIsOfCurrent
  <2>6. \A r \in S : L[r] = R[r]
    <3> HIDE DEF R, S, sp
    <3> QED BY <1>4, <2>2, <2>4, <2>5
  <2>7. R = [r \in S |-> R[r]]
    BY <1>1 DEF RegistersOf, CoreIsOfCurrent
  <2> HIDE DEF R
  <2> QED BY <1>2, <2>6, <2>7
<1> QED BY <1>5, <1>6

-----------------------------------------------------------------------------
(* What the steps keep of the contexts.                                    *)

\* The conjuncts of ContextInv, of the values the variables have after a step
\* that leaves port and fpu alone
KeepsIn(cur, c, tp, M, ver, t) ==
  IF t = cur THEN c = Registers(t, ver[t])
  ELSE /\ tp[t][2] = Depth - ver[t] - Size
       /\ FrameAt(M, t, tp[t][2], Registers(t, ver[t]))
ContextOf(cur, c, tp, M, ver, live) ==
  /\ Stacks(M)
  /\ \A t \in Tcb : tp[t][2] \in Int /\ tp[t] = <<t, tp[t][2]>>
  /\ CoreIsOfCurrent(c, cur)
  /\ \A t \in live \ fpu : KeepsIn(cur, c, tp, M, ver, t)

LEMMA ContextIs ==
  ASSUME OwnStacks, CoreIsOfCurrent(core, current), \A t \in Live \ fpu : Keeps(t)
  PROVE  ContextOf(current, core, top, mem, version, Live)
BY DEF OwnStacks, Keeps, KeepsIn, ContextOf, Stacks

LEMMA ContextNext ==
  ASSUME UNCHANGED <<port, fpu>>,
         ContextOf(current', core', top', mem', version', LiveIn(lists'))
  PROVE  /\ OwnStacks' /\ CoreIsOfCurrent(core, current)'
         /\ (\A t \in Live \ fpu : Keeps(t))'
<1>1. OwnStacks'
  BY DEF ContextOf, OwnStacks, Stacks
<1>2. CoreIsOfCurrent(core, current)'
  BY DEF ContextOf, CoreIsOfCurrent
<1>3. Live' = LiveIn(lists')
  BY DEF Live, LiveIn
<1>4. ASSUME NEW t PROVE KeepsIn(current', core', top', mem', version', t) => Keeps(t)'
  <2>1. Registers(t, version[t])' = Registers(t, version'[t])
    BY DEF Registers
  <2>2. Size' = Size
    BY DEF Size
  <2>3. FrameAt(mem', t, top'[t][2], Registers(t, version'[t]))
          => FrameAt(mem, t, top[t][2], Registers(t, version[t]))'
    BY <2>1, <2>2 DEF FrameAt
  <2> QED BY <2>1, <2>2, <2>3 DEF KeepsIn, Keeps
<1>5. \A t \in Live' \ fpu' : KeepsIn(current', core', top', mem', version', t)
  BY <1>3 DEF ContextOf
<1> QED BY <1>1, <1>2, <1>4, <1>5

LEMMA FramesStay ==
  ASSUME NEW M, Stacks(M), NEW N, NEW w, OnlyStack(M, N, w), NEW t \in Tcb, t # w,
         NEW n, NEW R, FrameAt(M, t, n, R)
  PROVE  FrameAt(N, t, n, R)
<1>1. N[t] = M[t]
  BY DEF OnlyStack, Stacks
<1> QED BY <1>1 DEF FrameAt

-----------------------------------------------------------------------------
(* The steps of the kernel.                                                *)

LEMMA KernelNext ==
  ASSUME IInv, NEW t, NEW to, KernelStep(t, to), Kinds',
         ~HiddenIn(lists) /\ to # OtherReady => ~HiddenIn(lists'),
         Faithful => ContextOf(current', core', top', mem', version', LiveIn(lists'))
  PROVE  IInv'
<1>1. /\ executing' = TRUE /\ dirty' = TRUE /\ selected' = NoTask
      /\ UNCHANGED <<port, fpu, switcher, cache>>
  <2>1. executing /\ UNCHANGED <<port, fpu, symbols, threads, executing, switcher, selected>>
    BY DEF KernelStep
  <2>2. dirty /\ selected = NoTask /\ executing \in {TRUE}
    BY <2>1 DEF IInv, Kinds
  <2> QED BY <2>1, <2>2 DEF threads
<1>2. /\ mishaps \subseteq mishaps' /\ (Faithful' => Faithful)
      /\ to = OtherReady => "hidden" \in mishaps'
  <2>1. Seen(IF to = OtherReady THEN {"hidden"} ELSE {})
    BY DEF KernelStep
  <2> QED BY <2>1 DEF Seen, Faithful
<1>3. HandlerMatches'
  BY <1>1, <1>2 DEF IInv, HandlerMatches, PortHandler
<1>4. SelectedIsShown'
  BY <1>1 DEF SelectedIsShown
<1>5. ContextInv'
  <2>1. SUFFICES ASSUME Faithful' PROVE (OwnStacks /\ CoreIsOfCurrent(core, current)
                                          /\ \A x \in Live \ fpu : Keeps(x))'
    BY DEF ContextInv
  <2>2. ContextOf(current', core', top', mem', version', LiveIn(lists'))
    BY <1>2, <2>1
  <2> QED BY <1>1, <2>2, ContextNext
<1>6. FreshInv'
  <2>1. "hidden" \notin mishaps' => lists'[OtherReady] = <<>>
    BY <1>2 DEF IInv, FreshInv, HiddenIn
  <2> QED BY <1>1, <2>1 DEF FreshInv, TopsKnown
<1> QED BY <1>3, <1>4, <1>5, <1>6 DEF IInv

LEMMA SwitchKeeps ==
  ASSUME IInv, NEW t \in Tcb, NEW to \in Lists, KernelSwitch(t, to)
  PROVE  IInv'
<1> DEFINE w == current
           v == 1 - version[current]
           saved == Saved(mem, w, v)
<1>1. KernelStep(w, to)
  BY DEF KernelSwitch
<1>2. /\ t \in Ready \ {w}
      /\ lists' = IF w \in Tasks(lists[to]) THEN lists ELSE Moved(w, to)
      /\ version' = [version EXCEPT ![w] = v]
      /\ mem' = saved /\ top' = [top EXCEPT ![w] = SavedTop(w, v)]
      /\ core' = PortRestore(port, saved, top[t], core) /\ current' = t
  BY DEF KernelSwitch
<1>3. UNCHANGED <<port, fpu, executing, dirty, selected, addresses>> /\ dirty
  BY <1>1 DEF KernelStep, threads, symbols, IInv, Kinds
<1>4. /\ w \in Live /\ w \in Tcb /\ v \in 0..1 /\ port \in Port /\ Kinds
      /\ lists \in [Lists -> Seq(Tcb)]
  <2>1. Live \subseteq Tcb
    BY DEF IInv, Kinds, Live, Tasks
  <2>2. w \in Live /\ version \in [Tcb -> 0..1] /\ port \in Ports /\ Kinds
    BY DEF IInv, Kinds
  <2>3. version[w] \in 0..1
    BY <2>1, <2>2
  <2>4. v \in 0..1
    BY <2>3
  <2> QED BY <2>1, <2>2, <2>4, ThreadAssumption DEF IInv, Kinds
<1> HIDE DEF w, v, saved
<1>6. t \in Live /\ t # w
  BY <1>2, IndexesOfLists DEF Ready, Live
<1>7. /\ lists' \in [Lists -> Seq(Tcb)] /\ LiveIn(lists') = Live
      /\ ~HiddenIn(lists) /\ to # OtherReady => ~HiddenIn(lists')
  <2>1. CASE w \in Tasks(lists[to])
    BY <1>2, <1>4, <2>1 DEF LiveIn, Live
  <2>2. CASE w \notin Tasks(lists[to])
    <3>1. lists' = Moved(w, to)
      BY <1>2, <2>2
    <3>2. /\ ListsAre(Moved(w, to), Live \cup {w}, Live \cup {w})
          /\ ~HiddenIn(lists) /\ to # OtherReady => ~HiddenIn(Moved(w, to))
      BY <1>4, ListsMoved
    <3> QED BY <1>4, <3>1, <3>2 DEF ListsAre
  <2> QED BY <2>1, <2>2
<1>8. version' \in [Tcb -> 0..1]
  BY <1>2, <1>4 DEF Kinds
<1>9. Kinds'
  <2>1. Live' = Live
    BY <1>7 DEF Live, LiveIn
  <2> QED BY <1>2, <1>3, <1>4, <1>6, <1>7, <1>8, <2>1 DEF Kinds
<1>10. ASSUME Faithful PROVE ContextOf(t, core', top', saved, version', Live)
  <2>1. ContextOf(current, core, top, mem, version, Live)
    BY <1>10, ContextIs DEF IInv, ContextInv
  <2>0. KernelLeaves(mem, saved, SavedTop(w, v), w, v)
    BY <1>4, <2>1, KernelSaves DEF saved, ContextOf
  <2>2. top'[w] = SavedTop(w, v) /\ \A x \in Tcb \ {w} : top'[x] = top[x]
    BY <1>2, <1>4 DEF Kinds
  <2>3. version'[w] = v /\ \A x \in Tcb \ {w} : version'[x] = version[x]
    BY <1>2, <1>4 DEF Kinds
  <2>4. ASSUME NEW x \in Tcb PROVE top'[x][2] \in Int /\ top'[x] = <<x, top'[x][2]>>
    BY <2>0, <2>1, <2>2 DEF ContextOf, KernelLeaves
  <2>5. OnlyStack(mem, saved, w) /\ Stacks(mem) /\ Stacks(saved)
    BY <2>0, <2>1 DEF KernelLeaves, ContextOf
  <2> DEFINE n == top[t][2]
             R == Registers(t, version[t])
  <2>6. n \in Int /\ top[t] = <<t, n>> /\ version[t] \in 0..1
    BY <1>4, <2>1 DEF ContextOf, Kinds
  <2>7. CoreIsOfCurrent(core, w)
    BY <2>1 DEF ContextOf, w
  <2> HIDE DEF n
  <2>8. core' = PortRestore(port, saved, <<t, n>>, core)
    BY <1>2, <2>6
  <2>9. Loads(core', core, saved, t, n, R, port, PortSP(port), FrameLen(port), PortReg(port))
    <3> HIDE DEF R
    <3> QED BY <1>4, <2>6, <2>8, PortLoads
  <2>10. /\ CoreIsOfCurrent(core', t)
         /\ t \notin fpu /\ n = Depth - version[t] - Size /\ FrameAt(saved, t, n, R) => core' = R
    <3>1. PortReg(port) = RiscvReg => core[3] = Shared /\ core[4] = SharedTp
      BY <2>7 DEF CoreIsOfCurrent
    <3> QED BY <1>4, <2>6, <2>9, <3>1, Loaded
  <2>11. ASSUME NEW x \in Live \ fpu PROVE KeepsIn(t, core', top', saved, version', x)
    <3>0. x \in Tcb /\ x \notin fpu
      BY DEF Kinds, IInv, Live, Tasks
    <3>1. CASE x = w
      <4>1. top'[w][2] = Depth - v - Size /\ FrameAt(saved, w, top'[w][2], Registers(w, v))
        BY <2>0, <2>2, <3>0, <3>1 DEF KernelLeaves
      <4> QED BY <1>6, <2>3, <3>1, <4>1 DEF KeepsIn
    <3>2. CASE x # w
      <4>1. /\ top[x][2] = Depth - version[x] - Size
            /\ FrameAt(mem, x, top[x][2], Registers(x, version[x]))
        BY <2>1, <3>2 DEF ContextOf, KeepsIn, w
      <4>2. FrameAt(saved, x, top[x][2], Registers(x, version[x]))
        <5> DEFINE a == top[x][2]
                   Q == Registers(x, version[x])
        <5>1. FrameAt(mem, x, a, Q)
          BY <4>1
        <5> HIDE DEF a, Q
        <5>2. FrameAt(saved, x, a, Q)
          BY <2>5, <3>0, <3>2, <5>1, FramesStay
        <5> QED BY <5>2 DEF a, Q
      <4>3. version'[x] = version[x] /\ top'[x] = top[x]
        BY <2>2, <2>3, <3>0, <3>2
      <4>4. CASE x = t
        <5>1. core' = Registers(t, version[t])
          BY <2>10, <3>0, <4>1, <4>2, <4>4 DEF n
        <5>2. core' = Registers(x, version'[x])
          BY <4>3, <4>4, <5>1
        <5> QED BY <4>4, <5>2 DEF KeepsIn
      <4>5. CASE x # t
        BY <4>1, <4>2, <4>3, <4>5 DEF KeepsIn
      <4> QED BY <4>4, <4>5
    <3> QED BY <3>1, <3>2
  <2> QED BY <2>4, <2>5, <2>10, <2>11 DEF ContextOf
<1>11. Faithful => ContextOf(current', core', top', mem', version', LiveIn(lists'))
  BY <1>2, <1>7, <1>10
<1> QED BY <1>1, <1>7, <1>9, <1>11, KernelNext

\* The state when a step of the kernel begins
LEMMA KernelBegins ==
  ASSUME IInv
  PROVE  /\ Kinds /\ port \in Port /\ version \in [Tcb -> 0..1]
         /\ lists \in [Lists -> Seq(Tcb)] /\ Live \subseteq Tcb /\ current \in Live
         /\ Faithful => ContextOf(current, core, top, mem, version, Live)
<1>1. Live \subseteq Tcb
  BY DEF IInv, Kinds, Live, Tasks
<1>3. ASSUME Faithful PROVE ContextOf(current, core, top, mem, version, Live)
  BY <1>3, ContextIs DEF IInv, ContextInv
<1> QED BY <1>1, <1>3, ThreadAssumption DEF IInv, Kinds

\* A task moves, is woken, is suspended or is deleted: the stacks are as they were
LEMMA MoveKeeps ==
  ASSUME IInv, NEW t \in Tcb, NEW to \in Lists, KernelStep(t, to),
         UNCHANGED <<current, top, mem, core, version>>,
         ListsAre(lists', {current}, Live),
         ~HiddenIn(lists) /\ to # OtherReady => ~HiddenIn(lists')
  PROVE  IInv'
<1>1. UNCHANGED <<port, fpu, executing, dirty, selected, addresses>> /\ dirty
  BY DEF KernelStep, threads, symbols, IInv, Kinds
<1>2. Live' = LiveIn(lists')
  BY DEF Live, LiveIn
<1>3. Kinds'
  BY <1>1, <1>2, KernelBegins DEF Kinds, ListsAre
<1>4. ASSUME Faithful PROVE ContextOf(current', core', top', mem', version', LiveIn(lists'))
  <2>1. ContextOf(current, core, top, mem, version, Live)
    BY <1>4, KernelBegins
  <2>2. ContextOf(current, core, top, mem, version, LiveIn(lists'))
    BY <2>1 DEF ContextOf, ListsAre
  <2> QED BY <2>2
<1> QED BY <1>3, <1>4, KernelNext

LEMMA CreateKeeps ==
  ASSUME IInv, NEW t \in Tcb, NEW to \in Lists, KernelCreate(t, to)
  PROVE  IInv'
<1> DEFINE saved == Saved(mem, t, 0)
<1>1. /\ KernelStep(t, to) /\ t \notin Live
      /\ lists' = [lists EXCEPT ![to] = Append(@, t)]
      /\ version' = [version EXCEPT ![t] = 0]
      /\ mem' = saved /\ top' = [top EXCEPT ![t] = SavedTop(t, 0)]
      /\ UNCHANGED <<current, core>>
  BY DEF KernelCreate
<1>2. UNCHANGED <<port, fpu, executing, dirty, selected, addresses>> /\ dirty
  BY <1>1 DEF KernelStep, threads, symbols, IInv, Kinds
<1>3. Stacks(mem) => KernelLeaves(mem, saved, SavedTop(t, 0), t, 0)
  BY KernelBegins, KernelSaves
<1> HIDE DEF saved
<1>4. /\ ListsAre(lists', Live \cup {t}, Live \cup {t})
      /\ ~HiddenIn(lists) /\ to # OtherReady => ~HiddenIn(lists')
  <2>1. LiveIn(lists) = Live
    BY DEF LiveIn, Live
  <2> QED BY <1>1, <2>1, KernelBegins, ListAppended
<1>5. Live' = LiveIn(lists') /\ LiveIn(lists') = Live \cup {t}
  BY <1>4 DEF Live, LiveIn, ListsAre
<1>6. version' \in [Tcb -> 0..1]
  BY <1>1, KernelBegins
<1>8. Kinds'
  BY <1>1, <1>2, <1>4, <1>5, <1>6, KernelBegins DEF Kinds, ListsAre
<1>9. ASSUME Faithful PROVE ContextOf(current, core, top', saved, version', Live \cup {t})
  <2>1. ContextOf(current, core, top, mem, version, Live)
    BY <1>9, KernelBegins
  <2>0. KernelLeaves(mem, saved, SavedTop(t, 0), t, 0)
    BY <1>3, <2>1 DEF ContextOf
  <2>2. top'[t] = SavedTop(t, 0) /\ \A x \in Tcb \ {t} : top'[x] = top[x]
    BY <1>1, KernelBegins DEF Kinds
  <2>3. version'[t] = 0 /\ \A x \in Tcb \ {t} : version'[x] = version[x]
    BY <1>1, KernelBegins
  <2>4. ASSUME NEW x \in Tcb PROVE top'[x][2] \in Int /\ top'[x] = <<x, top'[x][2]>>
    BY <2>0, <2>1, <2>2 DEF ContextOf, KernelLeaves
  <2>5. OnlyStack(mem, saved, t) /\ Stacks(mem) /\ Stacks(saved) /\ CoreIsOfCurrent(core, current)
    BY <2>0, <2>1 DEF KernelLeaves, ContextOf
  <2>6. ASSUME NEW x \in (Live \cup {t}) \ fpu PROVE KeepsIn(current, core, top', saved, version', x)
    <3>0. x \in Tcb /\ x \notin fpu /\ t # current
      BY <1>1, KernelBegins
    <3>1. CASE x = t
      <4>1. top'[t][2] = Depth - 0 - Size /\ FrameAt(saved, t, top'[t][2], Registers(t, 0))
        BY <2>0, <2>2, <3>0, <3>1 DEF KernelLeaves
      <4> QED BY <2>3, <3>0, <3>1, <4>1 DEF KeepsIn
    <3>2. CASE x # t
      <4>1. KeepsIn(current, core, top, mem, version, x)
        BY <2>1, <3>2 DEF ContextOf
      <4>2. version'[x] = version[x] /\ top'[x] = top[x]
        BY <2>2, <2>3, <3>0, <3>2
      <4>3. CASE x = current
        BY <4>1, <4>2, <4>3 DEF KeepsIn
      <4>4. CASE x # current
        <5> DEFINE a == top[x][2]
                   Q == Registers(x, version[x])
        <5>1. a = Depth - version[x] - Size /\ FrameAt(mem, x, a, Q)
          BY <4>1, <4>4 DEF KeepsIn
        <5> HIDE DEF a, Q
        <5>2. FrameAt(saved, x, a, Q)
          BY <2>5, <3>0, <3>2, <5>1, FramesStay
        <5> QED BY <4>2, <4>4, <5>1, <5>2 DEF KeepsIn, a, Q
      <4> QED BY <4>3, <4>4
    <3> QED BY <3>1, <3>2
  <2> QED BY <2>4, <2>5, <2>6 DEF ContextOf
<1>10. Faithful => ContextOf(current', core', top', mem', version', LiveIn(lists'))
  BY <1>1, <1>5, <1>9
<1> QED BY <1>1, <1>4, <1>8, <1>10, KernelNext

\* Any step of the kernel
LEMMA KernelKeeps ==
  ASSUME IInv, NEW t \in Tcb, NEW to \in Lists,
         \/ KernelSwitch(t, to) \/ KernelMove(t, to) \/ KernelCreate(t, to) \/ KernelDelete(t)
  PROVE  IInv'
<1>1. CASE KernelSwitch(t, to)
  BY <1>1, SwitchKeeps
<1>2. CASE KernelMove(t, to)
  <2>1. /\ KernelStep(t, to) /\ t \in Live /\ lists' = Moved(t, to)
        /\ UNCHANGED <<current, top, mem, core, version>>
    BY <1>2 DEF KernelMove
  <2>2. /\ ListsAre(Moved(t, to), Live \cup {t}, Live \cup {t})
        /\ ~HiddenIn(lists) /\ to # OtherReady => ~HiddenIn(Moved(t, to))
    BY KernelBegins, ListsMoved
  <2>3. ListsAre(lists', {current}, Live)
    BY <2>1, <2>2, KernelBegins DEF ListsAre
  <2> QED BY <2>1, <2>2, <2>3, MoveKeeps
<1>3. CASE KernelCreate(t, to)
  BY <1>3, CreateKeeps
<1>4. CASE KernelDelete(t)
  <2>1. /\ KernelStep(t, ReadyList) /\ t \in Live \ {current} /\ lists' = Without(t)
        /\ UNCHANGED <<current, top, mem, core, version>>
    BY <1>4 DEF KernelDelete
  <2>2. /\ ListsAre(Without(t), Live \ {t}, Live)
        /\ ~HiddenIn(lists) => ~HiddenIn(Without(t))
    BY KernelBegins, ListsWithout
  <2>3. ListsAre(lists', {current}, Live)
    BY <2>1, <2>2, KernelBegins DEF ListsAre
  <2>4. ~HiddenIn(lists) /\ ReadyList # OtherReady => ~HiddenIn(lists')
    BY <2>1, <2>2
  <2> QED BY <2>1, <2>3, <2>4, IndexesOfLists, MoveKeeps
<1> QED BY <1>1, <1>2, <1>3, <1>4

-----------------------------------------------------------------------------
(* The steps that leave the target alone.                                  *)

LEMMA SameKernel ==
  ASSUME IInv, UNCHANGED kernel, mishaps \subseteq mishaps', DOMAIN addresses' = FreeRTOSSymbolName,
         dirty' \/ UNCHANGED <<cache, dirty>>,
         executing' => dirty' /\ selected' = NoTask,
         selected' \in {selected, NoTask}
  PROVE  /\ Kinds' /\ ContextInv' /\ SelectedIsShown'
         /\ \/ dirty' \/ cache' # <<>> \/ "symbols" \in mishaps'
            \/ addresses'["kernel"] # "known" \/ addresses'["kernel"] = addresses["kernel"]
            => FreshInv'
<1>1. /\ UNCHANGED <<port, fpu, lists, current, top, mem, core, version>>
      /\ Faithful' => Faithful
  BY DEF kernel, Faithful
<1>2. Live' = Live
  BY <1>1 DEF Live
<1>3. Kinds'
  BY <1>1, <1>2 DEF IInv, Kinds, CachesTasks
<1>4. ContextInv'
  <2>1. SUFFICES ASSUME Faithful' PROVE (OwnStacks /\ CoreIsOfCurrent(core, current)
                                          /\ \A x \in Live \ fpu : Keeps(x))'
    BY DEF ContextInv
  <2>2. Faithful
    BY <1>1, <2>1
  <2>3. ContextOf(current, core, top, mem, version, Live)
    BY <2>2, KernelBegins
  <2>4. ContextOf(current', core', top', mem', version', LiveIn(lists'))
    <3>1. LiveIn(lists') = Live
      BY <1>1 DEF LiveIn, Live
    <3> QED BY <1>1, <2>3, <3>1
  <2> QED BY <1>1, <2>4, ContextNext
<1>5. SelectedIsShown'
  BY <1>1 DEF IInv, SelectedIsShown
<1>6. ASSUME dirty' \/ cache' # <<>> \/ "symbols" \in mishaps'
             \/ addresses'["kernel"] # "known" \/ addresses'["kernel"] = addresses["kernel"]
      PROVE  FreshInv'
  <2>0. "wire" \notin mishaps' => TopsKnown'
    <3>1. "wire" \notin mishaps' => TopsKnown
      BY DEF IInv, FreshInv
    <3> QED BY <1>1, <3>1 DEF TopsKnown
  <2>1. "hidden" \notin mishaps' => lists'[OtherReady] = <<>>
    BY <1>1 DEF IInv, FreshInv
  <2>2. CASE dirty'
    BY <2>0, <2>1, <2>2 DEF FreshInv
  <2>3. CASE ~dirty'
    <3>1. UNCHANGED <<cache, dirty>>
      BY <2>3
    <3>2. SUFFICES ASSUME ~dirty', mishaps' \cap {"wire", "full", "hidden", "symbols"} = {}
                   PROVE  \/ {cache'[i].tcb : i \in DOMAIN cache'} = Live'
                          \/ cache' = <<>> /\ addresses'["kernel"] # "known"
      BY <2>0, <2>1 DEF FreshInv
    <3>3. \/ {cache[i].tcb : i \in DOMAIN cache} = Live
          \/ cache = <<>> /\ addresses["kernel"] # "known"
      <4>1. ~dirty /\ mishaps \cap {"wire", "full", "hidden", "symbols"} = {}
        BY <3>1, <3>2
      <4> QED BY <4>1 DEF IInv, FreshInv
    <3>4. "symbols" \notin mishaps'
      BY <3>2
    <3> QED BY <1>2, <1>6, <2>3, <3>1, <3>3, <3>4
  <2> QED BY <2>2, <2>3
<1> QED BY <1>3, <1>4, <1>5, <1>6

LEMMA ResetKeeps == ASSUME IInv, qSymbolReset PROVE IInv'
<1>1. /\ UNCHANGED <<kernel, threads, executing, switcher, selected, mishaps>>
      /\ addresses' = [s \in FreeRTOSSymbolName |-> "None"]
  BY DEF qSymbolReset, freertos_clear_symbols
<1>2. UNCHANGED <<cache, dirty, executing, selected, switcher, mishaps, port>> /\ UNCHANGED kernel
  BY <1>1 DEF threads, kernel
<1>3. addresses'["kernel"] # "known" /\ DOMAIN addresses' = FreeRTOSSymbolName
  BY <1>1 DEF FreeRTOSSymbolName
<1>4. executing' => dirty' /\ selected' = NoTask
  BY <1>2 DEF IInv, Kinds
<1>5. Kinds' /\ ContextInv' /\ SelectedIsShown' /\ FreshInv'
  BY <1>2, <1>3, <1>4, SameKernel
<1>6. HandlerMatches'
  BY <1>2 DEF IInv, HandlerMatches, PortHandler, Faithful
<1> QED BY <1>5, <1>6 DEF IInv

LEMMA SymbolKeeps == ASSUME IInv, NEW found \in BOOLEAN, qSymbol(found) PROVE IInv'
<1> DEFINE s == Symbols[asked + 1]
<1>1. /\ addresses' = [addresses EXCEPT ![s] = IF found THEN "known" ELSE "zero"]
      /\ UNCHANGED <<running, kernel, threads, executing, switcher, selected>>
  BY DEF qSymbol
<1>2. PICK unread \in BOOLEAN :
        Seen({k \in Mishap : \/ k = "wire" /\ unread
                             \/ k = "symbols" /\ s = "kernel" /\ found /\ ~dirty /\ cache = <<>>})
  <2>1. PICK unread \in IF s = "freeRTOSDebug" /\ found THEN BOOLEAN ELSE {FALSE} :
        Seen({k \in Mishap : \/ k = "wire" /\ unread
                             \/ k = "symbols" /\ s = "kernel" /\ found /\ ~dirty /\ cache = <<>>})
    BY DEF qSymbol
  <2>2. unread \in BOOLEAN
    OBVIOUS
  <2> HIDE DEF s
  <2> QED BY <2>1, <2>2
<1> HIDE DEF s
<1>3. /\ mishaps \subseteq mishaps' /\ (Faithful' => Faithful)
      /\ s = "kernel" /\ found /\ ~dirty /\ cache = <<>> => "symbols" \in mishaps'
  BY <1>2 DEF Seen, Faithful, Mishap
<1>4. UNCHANGED <<cache, dirty, executing, selected, switcher, port>> /\ UNCHANGED kernel
  BY <1>1 DEF threads, kernel
<1>5. executing' => dirty' /\ selected' = NoTask
  BY <1>4 DEF IInv, Kinds
<1>6. DOMAIN addresses = FreeRTOSSymbolName /\ "kernel" \in DOMAIN addresses
  BY DEF IInv, Kinds, FreeRTOSSymbolName
<1>7. DOMAIN addresses' = FreeRTOSSymbolName
  BY <1>1, <1>6
<1>8. dirty' \/ cache' # <<>> \/ "symbols" \in mishaps'
      \/ addresses'["kernel"] # "known" \/ addresses'["kernel"] = addresses["kernel"]
  <2>1. CASE s = "kernel" /\ found
    BY <1>3, <1>4, <2>1
  <2>2. CASE s = "kernel" /\ ~found
    BY <1>1, <1>6, <2>2
  <2>3. CASE s # "kernel"
    BY <1>1, <1>6, <2>3
  <2> QED BY <2>1, <2>2, <2>3
<1>9. Kinds' /\ ContextInv' /\ SelectedIsShown' /\ FreshInv'
  BY <1>3, <1>4, <1>5, <1>7, <1>8, SameKernel
<1>10. HandlerMatches'
  BY <1>3, <1>4 DEF IInv, HandlerMatches, PortHandler
<1> QED BY <1>9, <1>10 DEF IInv

\* The handler that "mon fos" installs is that of the port, or none
LEMMA HandlerFits ==
  ASSUME port \in Port, NEW flavor, ~Guessed(flavor)
  PROVE  os_attach(flavor, TRUE) \in {"None", PortHandler}
<1>1. CASE flavor = "OWN" /\ PortReg(port) = RiscvReg
  <2>1. offsets \/ port = "ch32"
    BY <1>1 DEF Guessed
  <2>2. os_attach(flavor, TRUE) = create_rv32_switch_handler
    BY <1>1 DEF os_attach
  <2>3. port \in {"rv32_std", "ch32", "ch32_fpu"}
    BY <1>1 DEF PortReg, ArmReg, RiscvReg, Port
  <2>4. CASE port = "rv32_std"
    BY <2>1, <2>2, <2>4 DEF create_rv32_switch_handler, Layout, PortHandler, HandlerOf
  <2>5. CASE port = "ch32"
    BY <2>2, <2>5 DEF create_rv32_switch_handler, Layout, PortHandler, HandlerOf
  <2>6. CASE port = "ch32_fpu"
    BY <2>1, <2>2, <2>6 DEF create_rv32_switch_handler, Layout, PortHandler, HandlerOf
  <2> QED BY <2>3, <2>4, <2>5, <2>6
<1>2. CASE ~(flavor = "OWN" /\ PortReg(port) = RiscvReg)
  <2>1. os_attach(flavor, TRUE) = create_arm_switch_handler(flavor, TRUE)
    BY <1>2 DEF os_attach
  <2>2. create_arm_switch_handler(flavor, TRUE) \in {"None", PortHandler}
    BY DEF create_arm_switch_handler, PortHandler, HandlerOf, Port
  <2> QED BY <2>1, <2>2
<1> QED BY <1>1, <1>2

LEMMA Detached ==
  ASSUME IInv, os_detach, UNCHANGED <<kernel, executing, mishaps>>, selected' \in {selected, NoTask},
         ~executing
  PROVE  IInv'
<1>1. /\ switcher' = "None" /\ cache' = <<>> /\ dirty'
      /\ addresses' = [s \in FreeRTOSSymbolName |-> "None"]
  BY DEF os_detach, freertos_clear_symbols, freertos_invalidate_cache
<1>2. DOMAIN addresses' = FreeRTOSSymbolName /\ mishaps \subseteq mishaps' /\ UNCHANGED kernel
      /\ (executing' => dirty' /\ selected' = NoTask)
  BY <1>1
<1>3. Kinds' /\ ContextInv' /\ SelectedIsShown' /\ FreshInv'
  BY <1>1, <1>2, SameKernel
<1>4. HandlerMatches'
  BY <1>1 DEF HandlerMatches
<1> QED BY <1>3, <1>4 DEF IInv

LEMMA EnableKeeps == ASSUME IInv, NEW flavor, enable_freertos(flavor) PROVE IInv'
<1>1. UNCHANGED <<kernel, executing, selected>> /\ ~executing
  BY DEF enable_freertos, Halted
<1>2. CASE os_detach /\ UNCHANGED mishaps
  BY <1>1, <1>2, Detached
<1>3. ASSUME NEW cpacrRead \in BOOLEAN,
             Seen({k \in Mishap : \/ k = "wire" /\ ~cpacrRead
                                  \/ k = "layout" /\ Guessed(flavor)}),
             switcher' = os_attach(flavor, cpacrRead),
             UNCHANGED <<addresses, offsets, threads>>
      PROVE  IInv'
  <2>1. UNCHANGED <<cache, dirty, addresses, selected, executing>> /\ UNCHANGED kernel /\ UNCHANGED port
    BY <1>1, <1>3 DEF threads, kernel
  <2>2. /\ mishaps \subseteq mishaps' /\ ("wire" \notin mishaps' => cpacrRead = TRUE)
        /\ "layout" \notin mishaps' => ~Guessed(flavor)
    BY <1>3 DEF Seen, Mishap
  <2>3. DOMAIN addresses' = FreeRTOSSymbolName /\ (executing' => dirty' /\ selected' = NoTask)
    BY <2>1 DEF IInv, Kinds
  <2>4. addresses'["kernel"] = addresses["kernel"]
    BY <2>1
  <2>5. Kinds' /\ ContextInv' /\ SelectedIsShown' /\ FreshInv'
    BY <2>1, <2>2, <2>3, <2>4, SameKernel
  <2>6. HandlerMatches'
    <3>1. SUFFICES ASSUME Faithful' PROVE switcher' \in {"None", PortHandler'}
      BY DEF HandlerMatches
    <3>2. cpacrRead = TRUE /\ ~Guessed(flavor)
      BY <2>2, <3>1 DEF Faithful
    <3>3. os_attach(flavor, TRUE) \in {"None", PortHandler}
      BY <3>2, KernelBegins, HandlerFits
    <3>4. PortHandler' = PortHandler
      BY <2>1 DEF PortHandler
    <3> QED BY <1>3, <3>2, <3>3, <3>4
  <2> QED BY <2>5, <2>6 DEF IInv
<1> QED BY <1>2, <1>3 DEF enable_freertos

LEMMA RunKeeps == ASSUME IInv, Resume \/ Stop PROVE IInv'
<1>1. UNCHANGED <<kernel, symbols, switcher, mishaps>> /\ dirty'
  BY DEF Resume, Stop, freertos_invalidate_cache
<1>2. /\ executing' => selected' = NoTask
      /\ selected' \in {selected, NoTask}
  BY DEF Resume, Stop
<1>3. /\ UNCHANGED <<addresses, port, switcher>> /\ UNCHANGED kernel
      /\ DOMAIN addresses' = FreeRTOSSymbolName /\ mishaps \subseteq mishaps'
  BY <1>1 DEF symbols, kernel, IInv, Kinds
<1>4. Kinds' /\ ContextInv' /\ SelectedIsShown' /\ FreshInv'
  BY <1>1, <1>2, <1>3, SameKernel
<1>5. HandlerMatches'
  BY <1>1, <1>3 DEF IInv, HandlerMatches, PortHandler, Faithful
<1> QED BY <1>4, <1>5 DEF IInv

LEMMA DetachKeeps == ASSUME IInv, Detach PROVE IInv'
<1>1. os_detach /\ UNCHANGED <<kernel, asked, executing, mishaps>> /\ ~executing /\ selected' = NoTask
  BY DEF Detach
<1>2. UNCHANGED <<kernel, executing, mishaps>>
  BY <1>1
<1> QED BY <1>1, <1>2, Detached

-----------------------------------------------------------------------------
(* What a query collects.                                                  *)

\* What becomes of the cache: it is that of before, or has live tasks, with the
\* pointers they were left with, and all of them if each could be read and no
\* task is hidden
Collected(c, unread) ==
  /\ ~dirty => c.cache = cache
  /\ dirty =>
       /\ \A i \in DOMAIN c.cache : /\ {"tcb", "top"} \subseteq DOMAIN c.cache[i]
                                    /\ c.cache[i].tcb \in Live
                                    /\ c.cache[i].top = top[c.cache[i].tcb]
       /\ unread = {} /\ ~c.full /\ ~HiddenIn(lists) =>
            \/ {c.cache[i].tcb : i \in DOMAIN c.cache} = Live
            \/ c.cache = <<>> /\ addresses["kernel"] # "known"

LEMMA TasksOfJoin ==
  ASSUME NEW s \in Seq(Tcb), NEW t \in Seq(Tcb)
  PROVE  s \o t \in Seq(Tcb) /\ Tasks(s \o t) = Tasks(s) \cup Tasks(t)
<1> DEFINE u == s \o t
           m == Len(s)
           n == Len(t)
<1>1. m \in Nat /\ n \in Nat /\ DOMAIN s = 1..m /\ DOMAIN t = 1..n
  BY LenProperties
<1>2. /\ u \in Seq(Tcb) /\ Len(u) = m + n
      /\ \A i \in 1..(m + n) : u[i] = IF i <= m THEN s[i] ELSE t[i - m]
  BY ConcatProperties
<1> HIDE DEF u, m, n
<1>3. DOMAIN u = 1..(m + n)
  BY <1>2, LenProperties
<1>4. ASSUME NEW i \in 1..(m + n) PROVE u[i] \in Tasks(s) \cup Tasks(t)
  <2>1. CASE i <= m
    <3>1. i \in 1..m /\ u[i] = s[i]
      BY <1>1, <1>2, <2>1
    <3> QED BY <1>1, <3>1 DEF Tasks
  <2>2. CASE ~(i <= m)
    <3>1. i - m \in 1..n /\ u[i] = t[i - m]
      BY <1>1, <1>2, <2>2
    <3> QED BY <1>1, <3>1 DEF Tasks
  <2> QED BY <2>1, <2>2
<1>5. ASSUME NEW i \in 1..m PROVE s[i] \in Tasks(u)
  <2>1. i \in 1..(m + n) /\ u[i] = s[i]
    BY <1>1, <1>2
  <2> QED BY <1>3, <2>1 DEF Tasks
<1>6. ASSUME NEW i \in 1..n PROVE t[i] \in Tasks(u)
  <2>1. m + i \in 1..(m + n) /\ ~(m + i <= m) /\ (m + i) - m = i
    BY <1>1
  <2>2. u[m + i] = t[i]
    BY <1>2, <2>1
  <2> QED BY <1>3, <2>1, <2>2 DEF Tasks
<1>7. Tasks(u) \subseteq Tasks(s) \cup Tasks(t)
  BY <1>3, <1>4 DEF Tasks
<1>8. Tasks(s) \subseteq Tasks(u) /\ Tasks(t) \subseteq Tasks(u)
  BY <1>1, <1>5, <1>6 DEF Tasks
<1> QED BY <1>2, <1>7, <1>8 DEF u

LEMMA CrawledAre ==
  ASSUME Kinds, NEW unread
  PROVE  /\ Crawled(unread) \in Seq(Tcb) /\ Tasks(Crawled(unread)) \subseteq Live
         /\ unread = {} /\ ~HiddenIn(lists) => Tasks(Crawled(unread)) = Live
<1>1. lists \in [Lists -> Seq(Tcb)] /\ current \in Live /\ current \in Tcb
  BY DEF Kinds, Live, Tasks
<1> DEFINE a == crawl(SuspendedList)
           b == crawl(DelayedList)
           c == crawl(ReadyList)
           all == <<current>> \o a \o b \o c
<1>2. ASSUME NEW l \in Lists
      PROVE  /\ crawl(l) \in Seq(Tcb) /\ Tasks(crawl(l)) \subseteq Tasks(lists[l])
             /\ Tasks(lists[l]) \ {current} \subseteq Tasks(crawl(l))
  <2>1. RemovesOne(RemoveFirst(lists[l], current), lists[l], current, Tcb)
    BY <1>1, Removed
  <2> QED BY <2>1 DEF crawl, RemovesOne
<1>3. a \in Seq(Tcb) /\ b \in Seq(Tcb) /\ c \in Seq(Tcb)
  BY <1>2, IndexesOfLists
<1> HIDE DEF a, b, c
<1>4. <<current>> \in Seq(Tcb) /\ Tasks(<<current>>) = {current}
  BY <1>1 DEF Tasks
<1>5. all \in Seq(Tcb) /\ Tasks(all) = {current} \cup Tasks(a) \cup Tasks(b) \cup Tasks(c)
  <2>1. <<current>> \o a \in Seq(Tcb) /\ Tasks(<<current>> \o a) = {current} \cup Tasks(a)
    BY <1>3, <1>4, TasksOfJoin
  <2>2. /\ <<current>> \o a \o b \in Seq(Tcb)
        /\ Tasks(<<current>> \o a \o b) = {current} \cup Tasks(a) \cup Tasks(b)
    BY <1>3, <2>1, TasksOfJoin
  <2> QED BY <1>3, <2>2, TasksOfJoin
<1>6. Tasks(all) \subseteq Live
  BY <1>1, <1>2, <1>5, IndexesOfLists DEF Live, a, b, c
<1>7. ~HiddenIn(lists) => Live \subseteq Tasks(all)
  <2>1. SUFFICES ASSUME lists[OtherReady] = <<>>, NEW l \in Lists, NEW t \in Tasks(lists[l]), t # current
                 PROVE  t \in Tasks(all)
    BY <1>5 DEF HiddenIn, Live
  <2>2. l # OtherReady
    BY <2>1 DEF Tasks
  <2>3. t \in Tasks(crawl(l))
    BY <1>2, <2>1
  <2> QED BY <1>5, <2>2, <2>3, IndexesOfLists DEF a, b, c
<1>8. CASE unread = {}
  <2>1. Crawled(unread) = all
    BY <1>8 DEF Crawled, a, b, c
  <2> QED BY <1>5, <1>6, <1>7, <2>1
<1>9. CASE unread # {}
  <2> DEFINE e == CHOOSE t \in unread : TRUE
  <2>1. Crawled(unread) = RemoveFirst(all, e)
    BY <1>9 DEF Crawled, a, b, c
  <2> HIDE DEF e, all
  <2>2. RemovesOne(RemoveFirst(all, e), all, e, Tcb)
    BY <1>5, Removed
  <2> QED BY <1>6, <1>9, <2>1, <2>2 DEF RemovesOne
<1> QED BY <1>8, <1>9

LEMMA Collection ==
  ASSUME Kinds, NEW unread
  PROVE  Collected(freertos_collect_information(unread), unread)
<1> DEFINE c == freertos_collect_information(unread)
<1>1. CASE ~dirty
  <2>1. c.cache = cache
    BY <1>1 DEF freertos_collect_information, Now
  <2> QED BY <1>1, <2>1 DEF Collected
<1>2. CASE dirty /\ NoTask \in unread
  <2>1. c.cache = <<>> /\ unread # {}
    BY <1>2 DEF freertos_collect_information, Now
  <2> QED BY <1>2, <2>1 DEF Collected
<1>3. CASE dirty /\ NoTask \notin unread
  <2> DEFINE known == addresses["kernel"] = "known"
             seen  == IF known THEN Crawled(unread) ELSE <<>>
             ids   == Numbered(seen)
             last  == ids[Len(seen)]
             n     == Min({Len(seen), MAX_FREERTOS_TASKS})
             pushed == [i \in 1..n |-> read_tcb(seen[i], ids[i])]
             pruned == prune_dead(last.map, {pushed[i].tcb : i \in DOMAIN pushed})
             full  == last.full \/ Len(seen) > MAX_FREERTOS_TASKS
  <2>1. c = [cache |-> pushed, map |-> pruned, index |-> last.index, full |-> full]
    BY <1>3, Zenon DEF freertos_collect_information
  <2> HIDE DEF c, ids, last, pruned
  <2>2. c.cache = pushed /\ c.full = full
    <3> HIDE DEF pushed, full
    <3> QED BY <2>1
  <2>3. /\ seen \in Seq(Tcb) /\ Tasks(seen) \subseteq Live
        /\ known /\ unread = {} /\ ~HiddenIn(lists) => Tasks(seen) = Live
        /\ ~known => seen = <<>>
    <3> HIDE DEF known
    <3>1. CASE known
      <4>1. seen = Crawled(unread)
        BY <3>1
      <4> HIDE DEF seen
      <4> QED BY <3>1, <4>1, CrawledAre
    <3>2. CASE ~known
      <4>1. seen = <<>>
        BY <3>2
      <4>2. Tasks(<<>>) = {} /\ <<>> \in Seq(Tcb)
        BY DEF Tasks
      <4> HIDE DEF seen
      <4> QED BY <3>2, <4>1, <4>2
    <3> QED BY <3>1, <3>2
  <2> HIDE DEF known, seen
  <2>4. Len(seen) \in Nat /\ DOMAIN seen = 1..Len(seen)
    BY <2>3, LenProperties
  <2>5. /\ n \in Nat /\ n <= Len(seen)
        /\ ~(Len(seen) > MAX_FREERTOS_TASKS) => n = Len(seen)
    <3> DEFINE m == Len(seen)
               I == {m, MAX_FREERTOS_TASKS}
    <3>1. MAX_FREERTOS_TASKS \in Nat /\ m \in Nat
      BY <2>4, ThreadAssumption
    <3>2. \E x \in I : \A y \in I : x =< y
      BY <3>1
    <3>3. Min(I) \in I /\ \A y \in I : Min(I) =< y
      <4> HIDE DEF I
      <4> QED BY <3>2 DEF Min
    <3> HIDE DEF m
    <3> QED BY <3>1, <3>3 DEF m
  <2> HIDE DEF n
  <2>6. DOMAIN pushed = 1..n
    OBVIOUS
  <2>7. ASSUME NEW i \in 1..n
        PROVE  /\ pushed[i].tcb = seen[i] /\ pushed[i].top = top[seen[i]] /\ seen[i] \in Tasks(seen)
               /\ {"tcb", "top"} \subseteq DOMAIN pushed[i]
    <3>1. pushed[i] = read_tcb(seen[i], ids[i])
      OBVIOUS
    <3>2. i \in DOMAIN seen
      <4>1. \A m \in Nat : n <= m => i \in 1..m
        BY <2>5
      <4> QED BY <2>4, <2>5, <4>1, Zenon
    <3> HIDE DEF pushed
    <3> QED BY <3>1, <3>2 DEF read_tcb, Tasks
  <2> HIDE DEF pushed
  <2>8. \A i \in DOMAIN pushed : /\ {"tcb", "top"} \subseteq DOMAIN pushed[i]
                                /\ pushed[i].tcb \in Live /\ pushed[i].top = top[pushed[i].tcb]
    BY <2>3, <2>6, <2>7
  <2>9. ASSUME unread = {}, ~full, ~HiddenIn(lists)
        PROVE  \/ {pushed[i].tcb : i \in DOMAIN pushed} = Live
               \/ pushed = <<>> /\ ~known
    <3>1. ~(Len(seen) > MAX_FREERTOS_TASKS)
      BY <2>9
    <3>2. n = Len(seen)
      BY <2>5, <3>1
    <3>3. {pushed[i].tcb : i \in DOMAIN pushed} = Tasks(seen)
      BY <2>4, <2>6, <2>7, <3>2 DEF Tasks
    <3>4. CASE known
      BY <2>3, <2>9, <3>3, <3>4
    <3>5. CASE ~known
      <4>1. DOMAIN pushed = {} /\ pushed = [i \in 1..n |-> pushed[i]]
        <5>1. n = 0
          BY <2>3, <2>4, <3>2, <3>5
        <5>2. pushed = [i \in 1..n |-> pushed[i]]
          BY DEF pushed
        <5> QED BY <2>6, <5>1, <5>2
      <4>2. pushed = <<>>
        BY <4>1
      <4> QED BY <3>5, <4>2
    <3> QED BY <3>4, <3>5
  <2>10. \A i \in DOMAIN c.cache : /\ {"tcb", "top"} \subseteq DOMAIN c.cache[i]
                                  /\ c.cache[i].tcb \in Live /\ c.cache[i].top = top[c.cache[i].tcb]
    BY <2>2, <2>8
  <2>11. unread = {} /\ ~c.full /\ ~HiddenIn(lists) =>
           \/ {c.cache[i].tcb : i \in DOMAIN c.cache} = Live
           \/ c.cache = <<>> /\ addresses["kernel"] # "known"
    <3> HIDE DEF full
    <3> QED BY <2>2, <2>9 DEF known
  <2> QED BY <1>3, <2>10, <2>11 DEF Collected, c
<1> QED BY <1>1, <1>2, <1>3

-----------------------------------------------------------------------------
(* The queries and the switch.                                             *)

\* What a step that collects knows of its cache, whatever it does with it
Filled(c) ==
  /\ \A i \in DOMAIN c.cache : {"tcb", "top"} \subseteq DOMAIN c.cache[i] /\ c.cache[i].tcb \in Live
  /\ "wire" \notin mishaps =>
       \A i \in DOMAIN c.cache :
         c.cache[i].tcb # current => c.cache[i].top = top[c.cache[i].tcb]
  /\ mishaps' \cap {"wire", "full", "hidden", "symbols"} = {} =>
       \/ {c.cache[i].tcb : i \in DOMAIN c.cache} = Live
       \/ c.cache = <<>> /\ addresses["kernel"] # "known"

LEMMA Filling ==
  ASSUME IInv, NEW c, NEW unread, Collected(c, unread), mishaps \subseteq mishaps',
         unread # {} => "wire" \in mishaps', c.full => "full" \in mishaps'
  PROVE  Filled(c)
<1>1. \A i \in DOMAIN c.cache : {"tcb", "top"} \subseteq DOMAIN c.cache[i] /\ c.cache[i].tcb \in Live
  <2>1. CASE ~dirty
    BY <2>1 DEF Collected, IInv, Kinds, CachesTasks
  <2>2. CASE dirty
    BY <2>2 DEF Collected
  <2> QED BY <2>1, <2>2
<1>2. ASSUME "wire" \notin mishaps, NEW i \in DOMAIN c.cache, c.cache[i].tcb # current
      PROVE  c.cache[i].top = top[c.cache[i].tcb]
  <2>1. CASE ~dirty
    BY <1>2, <2>1 DEF Collected, IInv, FreshInv, TopsKnown
  <2>2. CASE dirty
    BY <1>2, <2>2 DEF Collected
  <2> QED BY <2>1, <2>2
<1>3. ASSUME mishaps' \cap {"wire", "full", "hidden", "symbols"} = {}
      PROVE  \/ {c.cache[i].tcb : i \in DOMAIN c.cache} = Live
             \/ c.cache = <<>> /\ addresses["kernel"] # "known"
  <2>1. /\ unread = {} /\ ~c.full /\ "hidden" \notin mishaps
        /\ mishaps \cap {"wire", "full", "hidden", "symbols"} = {}
    BY <1>3
  <2>2. ~HiddenIn(lists)
    BY <2>1 DEF IInv, FreshInv, HiddenIn
  <2>3. CASE ~dirty
    BY <2>1, <2>3 DEF Collected, IInv, FreshInv
  <2>4. CASE dirty
    BY <2>1, <2>2, <2>4 DEF Collected
  <2> QED BY <2>3, <2>4
<1> QED BY <1>1, <1>2, <1>3 DEF Filled

\* A query that leaves the target as it is
LEMMA QueryKeeps ==
  ASSUME IInv, NEW c, Filled(c), UNCHANGED <<kernel, symbols, executing, switcher>>, Halted,
         mishaps \subseteq mishaps', cache' = c.cache, dirty' = FALSE,
         selected' \in {selected, current}
  PROVE  IInv'
<1>1. /\ UNCHANGED <<port, fpu, lists, current, top, mem, core, version, addresses>>
      /\ Faithful' => Faithful
  BY DEF kernel, symbols, Faithful
<1>2. Live' = Live /\ ~executing' /\ "wire" \notin mishaps
  BY <1>1 DEF Live, Halted
<1>3. Kinds'
  BY <1>1, <1>2 DEF IInv, Kinds, CachesTasks, Filled
<1>4. HandlerMatches'
  BY <1>1 DEF IInv, HandlerMatches, PortHandler
<1>5. ContextInv'
  <2>1. SUFFICES ASSUME Faithful' PROVE (OwnStacks /\ CoreIsOfCurrent(core, current)
                                          /\ \A x \in Live \ fpu : Keeps(x))'
    BY DEF ContextInv
  <2>2. ContextOf(current, core, top, mem, version, Live)
    BY <1>1, <2>1, KernelBegins
  <2>3. ContextOf(current', core', top', mem', version', LiveIn(lists'))
    <3>1. LiveIn(lists') = Live
      BY <1>1 DEF LiveIn, Live
    <3> QED BY <1>1, <2>2, <3>1
  <2> QED BY <1>1, <2>3, ContextNext
<1>6. FreshInv'
  <2>1. "hidden" \notin mishaps' => lists'[OtherReady] = <<>>
    BY <1>1 DEF IInv, FreshInv
  <2>2. TopsKnown'
    BY <1>1, <1>2 DEF TopsKnown, Filled
  <2>3. mishaps' \cap {"wire", "full", "hidden", "symbols"} = {} =>
          \/ {cache'[i].tcb : i \in DOMAIN cache'} = Live'
          \/ cache' = <<>> /\ addresses'["kernel"] # "known"
    BY <1>1, <1>2 DEF Filled
  <2> QED BY <2>1, <2>2, <2>3 DEF FreshInv
<1>7. SelectedIsShown'
  BY <1>1 DEF IInv, SelectedIsShown
<1> QED BY <1>3, <1>4, <1>5, <1>6, <1>7 DEF IInv

LEMMA ThreadsKeep == ASSUME IInv, ThreadQuery PROVE IInv'
<1>1. PICK unread \in Unread :
        /\ Collect(unread, freertos_collect_information(unread))
        /\ cache' = freertos_collect_information(unread).cache
  BY DEF ThreadQuery
<1> DEFINE c == freertos_collect_information(unread)
<1>2. Halted /\ UNCHANGED <<kernel, symbols, executing, switcher, selected>>
  BY DEF ThreadQuery
<1>3. Collected(c, unread)
  BY KernelBegins, Collection
<1> HIDE DEF c
<1>4. /\ dirty' = FALSE /\ cache' = c.cache
      /\ Seen({k \in Mishap : \/ k = "wire" /\ unread # {}
                              \/ k = "full" /\ c.full})
  BY <1>1 DEF Collect, c
<1>5. mishaps \subseteq mishaps' /\ (unread # {} => "wire" \in mishaps') /\ (c.full => "full" \in mishaps')
  BY <1>4 DEF Seen, Mishap
<1>6. Filled(c)
  BY <1>3, <1>5, Filling
<1> QED BY <1>2, <1>4, <1>5, <1>6, QueryKeeps

\* The handler of the port swaps two contexts
LEMMA HandlerSwaps ==
  ASSUME port \in Port, DOMAIN top = Tcb, version \in [Tcb -> 0..1], current \in Tcb,
         NEW live \in SUBSET Tcb, ContextOf(current, core, top, mem, version, live),
         core[PortSP(port)][2] >= FrameSize(PortHandler),
         NEW u \in Tcb, u # current, NEW layout,
         NEW saved, saved = write_registers_to_stack(PortHandler, Context(core, mem)),
         NEW loaded, loaded = read_registers_from_addr(PortHandler, layout, saved, top[u])
  PROVE  ContextOf(u, loaded.registers, [top EXCEPT ![current] = saved.sp], saved.mem, version, live)
<1> DEFINE w  == current
           sp == PortSP(port)
           k  == core[sp][2]
           m  == k - FrameLen(port)
           n  == top[u][2]
           R  == Registers(u, version[u])
           tops == [top EXCEPT ![w] = saved.sp]
<1>1. /\ Stacks(mem) /\ CoreIsOfCurrent(core, w)
      /\ \A x \in Tcb : top[x][2] \in Int /\ top[x] = <<x, top[x][2]>>
      /\ \A x \in live \ fpu : KeepsIn(w, core, top, mem, version, x)
  BY DEF ContextOf
<1>2. core[sp] = <<w, k>> /\ k \in Int
  BY <1>1 DEF CoreIsOfCurrent
<1>3. FrameLen(port) \in 16..31 /\ FrameLen(port) = FrameSize(PortHandler) /\ Size = FrameLen(port)
  BY FrameLens DEF PortHandler, FrameLen, Size
<1>4. m \in Int /\ 0 <= m
  <2> HIDE DEF k
  <2>1. k >= FrameLen(port)
    BY <1>3 DEF k, sp
  <2> QED BY <1>2, <1>3, <2>1
<1>5. n \in Int /\ top[u] = <<u, n>> /\ version[u] \in 0..1 /\ version[w] \in 0..1
  BY <1>1
<1> HIDE DEF m, n, k, R, sp, w
<1>6. Saves(saved, core, mem, w, k, m, sp, port, FrameLen(port))
  <2>1. m = k - FrameLen(port) /\ core[PortSP(port)] = <<w, k>> /\ w \in Tcb
    BY <1>2 DEF m, sp, w
  <2> QED BY <1>1, <1>2, <2>1, HandlerSaves DEF PortHandler, sp
<1>7. PICK Q, q, N :
        /\ saved = Ctx(Q, q, N, <<w, m>>)
        /\ DOMAIN Q = DOMAIN core /\ \A r \in DOMAIN core \ {sp} : Q[r] = core[r]
        /\ Stacks(N) /\ OnlyStack(mem, N, w)
        /\ 0 <= m /\ k <= Depth /\ Tidy(core, port) => FrameIn(N, w, m, core, port, FrameLen(port))
  BY <1>6 DEF Saves
<1>8. saved.mem = N /\ saved.sp = <<w, m>>
  BY <1>7 DEF Ctx
<1>9. DOMAIN core = PortReg(port)
  BY <1>1 DEF CoreIsOfCurrent
<1>10. Loads(loaded.registers, Q, N, u, n, R, port, sp, FrameLen(port), PortReg(port))
  <2>1. loaded = read_registers_from_addr(HandlerOf(port), layout, Ctx(Q, q, N, <<w, m>>), <<u, n>>)
    BY <1>5, <1>7 DEF PortHandler
  <2>2. DOMAIN Q = PortReg(port)
    BY <1>7, <1>9
  <2> QED BY <1>5, <2>1, <2>2, HandlerLoads DEF sp
<1>11. PortReg(port) = RiscvReg => Q[3] = Shared /\ Q[4] = SharedTp
  BY <1>1, <1>7, <1>9, PortRegisters DEF CoreIsOfCurrent, sp
<1>12. /\ CoreIsOfCurrent(loaded.registers, u)
       /\ u \notin fpu /\ n = Depth - version[u] - Size /\ FrameAt(N, u, n, R) => loaded.registers = R
  BY <1>5, <1>10, <1>11, Loaded DEF R, sp
<1>13. tops[w] = <<w, m>> /\ \A x \in Tcb \ {w} : tops[x] = top[x]
  BY <1>8 DEF w
<1> HIDE DEF tops
<1>14. ASSUME NEW x \in Tcb PROVE tops[x][2] \in Int /\ tops[x] = <<x, tops[x][2]>>
  <2>1. CASE x = w
    BY <1>4, <1>13, <2>1
  <2>2. CASE x # w
    BY <1>1, <1>13, <2>2
  <2> QED BY <2>1, <2>2
<1>15. ASSUME NEW x \in live \ fpu PROVE KeepsIn(u, loaded.registers, tops, N, version, x)
  <2>0. x \in Tcb /\ x \notin fpu /\ w # u
    BY DEF w
  <2>1. CASE x = w
    <3>1. core = Registers(w, version[w])
      BY <1>1, <2>1 DEF KeepsIn
    <3>2. RegistersOf(core, w, version[w])
      BY <1>5, <2>0, <2>1, <3>1, RegistersAre
    <3>3. core[sp] = <<w, Depth - version[w]>> /\ Tidy(core, port)
      BY <2>0, <2>1, <3>2 DEF RegistersOf, sp
    <3>4. k = Depth - version[w]
      BY <3>3 DEF k
    <3>5. k <= Depth /\ m = Depth - version[w] - Size
      BY <1>3, <1>5, <3>4, FrameAssumption DEF m
    <3>6. FrameAt(N, w, m, core)
      BY <1>3, <1>4, <1>7, <3>3, <3>5 DEF FrameIn, FrameAt
    <3>7. FrameAt(N, w, m, Registers(w, version[w]))
      BY <3>1, <3>6
    <3>8. tops[w][2] = m
      BY <1>13
    <3> QED BY <2>0, <2>1, <3>5, <3>7, <3>8 DEF KeepsIn
  <2>2. CASE x # w
    <3> DEFINE a == top[x][2]
               P == Registers(x, version[x])
    <3>1. a = Depth - version[x] - Size /\ FrameAt(mem, x, a, P)
      BY <1>1, <2>2 DEF KeepsIn
    <3> HIDE DEF a, P
    <3>2. FrameAt(N, x, a, P)
      BY <1>1, <1>7, <2>0, <2>2, <3>1, FramesStay
    <3>3. CASE x = u
      <4>1. loaded.registers = R
        BY <1>12, <2>0, <3>1, <3>2, <3>3 DEF a, P, n, R
      <4> QED BY <3>3, <4>1 DEF KeepsIn, R
    <3>4. CASE x # u
      <4>1. tops[x] = top[x]
        BY <1>13, <2>0, <2>2
      <4> QED BY <3>1, <3>2, <3>4, <4>1 DEF KeepsIn, a, P
    <3> QED BY <3>3, <3>4
  <2> QED BY <2>1, <2>2
<1>16. ContextOf(u, loaded.registers, tops, N, version, live)
  BY <1>7, <1>12, <1>14, <1>15 DEF ContextOf
<1> QED BY <1>8, <1>16 DEF tops, w

\* The pointer kept of the task that is left, all else being as collected
KeptAs(e, entries, s) ==
  /\ DOMAIN e = DOMAIN entries
  /\ \A i \in DOMAIN entries :
       /\ DOMAIN e[i] = DOMAIN entries[i] /\ e[i].tcb = entries[i].tcb
       /\ e[i].top = IF entries[i].tcb = current THEN s ELSE entries[i].top

LEMMA TopIsKept ==
  ASSUME NEW c, NEW s, \A i \in DOMAIN c.cache : {"tcb", "top"} \subseteq DOMAIN c.cache[i]
  PROVE  KeptAs(KeptTop(c.cache, s), c.cache, s)
<1> DEFINE e == KeptTop(c.cache, s)
<1>1. e = [i \in DOMAIN c.cache |-> IF c.cache[i].tcb = current THEN [c.cache[i] EXCEPT !.top = s]
                                    ELSE c.cache[i]]
  BY DEF KeptTop
<1> HIDE DEF e
<1>2. DOMAIN e = DOMAIN c.cache
  BY <1>1
<1>3. ASSUME NEW i \in DOMAIN c.cache
      PROVE  /\ DOMAIN e[i] = DOMAIN c.cache[i] /\ e[i].tcb = c.cache[i].tcb
             /\ e[i].top = IF c.cache[i].tcb = current THEN s ELSE c.cache[i].top
  <2> DEFINE r == c.cache[i]
  <2>1. e[i] = IF r.tcb = current THEN [r EXCEPT !.top = s] ELSE r
    BY <1>1
  <2>2. "tcb" \in DOMAIN r /\ "top" \in DOMAIN r
    BY <1>3
  <2> HIDE DEF r
  <2>3. CASE r.tcb = current
    <3>1. e[i] = [r EXCEPT !.top = s]
      BY <2>1, <2>3
    <3>2. DOMAIN e[i] = DOMAIN r /\ e[i].tcb = r.tcb /\ e[i].top = s
      BY <2>2, <3>1
    <3> QED BY <2>3, <3>2 DEF r
  <2>4. CASE r.tcb # current
    BY <2>1, <2>4 DEF r
  <2> QED BY <2>3, <2>4
<1> QED BY <1>2, <1>3 DEF e, KeptAs

LEMMA TaskSwitchKeeps ==
  ASSUME IInv, Halted, UNCHANGED <<port, fpu, switches, symbols, executing, switcher>>,
         NEW c, Filled(c), mishaps \subseteq mishaps', dirty' = FALSE,
         NEW fault, fault # "none" => "wire" \in mishaps',
         NEW j \in DOMAIN c.cache, NEW info, info = c.cache[j], info.tcb # current, switcher # "None",
         core[PortSP(port)][2] >= FrameSize(switcher),
         freertos_switch_task(info, c, fault)
  PROVE  IInv'
<1> DEFINE saved  == write_registers_to_stack(switcher, Context(core, mem))
           loaded == read_registers_from_addr(switcher, Layout, saved, info.top)
           u      == info.tcb
           fails  == fault = "core" /\ PortReg(port) = ArmReg
<1>1. UNCHANGED addresses /\ ~executing /\ "wire" \notin mishaps
  BY DEF symbols, Halted
<1>2. /\ Kinds /\ port \in Port /\ version \in [Tcb -> 0..1] /\ DOMAIN top = Tcb
      /\ lists \in [Lists -> Seq(Tcb)] /\ Live \subseteq Tcb /\ current \in Live
      /\ Faithful => ContextOf(current, core, top, mem, version, Live)
  BY KernelBegins DEF Kinds
<1>3. /\ u \in Live
      /\ \A i \in DOMAIN c.cache : {"tcb", "top"} \subseteq DOMAIN c.cache[i] /\ c.cache[i].tcb \in Live
      /\ info.top = top[u]
  BY <1>1 DEF Filled
<1>4. /\ UNCHANGED <<lists, version>>
      /\ current' \in {current, u}
      /\ top' = top \/ top' = [top EXCEPT ![current] = saved.sp]
      /\ cache' = c.cache \/ cache' = KeptTop(c.cache, saved.sp)
  <2> HIDE DEF saved
  <2>1. CASE fault = "read" \/ (fault = "load" /\ switcher = "m4f")
    BY <2>1 DEF freertos_switch_task, Refused
  <2>2. CASE ~(fault = "read" \/ (fault = "load" /\ switcher = "m4f"))
    <3>1. /\ top'  = IF fails \/ fault = "top" THEN top ELSE [top EXCEPT ![current] = saved.sp]
          /\ cache' = IF fails THEN c.cache ELSE KeptTop(c.cache, saved.sp)
          /\ set_pxCurrentTCB(u, ~fails /\ fault # "current")
          /\ UNCHANGED <<lists, version>>
      BY <2>2 DEF freertos_switch_task, saved
    <3>2. current' \in {current, u}
      <4> HIDE DEF fails, u
      <4> QED BY <3>1 DEF set_pxCurrentTCB
    <3> HIDE DEF fails
    <3> QED BY <3>1, <3>2
  <2> QED BY <2>1, <2>2
<1>5. Live' = Live /\ LiveIn(lists') = Live
  BY <1>4 DEF Live, LiveIn
<1>6. /\ DOMAIN cache' = DOMAIN c.cache
      /\ \A i \in DOMAIN c.cache : /\ DOMAIN cache'[i] = DOMAIN c.cache[i]
                                   /\ cache'[i].tcb = c.cache[i].tcb
  <2>1. CASE cache' = c.cache
    BY <2>1
  <2>2. CASE cache' = KeptTop(c.cache, saved.sp)
    <3>1. \A i \in DOMAIN c.cache : {"tcb", "top"} \subseteq DOMAIN c.cache[i]
      BY <1>3
    <3>2. KeptAs(KeptTop(c.cache, saved.sp), c.cache, saved.sp)
      <4> HIDE DEF saved
      <4> QED BY <3>1, TopIsKept, Zenon
    <3> QED BY <2>2, <3>2 DEF KeptAs
  <2> QED BY <1>4, <2>1, <2>2
<1>7. Kinds'
  <2>1. DOMAIN top' = Tcb
    <3> HIDE DEF saved
    <3> QED BY <1>2, <1>4
  <2>2. CachesTasks'
    BY <1>3, <1>5, <1>6 DEF CachesTasks
  <2>3. current' \in Live
    <3> HIDE DEF u
    <3> QED BY <1>2, <1>3, <1>4
  <2> HIDE DEF saved, u
  <2> QED BY <1>1, <1>2, <1>4, <1>5, <2>1, <2>2, <2>3 DEF Kinds
<1>8. "hidden" \notin mishaps' => lists'[OtherReady] = <<>>
  BY <1>4 DEF IInv, FreshInv
<1>9. CASE fault # "none"
  <2>1. "wire" \in mishaps'
    BY <1>9
  <2>2. ~Faithful'
    BY <2>1 DEF Faithful
  <2> QED BY <1>7, <1>8, <2>1, <2>2
            DEF IInv, HandlerMatches, ContextInv, FreshInv, SelectedIsShown
<1>10. CASE fault = "none"
  <2>1. /\ mem' = saved.mem /\ core' = loaded.registers
        /\ top' = [top EXCEPT ![current] = saved.sp]
        /\ cache' = KeptTop(c.cache, saved.sp)
        /\ current' = u /\ selected' = u
    <3>1. /\ mem'  = saved.mem
          /\ core' = IF fault = "core" THEN HalfWritten(core, loaded.registers) ELSE loaded.registers
          /\ top'  = IF fails \/ fault = "top" THEN top ELSE [top EXCEPT ![current] = saved.sp]
          /\ cache' = IF fails THEN c.cache ELSE KeptTop(c.cache, saved.sp)
          /\ set_pxCurrentTCB(u, ~fails /\ fault # "current")
          /\ selected' = IF fails THEN selected ELSE u
      BY <1>10, Zenon DEF freertos_switch_task
    <3>2. ~fails /\ fault # "core" /\ fault # "top" /\ fault # "current"
      BY <1>10
    <3> HIDE DEF fails, saved, loaded, u
    <3> QED BY <3>1, <3>2 DEF set_pxCurrentTCB
  <2>2. SelectedIsShown'
    BY <2>1 DEF SelectedIsShown
  <2>3. HandlerMatches'
    BY DEF IInv, HandlerMatches, PortHandler, Faithful
  <2>4. ContextInv'
    <3>1. SUFFICES ASSUME Faithful' PROVE (OwnStacks /\ CoreIsOfCurrent(core, current)
                                            /\ \A x \in Live \ fpu : Keeps(x))'
      BY DEF ContextInv
    <3>2. Faithful
      BY <3>1 DEF Faithful
    <3>3. switcher = PortHandler
      BY <3>2 DEF IInv, HandlerMatches
    <3>4. ContextOf(current, core, top, mem, version, Live)
      BY <1>2, <3>2
    <3>5. saved = write_registers_to_stack(PortHandler, Context(core, mem))
      BY <3>3
    <3>6. loaded = read_registers_from_addr(PortHandler, Layout, saved, top[u])
      BY <1>3, <3>3
    <3>7. core[PortSP(port)][2] >= FrameSize(PortHandler)
      BY <3>3
    <3>8. u \in Tcb /\ u # current /\ current \in Tcb
      BY <1>2, <1>3
    <3> DEFINE y == Layout
    <3> HIDE DEF saved, loaded, u, y
    <3>9. ContextOf(u, loaded.registers, [top EXCEPT ![current] = saved.sp], saved.mem, version, Live)
      <4>1. loaded = read_registers_from_addr(PortHandler, y, saved, top[u])
        BY <3>6 DEF y
      <4> QED BY <1>2, <3>4, <3>5, <3>7, <3>8, <4>1, HandlerSwaps
    <3>10. ContextOf(current', core', top', mem', version', LiveIn(lists'))
      BY <1>4, <1>5, <2>1, <3>9
    <3> QED BY <3>10, ContextNext
  <2>5. TopsKnown'
    <3> HIDE DEF saved, loaded, u
    <3>1. SUFFICES ASSUME NEW i \in DOMAIN c.cache
                   PROVE  cache'[i].top = top'[cache'[i].tcb]
      BY <1>6, <1>3 DEF TopsKnown
    <3>2. /\ cache'[i].tcb = c.cache[i].tcb
          /\ cache'[i].top = IF c.cache[i].tcb = current THEN saved.sp ELSE c.cache[i].top
      <4>1. \A x \in DOMAIN c.cache : {"tcb", "top"} \subseteq DOMAIN c.cache[x]
        BY <1>3
      <4>2. KeptAs(KeptTop(c.cache, saved.sp), c.cache, saved.sp)
        BY <4>1, TopIsKept, Zenon
      <4> QED BY <2>1, <4>2 DEF KeptAs
    <3>3. CASE c.cache[i].tcb = current
      BY <1>2, <2>1, <3>2, <3>3
    <3>4. CASE c.cache[i].tcb # current
      <4>1. c.cache[i].top = top[c.cache[i].tcb]
        BY <1>1, <3>4 DEF Filled
      <4>2. top'[c.cache[i].tcb] = top[c.cache[i].tcb]
        BY <1>2, <1>3, <2>1, <3>4
      <4> QED BY <3>2, <3>4, <4>1, <4>2
    <3> QED BY <3>3, <3>4
  <2>6. mishaps' \cap {"wire", "full", "hidden", "symbols"} = {} =>
          \/ {cache'[i].tcb : i \in DOMAIN cache'} = Live'
          \/ cache' = <<>> /\ addresses'["kernel"] # "known"
    <3>1. SUFFICES ASSUME mishaps' \cap {"wire", "full", "hidden", "symbols"} = {}
                   PROVE  {cache'[i].tcb : i \in DOMAIN cache'} = Live
      BY <1>5
    <3>2. {c.cache[i].tcb : i \in DOMAIN c.cache} = Live
      <4>1. c.cache # <<>>
        <5>1. ASSUME c.cache = <<>> PROVE FALSE
          <6>1. DOMAIN c.cache = {}
            BY <5>1
          <6> QED BY <6>1
        <5> QED BY <5>1
      <4> QED BY <3>1, <4>1 DEF Filled
    <3> QED BY <1>6, <3>2
  <2>7. FreshInv'
    BY <1>8, <2>5, <2>6 DEF FreshInv
  <2> QED BY <1>7, <2>2, <2>3, <2>4, <2>7 DEF IInv
<1> QED BY <1>9, <1>10

LEMMA HgKeeps == ASSUME IInv, NEW id, Hg(id) PROVE IInv'
<1>1. Halted /\ UNCHANGED <<port, fpu, switches, symbols, executing, switcher>>
  BY DEF Hg
<1>2. CASE switcher = "None"
  <2>1. Refused /\ UNCHANGED <<mem, threads, mishaps>>
    BY <1>2 DEF Hg
  <2>2. /\ UNCHANGED kernel /\ UNCHANGED <<executing, selected, cache, dirty, addresses, switcher, port>>
        /\ mishaps \subseteq mishaps' /\ UNCHANGED mishaps
    BY <1>1, <2>1 DEF Refused, kernel, threads, symbols
  <2>3. DOMAIN addresses' = FreeRTOSSymbolName /\ (executing' => dirty' /\ selected' = NoTask)
    BY <2>2 DEF IInv, Kinds
  <2>4. Kinds' /\ ContextInv' /\ SelectedIsShown' /\ FreshInv'
    BY <2>2, <2>3, SameKernel
  <2>5. HandlerMatches'
    BY <2>2 DEF IInv, HandlerMatches, PortHandler, Faithful
  <2> QED BY <2>4, <2>5 DEF IInv
<1>3. CASE switcher # "None"
  <2> DEFINE query(unread) == freertos_collect_information(unread)
             infos(c) == {c.cache[i] : i \in {j \in DOMAIN c.cache : c.cache[j].id = id}}
             info(c) == CHOOSE x \in infos(c) : TRUE
             served(c, fault) ==
               IF infos(c) = {} THEN Refused /\ UNCHANGED mem /\ cache' = c.cache
               ELSE IF info(c).tcb = current
               THEN /\ selected' = current /\ cache' = c.cache
                    /\ UNCHANGED <<lists, current, top, core, version, mem>>
               ELSE /\ core[PortSP(port)][2] >= FrameSize(switcher) /\ Framed(info(c).top)
                    /\ freertos_switch_task(info(c), c, fault)
  <2>1. PICK unread \in Unread, fault \in Fault :
          /\ Seen({k \in Mishap : \/ k = "wire" /\ (unread # {} \/ fault # "none")
                                  \/ k = "full" /\ query(unread).full})
          /\ dirty' = FALSE
          /\ served(query(unread), fault)
    BY <1>3 DEF Hg
  <2> DEFINE c == query(unread)
  <2>2. Collected(c, unread)
    BY KernelBegins, Collection
  <2>3. /\ mishaps \subseteq mishaps' /\ (unread # {} => "wire" \in mishaps')
        /\ (fault # "none" => "wire" \in mishaps') /\ (c.full => "full" \in mishaps')
    <3> HIDE DEF query
    <3> QED BY <2>1 DEF Seen, Mishap
  <2>4. served(c, fault) /\ dirty' = FALSE
    BY <2>1
  <2> HIDE DEF c, query
  <2>5. Filled(c)
    BY <2>2, <2>3, Filling
  <2>6. CASE infos(c) = {}
    <3>1. Refused /\ UNCHANGED mem /\ cache' = c.cache
      BY <2>4, <2>6
    <3>2. UNCHANGED <<kernel, symbols, executing, switcher>> /\ selected' \in {selected, current}
      BY <1>1, <3>1 DEF Refused, kernel
    <3> QED BY <1>1, <2>3, <2>4, <2>5, <3>1, <3>2, QueryKeeps
  <2>7. CASE infos(c) # {} /\ info(c).tcb = current
    <3>1. /\ selected' = current /\ cache' = c.cache
          /\ UNCHANGED <<lists, current, top, core, version, mem>>
      <4> HIDE DEF infos, info
      <4> QED BY <2>4, <2>7
    <3>2. UNCHANGED <<kernel, symbols, executing, switcher>> /\ selected' \in {selected, current}
      BY <1>1, <3>1 DEF kernel
    <3> QED BY <1>1, <2>3, <2>4, <2>5, <3>1, <3>2, QueryKeeps
  <2>8. CASE infos(c) # {} /\ info(c).tcb # current
    <3>1. core[PortSP(port)][2] >= FrameSize(switcher) /\ freertos_switch_task(info(c), c, fault)
      <4> HIDE DEF infos, info
      <4> QED BY <2>4, <2>8
    <3>2. info(c) \in infos(c)
      <4> HIDE DEF infos
      <4> QED BY <2>8
    <3>3. PICK j \in DOMAIN c.cache : info(c) = c.cache[j]
      <4> HIDE DEF info
      <4> QED BY <3>2
    <3> DEFINE x == info(c)
    <3>4. x = c.cache[j] /\ x.tcb # current /\ freertos_switch_task(x, c, fault)
      BY <2>8, <3>1, <3>3
    <3> HIDE DEF x
    <3> QED BY <1>1, <1>3, <2>3, <2>4, <2>5, <3>1, <3>4, TaskSwitchKeeps
  <2> QED BY <2>6, <2>7, <2>8
<1> QED BY <1>2, <1>3

LEMMA InitKeeps == ASSUME Init PROVE IInv
<1>1. PICK t \in Tcb, u \in Tcb :
        /\ t # u /\ current = t
        /\ version = [x \in Tcb |-> 0]
        /\ core = Registers(t, 0)
        /\ lists = [l \in Lists |-> CASE l = ReadyList     -> <<t>>
                                      [] l = SuspendedList -> <<u>>
                                      [] OTHER             -> <<>>]
        /\ mem = Saved([s \in Tcb |-> [a \in 0..(Depth - 1) |-> ZERO]], u, 0)
        /\ top = [x \in Tcb |-> IF x = u THEN SavedTop(u, 0) ELSE <<x, Depth>>]
  BY DEF Init
<1>2. /\ port \in Ports /\ port \in Port /\ fpu \subseteq Tcb
      /\ executing = FALSE /\ addresses = [s \in FreeRTOSSymbolName |-> "None"]
      /\ switcher = "None" /\ cache = <<>> /\ dirty = TRUE /\ selected = NoTask /\ mishaps = {}
  BY ThreadAssumption DEF Init
<1>3. /\ lists \in [Lists -> Seq(Tcb)]
      /\ lists[ReadyList] = <<t>> /\ lists[SuspendedList] = <<u>>
      /\ lists[DelayedList] = <<>> /\ lists[OtherReady] = <<>>
  BY <1>1 DEF Lists, ReadyList, SuspendedList, DelayedList, OtherReady
<1>4. current \in Live /\ Live \subseteq {t, u}
  <2>1. /\ Tasks(lists[ReadyList]) = {t} /\ Tasks(lists[SuspendedList]) = {u}
        /\ Tasks(lists[DelayedList]) = {} /\ Tasks(lists[OtherReady]) = {}
    <3>1. ASSUME NEW x PROVE Tasks(<<x>>) = {x}
      BY DEF Tasks
    <3>2. Tasks(<<>>) = {}
      BY DEF Tasks
    <3> QED BY <1>3, <3>1, <3>2
  <2>2. \A l \in Lists : Tasks(lists[l]) \subseteq {t, u}
    BY <2>1, IndexesOfLists
  <2>3. t \in Tasks(lists[ReadyList])
    BY <2>1
  <2>4. current \in Live
    BY <1>1, <2>3, IndexesOfLists DEF Live
  <2>5. Live \subseteq {t, u}
    BY <2>2 DEF Live
  <2> QED BY <2>4, <2>5
<1>5. Kinds
  BY <1>1, <1>2, <1>3, <1>4 DEF Kinds
<1>6. ContextOf(t, core, top, mem, version, Live)
  <2> DEFINE M == [s \in Tcb |-> [a \in 0..(Depth - 1) |-> ZERO]]
  <2>1. Stacks(M)
    BY DEF Stacks
  <2> HIDE DEF M
  <2>2. KernelLeaves(M, mem, SavedTop(u, 0), u, 0)
    BY <1>1, <1>2, <2>1, KernelSaves DEF M
  <2>3. top[u] = SavedTop(u, 0) /\ \A x \in Tcb \ {u} : top[x] = <<x, Depth>>
    BY <1>1
  <2>4. ASSUME NEW x \in Tcb PROVE top[x][2] \in Int /\ top[x] = <<x, top[x][2]>>
    BY <2>2, <2>3, FrameAssumption DEF KernelLeaves
  <2>5. CoreIsOfCurrent(core, t)
    BY <1>1, <1>2, RegistersAre DEF RegistersOf
  <2>6. ASSUME NEW x \in Live \ fpu PROVE KeepsIn(t, core, top, mem, version, x)
    <3>1. CASE x = t
      BY <1>1, <3>1 DEF KeepsIn
    <3>2. CASE x = u
      <4>1. version[u] = 0
        BY <1>1
      <4>2. top[u][2] = Depth - 0 - Size /\ FrameAt(mem, u, top[u][2], Registers(u, 0))
        BY <2>2, <2>3, <2>6, <3>2 DEF KernelLeaves
      <4> QED BY <1>1, <3>2, <4>1, <4>2 DEF KeepsIn
    <3> QED BY <1>4, <3>1, <3>2
  <2> QED BY <2>2, <2>4, <2>5, <2>6 DEF ContextOf, KernelLeaves
<1>7. ContextInv
  BY <1>1, <1>6 DEF ContextInv, ContextOf, OwnStacks, Stacks, Keeps, KeepsIn
<1>8. FreshInv
  BY <1>2, <1>3 DEF FreshInv, TopsKnown
<1>9. HandlerMatches /\ SelectedIsShown
  BY <1>2 DEF HandlerMatches, SelectedIsShown
<1> QED BY <1>5, <1>7, <1>8, <1>9 DEF IInv

LEMMA StepKeeps == ASSUME IInv, [Next]_vars PROVE IInv'
<1>1. CASE UNCHANGED vars
  <2>1. /\ UNCHANGED kernel /\ UNCHANGED <<executing, selected, cache, dirty, addresses, switcher, port>>
        /\ UNCHANGED mishaps /\ mishaps \subseteq mishaps'
    BY <1>1 DEF vars, kernel, symbols, threads
  <2>2. DOMAIN addresses' = FreeRTOSSymbolName /\ (executing' => dirty' /\ selected' = NoTask)
    BY <2>1 DEF IInv, Kinds
  <2>3. Kinds' /\ ContextInv' /\ SelectedIsShown' /\ FreshInv'
    BY <2>1, <2>2, SameKernel
  <2>4. HandlerMatches'
    BY <2>1 DEF IInv, HandlerMatches, PortHandler, Faithful
  <2> QED BY <2>3, <2>4 DEF IInv
<1>2. ASSUME NEW t \in Tcb, NEW to \in Lists,
             KernelSwitch(t, to) \/ KernelMove(t, to) \/ KernelCreate(t, to)
      PROVE  IInv'
  BY <1>2, KernelKeeps
<1>3. ASSUME NEW t \in Tcb, KernelDelete(t) PROVE IInv'
  BY <1>3, KernelKeeps, IndexesOfLists
<1>4. CASE qSymbolReset
  BY <1>4, ResetKeeps
<1>5. ASSUME NEW found \in BOOLEAN, qSymbol(found) PROVE IInv'
  BY <1>5, SymbolKeeps
<1>6. ASSUME NEW flavor \in Flavor, enable_freertos(flavor) PROVE IInv'
  BY <1>6, EnableKeeps
<1>7. CASE ThreadQuery
  BY <1>7, ThreadsKeep
<1>8. ASSUME NEW id \in 0..(MaxIndex + Cardinality(Tcb)), Hg(id) PROVE IInv'
  BY <1>8, HgKeeps
<1>9. CASE Resume \/ Stop
  BY <1>9, RunKeeps
<1>10. CASE Detach
  BY <1>10, DetachKeeps
<1> QED BY <1>1, <1>2, <1>3, <1>4, <1>5, <1>6, <1>7, <1>8, <1>9, <1>10 DEF Next

LEMMA Invariance == Spec => []IInv
<1>1. Init => IInv
  BY InitKeeps
<1>2. IInv /\ [Next]_vars => IInv'
  BY StepKeeps
<1> QED BY <1>1, <1>2, PTL DEF Spec

-----------------------------------------------------------------------------
(* What the invariant says to GDB.                                         *)

LEMMA KeptIsIntact == ASSUME IInv PROVE ContextsKept
<1>1. SUFFICES ASSUME Faithful, NEW t \in Live \ fpu PROVE Intact(t)
  BY DEF ContextsKept, Faithful
<1>2. /\ ContextOf(current, core, top, mem, version, Live) /\ port \in Port
      /\ t \in Tcb /\ t \notin fpu /\ version[t] \in 0..1
  BY <1>1, KernelBegins
<1>3. CASE t = current
  <2>1. core = Registers(t, version[t])
    BY <1>1, <1>2, <1>3 DEF ContextOf, KeepsIn
  <2> QED BY <1>3, <2>1 DEF Intact
<1>4. CASE t # current
  <2> DEFINE n == top[t][2]
             R == Registers(t, version[t])
             L == PortRestore(port, mem, top[t], core)
  <2>1. n = Depth - version[t] - Size /\ FrameAt(mem, t, n, R)
    BY <1>1, <1>2, <1>4 DEF ContextOf, KeepsIn
  <2>2. n \in Int /\ top[t] = <<t, n>>
    BY <1>2 DEF ContextOf
  <2>3. Framed(top[t])
    <3>1. Size \in 16..31
      BY <1>2, FrameLens DEF Size, FrameLen
    <3>2. n + Size <= Depth
      <4> HIDE DEF n
      <4> QED BY <1>2, <2>1, <3>1, FrameAssumption
    <3> QED BY <3>2 DEF Framed, Size
  <2>4. PortReg(port) = RiscvReg => core[3] = Shared /\ core[4] = SharedTp
    BY <1>2 DEF ContextOf, CoreIsOfCurrent
  <2> HIDE DEF n
  <2>5. L = PortRestore(port, mem, <<t, n>>, core)
    BY <2>2
  <2> HIDE DEF L
  <2>6. Loads(L, core, mem, t, n, R, port, PortSP(port), FrameLen(port), PortReg(port))
    <3> HIDE DEF R
    <3> QED BY <1>2, <2>2, <2>5, PortLoads
  <2>7. t \notin fpu /\ n = Depth - version[t] - Size /\ FrameAt(mem, t, n, R) => L = R
    BY <1>2, <2>2, <2>4, <2>6, Loaded
  <2> QED BY <1>2, <1>4, <2>1, <2>3, <2>7 DEF Intact, L
<1> QED BY <1>3, <1>4

LEMMA FreshIsFresh == ASSUME IInv PROVE CacheIsFresh
<1>1. SUFFICES ASSUME ~dirty, addresses["kernel"] = "known",
                      mishaps \cap {"wire", "full", "hidden", "symbols"} = {}
               PROVE  /\ {cache[i].tcb : i \in DOMAIN cache} = Live
                      /\ \A i \in DOMAIN cache :
                           cache[i].tcb # current => cache[i].top = top[cache[i].tcb]
  BY DEF CacheIsFresh
<1>2. "wire" \notin mishaps
  BY <1>1
<1> QED BY <1>1, <1>2 DEF IInv, FreshInv, TopsKnown

(* Every task that does not use the FPU keeps the context it was stopped   *)
(* with, however the kernel and Hg take turns: what write_registers_to_    *)
(* stack() of the port's handler pushes for the task that is left is the   *)
(* frame the port restores, and what read_registers_from_addr() pops for   *)
(* the one entered is what the port saved, on all six ports.               *)
THEOREM TasksKeepContexts == Spec => []ContextsKept
<1>1. IInv => ContextsKept
  BY KeptIsIntact
<1> QED BY <1>1, Invariance, PTL

(* After Hg has said that a task is selected, pxCurrentTCB is that task    *)
(* until the target runs, unless a transfer failed (_Hg, freertos_switch_  *)
(* task).                                                                  *)
THEOREM SelectedIsCurrent == Spec => []SelectedIsShown
<1>1. IInv => SelectedIsShown
  BY DEF IInv
<1> QED BY <1>1, Invariance, PTL

(* While the target is stopped, the cache of freertos_collect_information()*)
(* has the tasks of the kernel and the stack pointers they are left with,  *)
(* which needs that Hg updates the entry of the task it leaves.            *)
THEOREM CacheStaysFresh == Spec => []CacheIsFresh
<1>1. IInv => CacheIsFresh
  BY FreshIsFresh
<1> QED BY <1>1, Invariance, PTL

==============================================================================
