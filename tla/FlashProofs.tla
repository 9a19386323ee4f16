----------------------------- MODULE FlashProofs -----------------------------
(***************************************************************************)
(* For every layout of regions, every size of block, sector and unit, and  *)
(* whichever callback fails: the requests implement FlashSpec, and no      *)
(* callback finds the controller unprepared before one has failed.  Of     *)
(* the flash the invariant says that what the buffer holds back belongs to *)
(* one sector of the active region and to the load, over erased cells:     *)
(* without it a flush could program a cell twice, or a failed one spoil    *)
(* what the load does not reach.  Of the operations it says that until a   *)
(* callback fails the manager, the driver and the controller agree, and    *)
(* that no region but the active one is busy: a flush, a release or an     *)
(* erase that trusted one of them would otherwise run unprepared.          *)
(*                                                                         *)
(* A loop of the code is a recursive function here.  Recursion shows that  *)
(* it exists, LoopRuns what it keeps to: a set of turns and values stands  *)
(* for the loop invariant, and Induct goes through it turn by turn.        *)
(***************************************************************************)
EXTENDS Flash, WellFoundedInduction, TLAPS

-----------------------------------------------------------------------------
(* Numbers: the least and the largest of a set, division, and what a loop  *)
(* written as a recursive function computes.                               *)

(* The least of some natural numbers is one of them. *)
LEMMA Least ==
  ASSUME NEW I \in SUBSET Nat, I # {}
  PROVE  Min(I) \in I /\ \A x \in I : Min(I) <= x
<1> DEFINE R == OpToRel(<, Nat)
<1>1. IsWellFoundedOn(R, Nat)
  BY NatLessThanWellFounded DEF OpToRel
<1>2. ASSUME NEW x \in Nat, NEW y \in Nat PROVE y < x <=> <<y, x>> \in R
  BY DEF OpToRel
<1> HIDE DEF R
<1>3. PICK x \in I : \A y \in I : ~(<<y, x>> \in R)
  BY <1>1, WFMin, Zenon
<1>4. ASSUME NEW y \in I PROVE x <= y
  <2>1. ~(<<y, x>> \in R) /\ x \in Nat /\ y \in Nat
    BY <1>3
  <2>2. ~(y < x)
    BY <1>2, <2>1
  <2> QED BY <2>1, <2>2
<1> QED BY <1>4, Zenon DEF Min

(* The greatest of finitely many natural numbers is one of them. *)
LEMMA Largest ==
  ASSUME NEW m \in Nat, NEW I \in SUBSET (0..m), I # {}
  PROVE  Max(I) \in I /\ \A x \in I : x <= Max(I)
<1> DEFINE J == {m - x : x \in I}
<1>0. \A x \in I : x \in 0..m
  OBVIOUS
<1>1. J \in SUBSET Nat /\ J # {}
  <2>1. \A x \in I : m - x \in Nat
    BY <1>0
  <2> QED BY <2>1
<1>2. Min(J) \in J /\ \A y \in J : Min(J) <= y
  BY <1>1, Least
<1>3. PICK x \in I : Min(J) = m - x
  BY <1>2
<1>4. ASSUME NEW y \in I PROVE y <= x
  <2>1. m - x <= m - y /\ x \in 0..m /\ y \in 0..m
    BY <1>0, <1>2, <1>3
  <2> QED BY <2>1
<1> QED BY <1>4, Zenon DEF Max

(* The lesser of two numbers. *)
LEMMA Lesser ==
  ASSUME NEW a \in Int, NEW b \in Int
  PROVE  Min({a, b}) = IF a <= b THEN a ELSE b
<1>1. \E x \in {a, b} : \A y \in {a, b} : x <= y
  OBVIOUS
<1>2. Min({a, b}) \in {a, b} /\ \A y \in {a, b} : Min({a, b}) <= y
  BY <1>1, Zenon DEF Min
<1> QED BY <1>2

(* The greater of two numbers. *)
LEMMA Greater ==
  ASSUME NEW a \in Int, NEW b \in Int
  PROVE  Max({a, b}) = IF a >= b THEN a ELSE b
<1>1. \E x \in {a, b} : \A y \in {a, b} : x >= y
  OBVIOUS
<1>2. Max({a, b}) \in {a, b} /\ \A y \in {a, b} : Max({a, b}) >= y
  BY <1>1, Zenon DEF Max
<1> QED BY <1>2

(* What holds at 0 and is passed on holds up to n.  (The set stands for    *)
(* the predicate: no theorem here takes an operator.)                      *)
LEMMA Induct ==
  ASSUME NEW n \in Nat, NEW A, 0 \in A, \A k \in 1..n : k - 1 \in A => k \in A
  PROVE  \A k \in 0..n : k \in A
<1> DEFINE F == {k \in 0..n : k \notin A}
<1> SUFFICES ASSUME F # {} PROVE FALSE
  OBVIOUS
<1>1. Min(F) \in F /\ \A x \in F : Min(F) <= x
  BY Least
<1>2. Min(F) \in 1..n /\ Min(F) - 1 \notin F /\ Min(F) - 1 \in 0..n
  BY <1>1
<1> QED BY <1>1, <1>2

(* g: the values of a loop, b before its first turn and G[<<k, _>>] of the *)
(* last one after its k-th.                                                *)
Loop(g, n, b, G) ==
  DOMAIN g = 0..n /\ g[0] = b /\ \A k \in 1..n : g[k] = G[<<k, g[k - 1]>>]

(* A recursive function of the code exists, and stays among the values its step keeps to. *)
LEMMA Recursion ==
  ASSUME NEW n \in Nat, NEW S, NEW b \in S, NEW G \in [(1..n) \X S -> S]
  PROVE  \E g \in [0..n -> S] : Loop(g, n, b, G)
<1> DEFINE A == {m \in 0..n : \E g \in [0..m -> S] : Loop(g, m, b, G)}
<1>1. 0 \in A
  <2>1. [k \in 0..0 |-> b] \in [0..0 -> S] /\ Loop([k \in 0..0 |-> b], 0, b, G)
    BY DEF Loop
  <2> QED BY <2>1
<1>2. ASSUME NEW m \in 1..n, m - 1 \in A PROVE m \in A
  <2>1. PICK g \in [0..(m - 1) -> S] : Loop(g, m - 1, b, G)
    BY <1>2
  <2> DEFINE h == [k \in 0..m |-> IF k = m THEN G[<<m, g[m - 1]>>] ELSE g[k]]
  <2>2. g[m - 1] \in S /\ G[<<m, g[m - 1]>>] \in S
    <3>1. g[m - 1] \in S
      <4>1. m - 1 \in 0..(m - 1)
        OBVIOUS
      <4> QED BY <4>1
    <3>2. <<m, g[m - 1]>> \in (1..n) \X S
      BY <3>1
    <3> QED BY <3>1, <3>2
  <2>3. h \in [0..m -> S]
    BY <2>2
  <2>4. Loop(h, m, b, G)
    <3>1. DOMAIN h = 0..m /\ h[0] = b
      BY <2>1 DEF Loop
    <3>2. ASSUME NEW k \in 1..m PROVE h[k] = G[<<k, h[k - 1]>>]
      <4>1. CASE k = m
        <5>1. m \in 0..m /\ m - 1 \in 0..m /\ m - 1 # m
          OBVIOUS
        <5>2. h[m] = G[<<m, g[m - 1]>>] /\ h[m - 1] = g[m - 1]
          BY <5>1
        <5> QED BY <4>1, <5>2, Zenon
      <4>2. CASE k # m
        <5>1. k \in 1..(m - 1) /\ h[k] = g[k] /\ h[k - 1] = g[k - 1]
          BY <4>2
        <5> QED BY <2>1, <5>1 DEF Loop
      <4> QED BY <4>1, <4>2
    <3> QED BY <3>1, <3>2 DEF Loop
  <2> QED BY <2>3, <2>4
<1>3. \A k \in 0..n : k \in A
  BY <1>1, <1>2, Induct
<1> QED BY <1>3

\* What every step of a loop keeps, from the first to the last
LEMMA Invariant ==
  ASSUME NEW n \in Nat, NEW g, NEW J,
         <<0, g[0]>> \in J,
         \A k \in 1..n : <<k - 1, g[k - 1]>> \in J => <<k, g[k]>> \in J
  PROVE  <<n, g[n]>> \in J
<1> DEFINE A == {k \in 0..n : <<k, g[k]>> \in J}
<1>1. 0 \in A /\ \A k \in 1..n : k - 1 \in A => k \in A
  OBVIOUS
<1>2. \A k \in 0..n : k \in A
  BY <1>1, Induct
<1> QED BY <1>2

(* The index of a cell within a block of n cells. *)
LEMMA Offset ==
  ASSUME NEW a \in Int, NEW n \in Int, NEW x \in Int, x \in a..(a + n - 1)
  PROVE  x - a \in 0..(n - 1)
OBVIOUS

(* A number is its quotient and its remainder. *)
LEMMA Division ==
  ASSUME NEW a \in Int, NEW n \in Nat \ {0}
  PROVE  /\ (a % n) \in 0..(n - 1) /\ a \div n \in Int
         /\ a = n * (a \div n) + (a % n)
OBVIOUS

(* Multiples of n are at least n apart. *)
LEMMA Product ==
  ASSUME NEW n \in Nat \ {0}, NEW p \in Int, NEW q \in Int, p < q
  PROVE  n * p + n <= n * q
OBVIOUS

(* The quotient is the one multiple below by less than n. *)
LEMMA Quotient ==
  ASSUME NEW a \in Int, NEW n \in Nat \ {0}, NEW q \in Int, n * q <= a, a < n * q + n
  PROVE  a \div n = q /\ a % n = a - n * q
<1> DEFINE p == a \div n
<1>1. p \in Int /\ n * p <= a /\ a < n * p + n /\ a = n * p + (a % n)
  BY Division
<1> HIDE DEF p
<1>2. ~(p < q)
  <2> SUFFICES ASSUME p < q PROVE FALSE
    OBVIOUS
  <2>1. n * p + n <= n * q
    BY <1>1, Product
  <2> QED BY <1>1, <2>1
<1>3. ~(q < p)
  <2> SUFFICES ASSUME q < p PROVE FALSE
    OBVIOUS
  <2>1. n * q + n <= n * p
    BY <1>1, Product
  <2> QED BY <1>1, <2>1
<1>4. p = q
  BY <1>1, <1>2, <1>3
<1> QED BY <1>1, <1>4 DEF p

(* Division keeps the order. *)
LEMMA Ordered ==
  ASSUME NEW n \in Nat \ {0}, NEW a \in Int, NEW b \in Int, a <= b
  PROVE  a \div n <= b \div n
<1> DEFINE p == a \div n
           q == b \div n
<1>1. p \in Int /\ q \in Int /\ n * p <= a /\ b < n * q + n
  BY Division
<1> HIDE DEF p, q
<1>2. SUFFICES ASSUME q < p PROVE FALSE
  BY <1>1 DEF p, q
<1>3. n * q + n <= n * p
  BY <1>1, <1>2, Product
<1> QED BY <1>1, <1>3

\* The cells of an aligned stretch have its quotient
LEMMA Stretch ==
  ASSUME NEW n \in Nat \ {0}, NEW base \in Int, base % n = 0, NEW x \in Int
  PROVE  x \in base..(base + n - 1) <=> x \div n = base \div n
<1> DEFINE q == base \div n
<1>1. q \in Int /\ base = n * q
  BY Division
<1> HIDE DEF q
<1>2. ASSUME x \in base..(base + n - 1) PROVE x \div n = q
  BY <1>1, <1>2, Quotient
<1>3. ASSUME x \div n = q PROVE x \in base..(base + n - 1)
  BY <1>1, <1>3, Division
<1> QED BY <1>2, <1>3 DEF q

(* A multiple of n leaves nothing over. *)
LEMMA Multiple ==
  ASSUME NEW n \in Nat \ {0}, NEW q \in Int
  PROVE  (n * q) % n = 0 /\ (n * q) \div n = q
<1>1. n * q \in Int
  OBVIOUS
<1> QED BY <1>1, Quotient

(* Multiples of n add up to one. *)
LEMMA SumOfMultiples ==
  ASSUME NEW n \in Nat \ {0}, NEW a \in Int, NEW b \in Int, a % n = 0, b % n = 0
  PROVE  (a + b) % n = 0 /\ (a - b) % n = 0
<1> DEFINE p == a \div n
           q == b \div n
<1>1. p \in Int /\ q \in Int /\ a = n * p /\ b = n * q
  BY Division
<1> HIDE DEF p, q
<1>2. a + b = n * (p + q) /\ a - b = n * (p - q)
  BY <1>1
<1> QED BY <1>1, <1>2, Multiple

\* Down to the multiple at or below: in the stretch from any multiple below
LEMMA Floor ==
  ASSUME NEW n \in Nat \ {0}, NEW a \in Int
  PROVE  /\ (a - (a % n)) \in Int /\ (a - (a % n)) % n = 0
         /\ a - (a % n) <= a /\ a < a - (a % n) + n
         /\ (a - (a % n)) \div n = a \div n
         /\ \A m \in Int : m % n = 0 /\ m <= a => m <= a - (a % n)
         /\ \A m \in Int : m % n = 0 /\ a < m => a - (a % n) + n <= m
<1> DEFINE q == a \div n
           f == a - (a % n)
<1>1. q \in Int /\ f = n * q /\ f <= a /\ a < f + n /\ f \in Int
  BY Division
<1> HIDE DEF q, f
<1>2. f % n = 0 /\ f \div n = q
  BY <1>1, Multiple
<1>3. ASSUME NEW m \in Int, m % n = 0
      PROVE  (m <= a => m <= f) /\ (a < m => f + n <= m)
  <2> DEFINE p == m \div n
  <2>1. p \in Int /\ m = n * p
    BY <1>3, Division
  <2> HIDE DEF p
  <2>2. CASE p < q
    <3>1. n * p + n <= n * q
      BY <1>1, <2>1, <2>2, Product
    <3> QED BY <1>1, <2>1, <3>1
  <2>3. CASE p = q
    BY <1>1, <2>1, <2>3
  <2>4. CASE q < p
    <3>1. n * q + n <= n * p
      BY <1>1, <2>1, <2>4, Product
    <3> QED BY <1>1, <2>1, <3>1
  <2> QED BY <1>1, <2>1, <2>2, <2>3, <2>4
<1> QED BY <1>1, <1>2, <1>3 DEF q, f

(* Masking a natural number goes down to a multiple of n, by less than n. *)
LEMMA FloorNat ==
  ASSUME NEW n \in Nat \ {0}, NEW a \in Nat
  PROVE  /\ (a - (a % n)) \in Nat /\ (a - (a % n)) % n = 0
         /\ a - (a % n) <= a /\ a < a - (a % n) + n
<1>1. a \in Int /\ 0 \in Int /\ 0 <= a
  OBVIOUS
<1>2. 0 % n = 0
  <2>1. n * 0 = 0 /\ 0 \in Int
    OBVIOUS
  <2> QED BY <2>1, Multiple
<1> DEFINE f == a - (a % n)
<1>3. f \in Int /\ f % n = 0 /\ f <= a /\ a < f + n
  BY <1>1, Floor
<1>4. \A m \in Int : m % n = 0 /\ m <= a => m <= f
  BY <1>1, Floor
<1> HIDE DEF f
<1>5. 0 <= f
  BY <1>1, <1>2, <1>4
<1>6. f \in Nat
  BY <1>3, <1>5
<1> QED BY <1>3, <1>6 DEF f

\* What lies in one write unit lies in one sector
LEMMA Coarser ==
  ASSUME NEW w \in Nat \ {0}, NEW n \in Nat \ {0}, n % w = 0,
         NEW a \in Int, NEW b \in Int, a \div w = b \div w
  PROVE  a \div n = b \div n
<1> DEFINE base == a - (a % n)
<1>1. base \in Int /\ base % n = 0 /\ base <= a /\ a < base + n /\ base \div n = a \div n
  BY Floor
<1> HIDE DEF base
<1>2. base % w = 0 /\ (base + n) % w = 0
  <2> DEFINE p == base \div n
             q == n \div w
  <2>1. p \in Int /\ q \in Int /\ base = n * p /\ n = w * q
    BY <1>1, Division
  <2> HIDE DEF p, q
  <2>2. base = w * (q * p) /\ q * p \in Int
    BY <2>1
  <2>3. base % w = 0
    BY <2>2, Multiple
  <2> QED BY <1>1, <2>3, SumOfMultiples
<1> DEFINE u == a - (a % w)
<1>3. u \in Int /\ u % w = 0 /\ u \div w = a \div w /\ base <= u /\ u + w <= base + n
  <2>1. u \in Int /\ u % w = 0 /\ u \div w = a \div w
    BY Floor
  <2>2. base <= u
    BY <1>1, <1>2, Floor
  <2>3. u + w <= base + n
    <3>1. base + n \in Int
      BY <1>1
    <3> QED BY <1>1, <1>2, <3>1, Floor
  <2> QED BY <2>1, <2>2, <2>3
<1> HIDE DEF u
<1>4. b \in u..(u + w - 1)
  BY <1>3, Stretch
<1>5. b \in base..(base + n - 1)
  BY <1>1, <1>3, <1>4
<1> QED BY <1>1, <1>5, Stretch

-----------------------------------------------------------------------------
(* The regions.                                                            *)

(* The assumptions on sizes and cells, one by one. *)
LEMMA Constants ==
  /\ BLOCK \in Nat \ {0} /\ BUF \in Nat \ {0} /\ WRITE \in Nat \ {0} /\ BUF % WRITE = 0
  /\ Erased \notin Byte /\ Corrupt \notin Byte /\ Corrupt # Erased
  /\ MaxCalls \in Nat /\ Len(Regions) \in Nat
  /\ EXTRA_ERASE_SIZES \subseteq Nat \ {0} /\ EraseSizes \subseteq Nat \ {0}
  /\ WriteSizes \subseteq Nat \ {0}
BY FlashAssumption DEF FlashAssumption

(* A region starts and ends at a block and at a sector. *)
LEMMA RegionFacts ==
  ASSUME NEW r \in Region
  PROVE  /\ r \in [start : Nat, length : Nat \ {0}] /\ r # NoRegion
         /\ r.start % BLOCK = 0 /\ r.start % BUF = 0
         /\ r.length % BLOCK = 0 /\ r.length % BUF = 0
<1>1. PICK i \in DOMAIN Regions : r = Regions[i]
  BY DEF Region
<1>2. r \in [start : Nat, length : Nat \ {0}]
  <2> DEFINE S == [start : Nat, length : Nat \ {0}]
  <2>1. Regions \in Seq(S)
    BY FlashAssumption DEF FlashAssumption
  <2> HIDE DEF S
  <2>2. Regions[i] \in S
    BY <1>1, <2>1
  <2> QED BY <1>1, <2>2 DEF S
<1> QED BY <1>2, FlashAssumption DEF FlashAssumption, NoRegion

(* The regions are numbered. *)
LEMMA InRegion ==
  /\ \A i \in 1..Len(Regions) : Regions[i] \in Region
  /\ \A r \in Region : \E i \in 1..Len(Regions) : r = Regions[i]
<1>1. DOMAIN Regions = 1..Len(Regions)
  BY FlashAssumption DEF FlashAssumption
<1> QED BY <1>1 DEF Region

(* Addresses are natural numbers, and none of them says there is none. *)
LEMMA AddrNat == Addr \subseteq Nat /\ NoAddr \notin Addr
<1>1. ASSUME NEW a \in Addr PROVE a \in Nat
  <2>1. PICK r \in Region : a \in Cells(r)
    BY DEF Addr
  <2> QED BY <2>1, RegionFacts DEF Cells, End
<1> QED BY <1>1 DEF NoAddr

(* The region found for an address holds it. *)
LEMMA RegionOfAddr ==
  ASSUME NEW a \in Addr
  PROVE  RegionOf(a) \in Region /\ a \in Cells(RegionOf(a))
<1>1. \E r \in Region : a \in Cells(r)
  BY DEF Addr
<1> QED BY <1>1, Zenon DEF RegionOf

\* A block or a sector lies within one region
LEMMA Layout ==
  ASSUME NEW r \in Region, NEW a \in Cells(r), NEW n \in {BLOCK, BUF}
  PROVE  /\ a - (a % n) \in Cells(r) /\ a - (a % n) + n <= End(r)
         /\ (a - (a % n))..(a - (a % n) + n - 1) \subseteq Cells(r)
         /\ Cells(r) \subseteq Addr
<1>1. n \in Nat \ {0} /\ a \in Int /\ r.start \in Nat /\ r.length \in Nat
  BY Constants, RegionFacts DEF Cells, End
<1>2. r.start % n = 0 /\ End(r) % n = 0 /\ End(r) \in Int
  BY <1>1, RegionFacts, SumOfMultiples DEF End
<1>3. r.start <= a /\ a < End(r)
  BY <1>1, <1>2 DEF Cells
<1> DEFINE f == a - (a % n)
<1>4. f \in Int /\ r.start <= f /\ f <= a /\ f + n <= End(r)
  <2>1. f \in Int /\ f <= a
    BY <1>1, Floor
  <2>2. \A m \in Int : m % n = 0 /\ m <= a => m <= f
    BY <1>1, Floor
  <2>3. \A m \in Int : m % n = 0 /\ a < m => f + n <= m
    BY <1>1, Floor
  <2> HIDE DEF f
  <2> QED BY <1>1, <1>2, <1>3, <2>1, <2>2, <2>3
<1> HIDE DEF f
<1>5. f \in Cells(r) /\ f..(f + n - 1) \subseteq Cells(r) /\ Cells(r) \subseteq Addr
  BY <1>1, <1>2, <1>3, <1>4 DEF Cells, Addr
<1> QED BY <1>4, <1>5 DEF f

\* What a load reaches is closed: it reaches no more than that
LEMMA ReachClosed ==
  ASSUME NEW X \in SUBSET Addr
  PROVE  /\ Reach(X) \subseteq Addr /\ Reach(Reach(X)) \subseteq Reach(X)
         /\ X \subseteq Reach(X)
<1>0. BUF \in Nat \ {0} /\ WRITE \in Nat \ {0} /\ Addr \subseteq Nat
  BY Constants, AddrNat
<1>1. ASSUME NEW a \in Reach(Reach(X)) PROVE a \in Reach(X)
  <2>1. PICK b, c \in Reach(X) :
          /\ b \div BUF = a \div BUF /\ c \div BUF = a \div BUF
          /\ b \div WRITE <= a \div WRITE /\ a \div WRITE <= c \div WRITE
    BY <1>1, Zenon DEF Reach
  <2>2. PICK b1 \in X : b1 \div BUF = b \div BUF /\ b1 \div WRITE <= b \div WRITE
    BY Zenon DEF Reach
  <2>3. PICK c2 \in X : c2 \div BUF = c \div BUF /\ c \div WRITE <= c2 \div WRITE
    BY Zenon DEF Reach
  <2>4. a \in Addr /\ b \in Addr /\ c \in Addr /\ b1 \in Addr /\ c2 \in Addr
    BY <1>1, Zenon DEF Reach
  <2>5. /\ a \div WRITE \in Int /\ b \div WRITE \in Int /\ c \div WRITE \in Int
        /\ b1 \div WRITE \in Int /\ c2 \div WRITE \in Int
    BY <1>0, <2>4
  <2>6. b1 \div WRITE <= a \div WRITE /\ a \div WRITE <= c2 \div WRITE
    BY <2>1, <2>2, <2>3, <2>5
  <2>7. b1 \div BUF = a \div BUF /\ c2 \div BUF = a \div BUF
    BY <2>1, <2>2, <2>3, Zenon
  <2> QED BY <2>4, <2>6, <2>7, Zenon DEF Reach
<1>2. ASSUME NEW a \in X PROVE a \in Reach(X)
  <2>1. a \div WRITE <= a \div WRITE
    BY <1>0
  <2> QED BY <2>1, Zenon DEF Reach
<1> QED BY <1>1, <1>2, Zenon DEF Reach

-----------------------------------------------------------------------------
(* The states of a request, and what the callbacks do to them.             *)

(* What the state of a request is made of. *)
Bytes   == Byte \cup {Erased}
Device  == [flash : [Addr -> Cell], operation : [Region -> Operation],
            prepared : [Region -> Operation], unprepared : BOOLEAN]
Sector  == [base : Int, low : Int, high : Int, data : [0..(BUF - 1) -> Bytes]]
Manager == [current : [Region -> Operation], active : Region \cup {NoRegion},
            buffer : Sector]
State   == [dev : Device, mgr : Manager, ok : BOOLEAN, calls : Nat, fault : Nat]

\* t is a later state of the request that s is a state of
Runs(s, t) == t \in State /\ t.fault = s.fault /\ s.calls <= t.calls

\* No callback has failed
Clean(s) == s.fault \notin 1..s.calls

(* Calls follow one another. *)
LEMMA RunsOn ==
  ASSUME NEW s \in State
  PROVE  /\ Runs(s, s)
         /\ \A t : Runs(s, t) => t \in State /\ (Clean(t) => Clean(s))
         /\ \A t, u : Runs(s, t) /\ Runs(t, u) => Runs(s, u)
<1>1. s.calls \in Nat /\ s.fault \in Nat
  BY DEF State
<1>2. ASSUME NEW t, Runs(s, t) PROVE t \in State /\ (Clean(t) => Clean(s))
  <2>1. t \in State /\ t.calls \in Nat /\ t.fault = s.fault /\ s.calls <= t.calls
    BY <1>2 DEF Runs, State
  <2> QED BY <1>1, <2>1 DEF Clean
<1>3. ASSUME NEW t, NEW u, Runs(s, t), Runs(t, u) PROVE Runs(s, u)
  <2>1. t.calls \in Nat /\ u.calls \in Nat
    BY <1>3 DEF Runs, State
  <2> QED BY <1>1, <1>3, <2>1 DEF Runs
<1> QED BY <1>1, <1>2, <1>3 DEF Runs

\* Only the result changes
LEMMA Result ==
  ASSUME NEW s \in State, NEW b \in BOOLEAN
  PROVE  LET t == [s EXCEPT !.ok = b]
         IN  /\ Runs(s, t) /\ t.ok = b
             /\ t.dev = s.dev /\ t.mgr = s.mgr /\ t.calls = s.calls /\ t.fault = s.fault
BY DEF State, Runs

(* A call that returns OK at once. *)
LEMMA Okay ==
  ASSUME NEW s \in State
  PROVE  Runs(s, Ok(s)) /\ Ok(s).ok /\ Ok(s).dev = s.dev /\ Ok(s).mgr = s.mgr
BY Result DEF Ok

(* A callback of the driver fails only if the request has one that does. *)
LEMMA Calling ==
  ASSUME NEW s \in State
  PROVE  /\ Runs(s, Call(s)) /\ Call(s).dev = s.dev /\ Call(s).mgr = s.mgr
         /\ Clean(Call(s)) => Call(s).ok
<1> DEFINE c == s.calls + 1
           b == (c # s.fault)
<1>1. s.calls \in Nat /\ s.fault \in Nat /\ c \in Nat /\ s.calls <= c /\ b \in BOOLEAN
  BY DEF State
<1>2. Call(s) = [s EXCEPT !.calls = c, !.ok = b]
  BY DEF Call
<1> HIDE DEF c, b
<1>3. /\ Call(s) \in State /\ Call(s).dev = s.dev /\ Call(s).mgr = s.mgr
      /\ Call(s).calls = c /\ Call(s).fault = s.fault /\ Call(s).ok = b
  BY <1>1, <1>2 DEF State
<1>4. s.fault \notin 1..c => b
  BY <1>1 DEF b, c
<1> QED BY <1>1, <1>3, <1>4 DEF Runs, Clean

\* The device of a state and nothing else
LEMMA NewDevice ==
  ASSUME NEW s \in State, NEW d \in Device
  PROVE  LET t == [s EXCEPT !.dev = d]
         IN  /\ Runs(s, t) /\ t.dev = d /\ t.ok = s.ok /\ t.mgr = s.mgr
             /\ t.calls = s.calls /\ t.fault = s.fault
BY DEF State, Runs

(* A call that changes the manager only. *)
LEMMA NewManagement ==
  ASSUME NEW s \in State, NEW m \in Manager, NEW t, t = [s EXCEPT !.mgr = m]
  PROVE  /\ Runs(s, t) /\ t.mgr = m /\ t.ok = s.ok /\ t.dev = s.dev
         /\ t.calls = s.calls /\ t.fault = s.fault
BY DEF State, Runs

\* The cells, what the manager remembers and the buffer stay as they are
SameData(s, t) ==
  /\ t.dev.flash = s.dev.flash /\ t.dev.unprepared = s.dev.unprepared
  /\ t.mgr.buffer = s.mgr.buffer /\ t.mgr.active = s.mgr.active

(* The controller is prepared for what the driver records. *)
Matched(s) == s.dev.prepared = s.dev.operation

(* done() leaves the driver and the controller idle. *)
LEMMA DoneStep ==
  ASSUME NEW s \in State, NEW r \in Region
  PROVE  LET t == done(s, r)
         IN  /\ Runs(s, t) /\ SameData(s, t) /\ t.mgr = s.mgr
             /\ Clean(t) => t.ok
             /\ t.dev.operation = [s.dev.operation EXCEPT ![r] = "None"]
             /\ Matched(s) => Matched(t)
<1> DEFINE t == done(s, r)
<1>1. s.dev \in Device /\ s.mgr \in Manager
  BY DEF State
<1>2. CASE s.dev.operation[r] = "None"
  <2>1. t = Ok(s)
    BY <1>2 DEF done
  <2>2. s.dev.operation = [s.dev.operation EXCEPT ![r] = "None"]
    BY <1>1, <1>2 DEF Device
  <2> QED BY <2>1, <2>2, Okay DEF SameData, Matched
<1>3. CASE s.dev.operation[r] # "None"
  <2> DEFINE c == Call(s)
             d == [c.dev EXCEPT !.operation[r] = "None", !.prepared[r] = "None"]
  <2>1. c \in State /\ Runs(s, c) /\ c.dev = s.dev /\ c.mgr = s.mgr /\ (Clean(c) => c.ok)
    BY Calling DEF Runs
  <2>2. t = [c EXCEPT !.dev.operation[r] = "None", !.dev.prepared[r] = "None"]
    BY <1>3, Zenon DEF done
  <2> HIDE DEF c
  <2>3. d \in Device /\ d.flash = s.dev.flash /\ d.unprepared = s.dev.unprepared
        /\ d.operation = [s.dev.operation EXCEPT ![r] = "None"]
        /\ d.prepared = [s.dev.prepared EXCEPT ![r] = "None"]
    BY <1>1, <2>1 DEF Device, Operation
  <2>4. t = [c EXCEPT !.dev = d]
    BY <2>1, <2>2 DEF State, Device
  <2> HIDE DEF d, t
  <2>5. Runs(c, t) /\ t.dev = d /\ t.ok = c.ok /\ t.mgr = c.mgr /\ t.calls = c.calls /\ t.fault = c.fault
    BY <2>1, <2>3, <2>4, NewDevice
  <2>6. Runs(s, t) /\ (Clean(t) => t.ok)
    BY <2>1, <2>5, RunsOn DEF Clean
  <2>7. SameData(s, t) /\ t.mgr = s.mgr /\ t.dev.operation = [s.dev.operation EXCEPT ![r] = "None"]
    BY <2>1, <2>3, <2>5, Zenon DEF SameData
  <2>8. Matched(s) => Matched(t)
    BY <2>3, <2>5, Zenon DEF Matched
  <2> QED BY <2>6, <2>7, <2>8 DEF t
<1> QED BY <1>2, <1>3

(* prepare() leaves the driver and the controller ready for the operation. *)
LEMMA PrepareStep ==
  ASSUME NEW s \in State, NEW r \in Region, NEW op \in {"Erase", "Write"}
  PROVE  LET t == prepare(s, r, op)
         IN  /\ Runs(s, t) /\ SameData(s, t) /\ t.mgr = s.mgr
             /\ Clean(t) => t.ok
             /\ t.ok => t.dev.operation = [s.dev.operation EXCEPT ![r] = op]
             /\ Matched(s) => Matched(t)
<1> DEFINE t == prepare(s, r, op)
<1>1. s.dev \in Device /\ s.mgr \in Manager
  BY DEF State
<1>2. CASE s.dev.operation[r] = op
  <2>1. t = Ok(s)
    BY <1>2, Zenon DEF prepare
  <2>2. s.dev.operation = [s.dev.operation EXCEPT ![r] = op]
    BY <1>1, <1>2 DEF Device
  <2> QED BY <2>1, <2>2, Okay DEF SameData, Matched
<1>3. CASE s.dev.operation[r] # op
  <2> DEFINE i == done(s, r)
             c == Call(i)
  <2>1. /\ Runs(s, i) /\ SameData(s, i) /\ i.mgr = s.mgr
        /\ Clean(i) => i.ok
        /\ i.dev.operation = [s.dev.operation EXCEPT ![r] = "None"]
        /\ Matched(s) => Matched(i)
    BY DoneStep
  <2>2. i \in State /\ i.dev \in Device
    BY <2>1 DEF Runs, State
  <2>3. CASE ~i.ok
    <3>1. t = i
      BY <1>3, <2>3, Zenon DEF prepare, Then
    <3> HIDE DEF i
    <3> QED BY <2>1, <2>3, <3>1
  <2>4. CASE i.ok
    <3>1. c \in State /\ Runs(i, c) /\ c.dev = i.dev /\ c.mgr = i.mgr /\ (Clean(c) => c.ok)
      BY <2>2, Calling DEF Runs
    <3>2. t = IF c.ok THEN [c EXCEPT !.dev.operation[r] = op, !.dev.prepared[r] = op]
              ELSE [c EXCEPT !.dev.operation[r] = "None"]
      BY <1>3, <2>4, Zenon DEF prepare, Then
    <3> HIDE DEF c
    <3> DEFINE o == IF c.ok THEN op ELSE "None"
               d == [i.dev EXCEPT !.operation[r] = o, !.prepared[r] = IF c.ok THEN op ELSE @]
    <3>3. o \in Operation /\ op \in Operation
      BY DEF Operation
    <3> HIDE DEF i
    <3>4. /\ d \in Device /\ d.flash = i.dev.flash /\ d.unprepared = i.dev.unprepared
          /\ d.operation = [i.dev.operation EXCEPT ![r] = o]
          /\ d.prepared = [i.dev.prepared EXCEPT ![r] = IF c.ok THEN op ELSE @]
      BY <2>2, <3>3 DEF Device
    <3>5. t = [c EXCEPT !.dev = d]
      <4>1. CASE c.ok
        <5>1. d = [i.dev EXCEPT !.operation[r] = op, !.prepared[r] = op]
          BY <2>2, <4>1 DEF Device
        <5>2. t = [c EXCEPT !.dev.operation[r] = op, !.dev.prepared[r] = op]
          BY <3>2, <4>1
        <5> HIDE DEF d, t
        <5> QED BY <3>1, <5>1, <5>2, <2>2 DEF State, Device
      <4>2. CASE ~c.ok
        <5>1. d = [i.dev EXCEPT !.operation[r] = "None"]
          BY <2>2, <4>2 DEF Device
        <5>2. t = [c EXCEPT !.dev.operation[r] = "None"]
          BY <3>2, <4>2
        <5> QED BY <3>1, <5>1, <5>2 DEF State, Device
      <4> QED BY <4>1, <4>2
    <3> HIDE DEF d, t
    <3>6. /\ Runs(c, t) /\ t.dev = d /\ t.ok = c.ok /\ t.mgr = c.mgr
          /\ t.calls = c.calls /\ t.fault = c.fault
      BY <3>1, <3>4, <3>5, NewDevice
    <3>7. Runs(s, t) /\ (Clean(t) => t.ok)
      BY <2>1, <2>2, <3>1, <3>6, RunsOn DEF Clean
    <3>8. SameData(s, t) /\ t.mgr = s.mgr
      BY <2>1, <3>1, <3>4, <3>6, Zenon DEF SameData
    <3>9. t.ok => t.dev.operation = [s.dev.operation EXCEPT ![r] = op]
      BY <1>1, <2>1, <3>4, <3>6 DEF Device, o
    <3>10. ASSUME Matched(s) PROVE Matched(t)
      <4>1. i.dev.prepared = i.dev.operation /\ i.dev.operation[r] = "None"
        BY <1>1, <2>1, <3>10 DEF Matched, Device
      <4> QED BY <4>1, <3>4, <3>6, <2>2 DEF Matched, o, Device
    <3> QED BY <3>7, <3>8, <3>9, <3>10 DEF t
  <2> QED BY <2>3, <2>4
<1> QED BY <1>2, <1>3

\* Another callback writes the flash: what may change and what does not
Drives(s, t, cells) ==
  /\ Runs(s, t) /\ t.mgr = s.mgr /\ (Clean(t) => t.ok)
  /\ t.dev.operation = s.dev.operation /\ t.dev.prepared = s.dev.prepared
  /\ \A a \in Addr \ cells : t.dev.flash[a] = s.dev.flash[a]

(* The data of a write unit. *)
UnitData == [0..(WRITE - 1) -> Bytes]

(* t: s after write_block of the unit at addr. *)
Writes(s, t, r, addr, data) ==
  /\ Drives(s, t, addr..(addr + WRITE - 1))
  /\ t.dev.unprepared = (s.dev.unprepared \/ s.dev.prepared[r] # "Write")
  /\ t.ok => \A a \in Addr \cap addr..(addr + WRITE - 1) :
               t.dev.flash[a] = Program(s.dev.flash[a], data[a - addr])

(* t: s after erase_block of the cells. *)
Erases(s, t, r, cells) ==
  /\ Drives(s, t, cells)
  /\ t.dev.unprepared = (s.dev.unprepared \/ s.dev.prepared[r] # "Erase")
  /\ t.ok => \A a \in Addr \cap cells : t.dev.flash[a] = Erased

(* erase_block() erases its cells or fails. *)
LEMMA EraseBlockStep ==
  ASSUME NEW s \in State, NEW r \in Region, NEW cells
  PROVE  Erases(s, erase_block(s, r, cells), r, cells)
<1> DEFINE c == Call(s)
           u == (s.dev.unprepared \/ s.dev.prepared[r] # "Erase")
           f == [a \in Addr |-> IF a \notin cells THEN s.dev.flash[a]
                                ELSE IF c.ok THEN Erased ELSE Corrupt]
           d == [s.dev EXCEPT !.unprepared = u, !.flash = f]
           t == erase_block(s, r, cells)
<1>1. c \in State /\ Runs(s, c) /\ c.dev = s.dev /\ c.mgr = s.mgr /\ (Clean(c) => c.ok)
  BY Calling DEF Runs
<1>2. s.dev \in Device
  BY DEF State
<1>3. t = [c EXCEPT !.dev.unprepared = @ \/ s.dev.prepared[r] # "Erase",
                    !.dev.flash = [a \in Addr |-> IF a \notin cells THEN @[a]
                                             ELSE IF c.ok THEN Erased ELSE Corrupt]]
  BY Zenon DEF erase_block
<1> HIDE DEF c, t
<1>4. u \in BOOLEAN /\ f \in [Addr -> Cell]
  BY <1>2 DEF Device, Cell
<1>5. t = [c EXCEPT !.dev = d]
  BY <1>1, <1>2, <1>3 DEF State, Device
<1> HIDE DEF u
<1>6. d \in Device /\ d.flash = f /\ d.unprepared = u /\ d.operation = s.dev.operation
      /\ d.prepared = s.dev.prepared
  <2> HIDE DEF f
  <2> QED BY <1>2, <1>4 DEF Device
<1> HIDE DEF d
<1>7. /\ Runs(c, t) /\ t.dev = d /\ t.ok = c.ok /\ t.mgr = c.mgr
      /\ t.calls = c.calls /\ t.fault = c.fault
  BY <1>1, <1>5, <1>6, NewDevice
<1>8. Runs(s, t) /\ (Clean(t) => t.ok)
  BY <1>1, <1>7, RunsOn DEF Clean
<1> QED BY <1>1, <1>6, <1>7, <1>8 DEF Erases, Drives, t, u

(* write_block() programs its unit or fails. *)
LEMMA WriteBlockStep ==
  ASSUME NEW s \in State, NEW r \in Region, NEW addr \in Int,
         NEW data \in UnitData
  PROVE  Writes(s, write_block(s, r, addr, data), r, addr, data)
<1> DEFINE c == Call(s)
           u == (s.dev.unprepared \/ s.dev.prepared[r] # "Write")
           cells == addr..(addr + WRITE - 1)
           f == [a \in Addr |-> IF a \notin cells THEN s.dev.flash[a]
                                ELSE IF c.ok THEN Program(s.dev.flash[a], data[a - addr])
                                ELSE Corrupt]
           d == [s.dev EXCEPT !.unprepared = u, !.flash = f]
           t == write_block(s, r, addr, data)
<1>1. c \in State /\ Runs(s, c) /\ c.dev = s.dev /\ c.mgr = s.mgr /\ (Clean(c) => c.ok)
  BY Calling DEF Runs
<1>2. s.dev \in Device
  BY DEF State
<1>3. t = [c EXCEPT !.dev.unprepared = @ \/ s.dev.prepared[r] # "Write",
                    !.dev.flash = [a \in Addr |->
                                 IF a \notin addr..(addr + WRITE - 1) THEN @[a]
                                 ELSE IF c.ok THEN Program(@[a], data[a - addr])
                                 ELSE Corrupt]]
  BY Zenon DEF write_block
<1> HIDE DEF c, t
<1>4. u \in BOOLEAN /\ f \in [Addr -> Cell]
  <2>1. ASSUME NEW a \in Addr, a \in cells PROVE Program(s.dev.flash[a], data[a - addr]) \in Cell
    <3>1. data[a - addr] \in Bytes
      <4>1. a - addr \in 0..(WRITE - 1)
        BY <2>1, Constants
      <4> QED BY <4>1 DEF UnitData
    <3>2. s.dev.flash[a] \in Cell
      BY <1>2, <2>1 DEF Device
    <3> QED BY <3>1, <3>2 DEF Program, Cell, Bytes
  <2>2. \A a \in Addr : s.dev.flash[a] \in Cell
    BY <1>2 DEF Device
  <2> QED BY <2>1, <2>2 DEF Cell
<1>5. t = [c EXCEPT !.dev = d]
  BY <1>1, <1>2, <1>3 DEF State, Device
<1> HIDE DEF u
<1>6. d \in Device /\ d.flash = f /\ d.unprepared = u /\ d.operation = s.dev.operation
      /\ d.prepared = s.dev.prepared
  <2> HIDE DEF f
  <2> QED BY <1>2, <1>4 DEF Device
<1> HIDE DEF d
<1>7. /\ Runs(c, t) /\ t.dev = d /\ t.ok = c.ok /\ t.mgr = c.mgr
      /\ t.calls = c.calls /\ t.fault = c.fault
  BY <1>1, <1>5, <1>6, NewDevice
<1>8. Runs(s, t) /\ (Clean(t) => t.ok)
  BY <1>1, <1>7, RunsOn DEF Clean
<1> QED BY <1>1, <1>6, <1>7, <1>8 DEF Writes, Drives, t, u

-----------------------------------------------------------------------------
(* The operations of the regions.                                          *)

\* What the manager remembers of a region is what the driver is doing, and
\* what the controller is prepared for
Agrees(s) ==
  Matched(s) /\ s.dev.operation = s.mgr.current /\ ~s.dev.unprepared

(* The driver is idle once the manager has released a region. *)
LEMMA ReleaseStep ==
  ASSUME NEW s \in State, NEW r \in Region
  PROVE  LET t == release(s, r)
         IN  /\ Runs(s, t) /\ SameData(s, t) /\ t.mgr = s.mgr
             /\ Clean(t) => t.ok
             /\ Matched(s) => Matched(t)
             /\ Agrees(s) => t.dev.operation = [s.dev.operation EXCEPT ![r] = "None"]
<1> DEFINE t == release(s, r)
<1>1. CASE s.mgr.current[r] = "None"
  <2>1. t = Ok(s)
    BY <1>1, Zenon DEF release
  <2>2. ASSUME Agrees(s) PROVE s.dev.operation = [s.dev.operation EXCEPT ![r] = "None"]
    BY <1>1, <2>2 DEF Agrees, State, Device
  <2>3. Runs(s, t) /\ t.ok /\ t.dev = s.dev /\ t.mgr = s.mgr
    BY <2>1, Okay
  <2> QED BY <2>2, <2>3, Zenon DEF SameData, Matched
<1>2. CASE s.mgr.current[r] # "None"
  BY <1>2, DoneStep, Zenon DEF release
<1> QED BY <1>1, <1>2

(* forget() is about the manager alone. *)
LEMMA ForgetStep ==
  ASSUME NEW s \in State, NEW r \in Region
  PROVE  LET t == forget(s, r)
         IN  /\ Runs(s, t) /\ SameData(s, t) /\ t.dev = s.dev /\ t.ok = s.ok
             /\ t.mgr.current = [s.mgr.current EXCEPT ![r] = "None"]
             /\ t.calls = s.calls /\ t.fault = s.fault
<1> DEFINE m == [s.mgr EXCEPT !.current[r] = "None"]
<1>1. s.mgr \in Manager /\ s.dev \in Device
  BY DEF State
<1>2. /\ m \in Manager /\ m.buffer = s.mgr.buffer /\ m.active = s.mgr.active
      /\ m.current = [s.mgr.current EXCEPT ![r] = "None"]
  <2> QED BY <1>1 DEF Manager, Operation
<1>3. forget(s, r) = [s EXCEPT !.mgr = m]
  <2>1. forget(s, r) = [s EXCEPT !.mgr.current[r] = "None"]
    BY Zenon DEF forget
  <2> QED BY <2>1, <1>1 DEF State, Manager
<1> HIDE DEF m
<1> QED BY <1>2, <1>3, NewManagement DEF SameData

(* set_operation(): the manager, the driver and the controller go on agreeing unless a
   callback fails. *)
LEMMA SetOperationStep ==
  ASSUME NEW s \in State, NEW r \in Region, NEW op \in Operation
  PROVE  LET t == set_operation(s, r, op)
         IN  /\ Runs(s, t) /\ SameData(s, t)
             /\ Clean(t) => t.ok
             /\ Clean(t) /\ Agrees(s) => /\ Agrees(t)
                                         /\ t.mgr.current = [s.mgr.current EXCEPT ![r] = op]
<1> DEFINE t == set_operation(s, r, op)
           i == release(s, r)
           e == forget(i, r)
           u == prepare(e, r, op)
<1>0. s.mgr \in Manager /\ s.mgr.current \in [Region -> Operation]
  BY DEF State, Manager
<1>1. CASE s.mgr.current[r] = op
  <2>1. t = Ok(s)
    BY <1>1, Zenon DEF set_operation
  <2>2. Runs(s, t) /\ t.ok /\ t.dev = s.dev /\ t.mgr = s.mgr
    BY <2>1, Okay
  <2>3. s.mgr.current = [s.mgr.current EXCEPT ![r] = op]
    BY <1>0, <1>1
  <2> QED BY <2>2, <2>3, Zenon DEF SameData, Agrees, Matched
<1>2. CASE s.mgr.current[r] # op
  <2>1. /\ Runs(s, i) /\ SameData(s, i) /\ i.mgr = s.mgr
        /\ Clean(i) => i.ok
        /\ Matched(s) => Matched(i)
        /\ Agrees(s) => i.dev.operation = [s.dev.operation EXCEPT ![r] = "None"]
    BY ReleaseStep
  <2>2. CASE ~i.ok
    <3>1. t = i
      BY <1>2, <2>2, Zenon DEF set_operation, Then
    <3> HIDE DEF i, t
    <3> QED BY <2>1, <2>2, <3>1 DEF t
  <2>3. CASE i.ok
    <3>1. i \in State
      BY <2>1 DEF Runs
    <3>2. /\ Runs(i, e) /\ SameData(i, e) /\ e.dev = i.dev /\ e.ok = i.ok
          /\ e.mgr.current = [i.mgr.current EXCEPT ![r] = "None"]
          /\ e \in State
      <4> HIDE DEF i
      <4> QED BY <3>1, ForgetStep DEF Runs
    <3>3. Agrees(s) => Agrees(e)
      BY <2>1, <3>2, Zenon DEF Agrees, SameData, Matched
    <3>4. Runs(s, e) /\ SameData(s, e)
      <4> HIDE DEF i, e
      <4>1. SameData(s, e)
        BY <2>1, <3>2, Zenon DEF SameData
      <4> QED BY <2>1, <3>2, <4>1, RunsOn, Zenon
    <3>5. CASE op = "None"
      <4>1. t = e
        BY <1>2, <2>3, <3>5, Zenon DEF set_operation, Then
      <4>2. t.ok
        BY <2>3, <3>2, <4>1, Zenon
      <4>3. t.mgr.current = [s.mgr.current EXCEPT ![r] = op]
        BY <2>1, <3>2, <3>5, <4>1, Zenon
      <4> QED BY <3>3, <3>4, <4>1, <4>2, <4>3, Zenon
    <3>6. CASE op # "None"
      <4>1. op \in {"Erase", "Write"}
        BY <3>6 DEF Operation
      <4>2. /\ Runs(e, u) /\ SameData(e, u) /\ u.mgr = e.mgr
            /\ Clean(u) => u.ok
            /\ u.ok => u.dev.operation = [e.dev.operation EXCEPT ![r] = op]
            /\ Matched(e) => Matched(u)
            /\ u \in State
        <5> HIDE DEF e
        <5>1. e \in State
          BY <3>2
        <5>2. /\ Runs(e, u) /\ SameData(e, u) /\ u.mgr = e.mgr
              /\ Clean(u) => u.ok
              /\ u.ok => u.dev.operation = [e.dev.operation EXCEPT ![r] = op]
              /\ Matched(e) => Matched(u)
          BY <4>1, <5>1, PrepareStep
        <5> QED BY <5>2 DEF Runs
      <4>3. t = IF u.ok THEN [u EXCEPT !.mgr.current[r] = op] ELSE u
        BY <1>2, <2>3, <3>6, Zenon DEF set_operation, Then
      <4>4. CASE ~u.ok
        <5>1. t = u
          BY <4>3, <4>4, Zenon
        <5> HIDE DEF t, u, e
        <5>2. Runs(s, t) /\ SameData(s, t)
          <6>1. SameData(s, t)
            BY <3>4, <4>2, <5>1, Zenon DEF SameData
          <6> QED BY <3>4, <4>2, <5>1, <6>1, RunsOn, Zenon
        <5> QED BY <4>2, <4>4, <5>1, <5>2 DEF t
      <4>5. CASE u.ok
        <5> DEFINE m == [u.mgr EXCEPT !.current[r] = op]
        <5> HIDE DEF u, e, i
        <5>1. t = [u EXCEPT !.mgr.current[r] = op]
          BY <4>3, <4>5, Zenon
        <5> HIDE DEF t
        <5>2. u.mgr \in Manager
          BY <4>2 DEF State
        <5>3. /\ m \in Manager /\ m.buffer = u.mgr.buffer /\ m.active = u.mgr.active
              /\ m.current = [u.mgr.current EXCEPT ![r] = op]
          BY <5>2 DEF Manager
        <5>4. t = [u EXCEPT !.mgr = m]
          BY <4>2, <5>1, <5>2 DEF State, Manager
        <5> HIDE DEF m
        <5>5. /\ Runs(u, t) /\ t.mgr = m /\ t.dev = u.dev /\ t.ok = u.ok
              /\ t.calls = u.calls /\ t.fault = u.fault
          BY <4>2, <5>3, <5>4, NewManagement
        <5>6. SameData(s, t)
          BY <3>4, <4>2, <5>3, <5>5, Zenon DEF SameData
        <5>7. Runs(s, t)
          BY <3>2, <3>4, <4>2, <5>5, RunsOn, Zenon
        <5>8. t.mgr.current = [s.mgr.current EXCEPT ![r] = op]
          <6>1. t.mgr.current = [[s.mgr.current EXCEPT ![r] = "None"] EXCEPT ![r] = op]
            BY <2>1, <3>2, <4>2, <5>3, <5>5, Zenon
          <6> QED BY <1>0, <6>1
        <5>9. ASSUME Agrees(s) PROVE Agrees(t)
          <6>1. Agrees(e)
            BY <3>3, <5>9
          <6>2. t.dev.operation = [e.dev.operation EXCEPT ![r] = op]
            BY <4>2, <4>5, <5>5, Zenon
          <6>3. t.mgr.current = [e.mgr.current EXCEPT ![r] = op]
            BY <4>2, <5>3, <5>5, Zenon
          <6> QED BY <4>2, <5>5, <6>1, <6>2, <6>3, Zenon DEF Agrees, Matched, SameData
        <5> QED BY <4>5, <5>5, <5>6, <5>7, <5>8, <5>9 DEF t
      <4> QED BY <4>4, <4>5
    <3> QED BY <3>5, <3>6
  <2> QED BY <2>2, <2>3
<1> QED BY <1>1, <1>2

-----------------------------------------------------------------------------
(* The sector buffer: flush.                                               *)

(* Multiplication keeps the order. *)
LEMMA NotLess ==
  ASSUME NEW n \in Nat \ {0}, NEW p \in Int, NEW q \in Int, p <= q
  PROVE  n * p <= n * q
<1>1. CASE p = q
  BY <1>1
<1>2. CASE p < q
  <2>1. n * p + n <= n * q
    BY <1>2, Product
  <2> QED BY <2>1
<1> QED BY <1>1, <1>2

\* The units a flush of [low, high) writes: one after the other, each aligned,
\* all of them within the sector, every byte in one of them
UnitsOf(base, low, high) ==
  LET l == low - (low % WRITE)
      n == (high - l + WRITE - 1) \div WRITE
      w == low \div WRITE
  IN  /\ l \in Int /\ n \in Nat \ {0} /\ w \in Int
      /\ w + n - 1 = (high - 1) \div WRITE
      /\ \A k \in 1..n, a \in Int :
           /\ a \in (l + (k - 1) * WRITE)..(l + (k - 1) * WRITE + WRITE - 1)
                <=> a \div WRITE = w + k - 1
           /\ a \div WRITE = w + k - 1 => a \in base..(base + BUF - 1)
      /\ \A k \in 1..n : l + (k - 1) * WRITE \in Int
      /\ \A a \in low..(high - 1) : a \div WRITE \in w..(w + n - 1)

(* flush() writes the units from the one of the first byte to the one of the last. *)
LEMMA Units ==
  ASSUME NEW base \in Nat, base % BUF = 0, NEW low \in Int, NEW high \in Int,
         base <= low, low < high, high <= base + BUF
  PROVE  UnitsOf(base, low, high)
<1> DEFINE l == low - (low % WRITE)
           n == (high - l + WRITE - 1) \div WRITE
           w == low \div WRITE
           z == (high - 1) \div WRITE
<1>1. WRITE \in Nat \ {0} /\ BUF \in Nat \ {0} /\ BUF % WRITE = 0
  BY Constants
<1>2. l \in Int /\ l % WRITE = 0 /\ l = WRITE * w /\ w \in Int /\ z \in Int
  <2>1. l \in Int /\ l % WRITE = 0
    BY <1>1, Floor
  <2>2. w \in Int /\ low = WRITE * w + (low % WRITE) /\ (low % WRITE) \in Int
    BY <1>1, Division
  <2>3. z \in Int
    BY <1>1
  <2>4. WRITE * w \in Int
    BY <1>1, <2>2
  <2> HIDE DEF w
  <2>5. l = WRITE * w
    BY <2>2, <2>4
  <2> QED BY <2>1, <2>2, <2>3, <2>5
<1>3. /\ WRITE * z <= high - 1 /\ high - 1 < WRITE * z + WRITE
  BY <1>1, Division
<1>4. w <= z
  BY <1>1, Ordered
<1>5. n = z - w + 1
  <2> DEFINE e == high - l + WRITE - 1
  <2>1. e \in Int
    BY <1>1, <1>2
  <2>2. WRITE * (z - w + 1) = WRITE * z - WRITE * w + WRITE
    BY <1>1, <1>2
  <2>3. WRITE * z \in Int /\ WRITE * w \in Int
    BY <1>1, <1>2
  <2> HIDE DEF w, z, l
  <2>4. WRITE * (z - w + 1) <= e /\ e < WRITE * (z - w + 1) + WRITE
    BY <1>1, <1>2, <1>3, <2>2, <2>3
  <2> HIDE DEF e
  <2>5. e \div WRITE = z - w + 1
    BY <1>1, <1>2, <2>1, <2>4, Quotient
  <2> QED BY <2>5 DEF e
<1> HIDE DEF n, l, w, z
<1>6. n \in Nat \ {0} /\ w + n - 1 = z
  BY <1>2, <1>4, <1>5
<1>7. base % WRITE = 0 /\ (base + BUF) % WRITE = 0
  <2> DEFINE p == base \div BUF
             q == BUF \div WRITE
  <2>1. p \in Int /\ q \in Int /\ base = BUF * p /\ BUF = WRITE * q
    BY <1>1, Division
  <2> HIDE DEF p, q
  <2>2. base = WRITE * (q * p) /\ q * p \in Int
    BY <1>1, <2>1
  <2>3. base % WRITE = 0
    BY <1>1, <2>2, Multiple
  <2>4. base \in Int /\ BUF \in Int
    BY <1>1
  <2> QED BY <1>1, <2>3, <2>4, SumOfMultiples
<1>8. base <= WRITE * w /\ WRITE * z + WRITE <= base + BUF
  <2>1. \A m \in Int : m % WRITE = 0 /\ m <= low => m <= low - (low % WRITE)
    BY <1>1, Floor
  <2>2. base <= low - (low % WRITE)
    BY <1>1, <1>7, <2>1
  <2> DEFINE h == high - 1
  <2>3. h \in Int /\ h < base + BUF /\ base + BUF \in Int
    BY <1>1
  <2> HIDE DEF h
  <2>4. \A m \in Int : m % WRITE = 0 /\ h < m => h - (h % WRITE) + WRITE <= m
    BY <1>1, <2>3, Floor
  <2>5. h - (h % WRITE) + WRITE <= base + BUF
    BY <1>1, <1>7, <2>3, <2>4
  <2>6. h - (h % WRITE) = WRITE * z
    <3>1. h = WRITE * (h \div WRITE) + (h % WRITE) /\ (h % WRITE) \in Int
      BY <1>1, <2>3, Division
    <3>2. WRITE * (h \div WRITE) \in Int
      BY <1>1, <2>3
    <3>3. h - (h % WRITE) = WRITE * (h \div WRITE)
      BY <3>1, <3>2, <2>3
    <3> QED BY <3>3 DEF z, h
  <2> QED BY <1>2, <2>2, <2>5, <2>6 DEF l
<1>9. ASSUME NEW k \in 1..n, NEW a \in Int
      PROVE  /\ l + (k - 1) * WRITE \in Int
             /\ a \in (l + (k - 1) * WRITE)..(l + (k - 1) * WRITE + WRITE - 1)
                  <=> a \div WRITE = w + k - 1
             /\ a \div WRITE = w + k - 1 => a \in base..(base + BUF - 1)
  <2> DEFINE u == l + (k - 1) * WRITE
             v == w + k - 1
  <2>1. v \in Int /\ w <= v /\ v <= z
    BY <1>2, <1>6
  <2>2. u = WRITE * v /\ u \in Int
    BY <1>1, <1>2
  <2> HIDE DEF u, v
  <2>3. u % WRITE = 0 /\ u \div WRITE = v
    BY <1>1, <2>1, <2>2, Multiple
  <2>4. a \in u..(u + WRITE - 1) <=> a \div WRITE = v
    BY <1>1, <2>2, <2>3, Stretch
  <2>5. ASSUME a \div WRITE = v PROVE a \in base..(base + BUF - 1)
    <3>1. WRITE * w <= u /\ u <= WRITE * z
      BY <1>1, <1>2, <2>1, <2>2, NotLess
    <3>2. u <= a /\ a <= u + WRITE - 1
      BY <1>1, <2>2, <2>4, <2>5
    <3>3. WRITE * w \in Int /\ WRITE * z \in Int
      BY <1>1, <1>2
    <3> QED BY <1>1, <1>8, <2>2, <3>1, <3>2, <3>3
  <2> QED BY <2>2, <2>4, <2>5 DEF u, v
<1>10. ASSUME NEW a \in low..(high - 1) PROVE a \div WRITE \in w..z
  <2>1. low \div WRITE <= a \div WRITE /\ a \div WRITE <= (high - 1) \div WRITE
    BY <1>1, Ordered
  <2>2. a \div WRITE \in Int
    BY <1>1
  <2> QED BY <1>2, <2>1, <2>2 DEF w, z
<1> QED BY <1>2, <1>6, <1>9, <1>10 DEF UnitsOf, n, l, w, z

(* The buffer holds the bytes of one sector back, low to high. *)
Holds(b) ==
  /\ b.base \in Nat /\ b.base % BUF = 0
  /\ b.base <= b.low /\ b.low < b.high /\ b.high <= b.base + BUF
  /\ \A i \in 0..(BUF - 1) : b.data[i] # Erased => b.base + i \in b.low..(b.high - 1)

\* What is held back belongs to the active region and to the cells T of the
\* load, and lies over erased cells
Fits(b, flash, r, T) ==
  /\ Holds(b) /\ r \in Region /\ b.low \in T /\ b.high - 1 \in T
  /\ \A a \in Addr : a \in b.low..(b.high - 1) /\ b.data[a - b.base] # Erased
                       => flash[a] = Erased
(* What is held back, if anything, is within the load. *)
Safe(s, T) ==
  \/ s.mgr.buffer = EmptyBuffer
  \/ Fits(s.mgr.buffer, s.dev.flash, s.mgr.active, T)

(* The cells of a load: with two of a sector, those between. *)
Closed(T) == T \subseteq Addr /\ Reach(T) \subseteq T

(* The flash as GDB sees it. *)
View(s) == Seen(s.dev.flash, s.mgr.buffer)

\* The cells of no load are spared
Spares(s, t, T) == \A a \in Addr \ T : t.dev.flash[a] = s.dev.flash[a]

(* The empty buffer holds nothing back. *)
LEMMA Buffers ==
  /\ EmptyBuffer \in Sector /\ ~is_dirty(EmptyBuffer)
  /\ \A b : Holds(b) => is_dirty(b)
<1>1. EmptyBuffer \in Sector
  BY DEF EmptyBuffer, Sector, NoAddr, Bytes
<1>2. ~is_dirty(EmptyBuffer)
  BY DEF EmptyBuffer, is_dirty, NoAddr
<1>3. ASSUME NEW b, Holds(b) PROVE is_dirty(b)
  BY <1>3 DEF Holds, is_dirty, NoAddr
<1> QED BY <1>1, <1>2, <1>3

(* Calls that touch neither the flash nor the buffer keep it safe. *)
LEMMA Unchanged ==
  ASSUME NEW s, NEW t, NEW T, SameData(s, t), Safe(s, T)
  PROVE  Safe(t, T) /\ Spares(s, t, T) /\ View(t) = View(s)
BY Zenon DEF SameData, Safe, Spares, View

\* An empty buffer shows the device
LEMMA SeenEmpty ==
  ASSUME NEW flash \in [Addr -> Cell]
  PROVE  Seen(flash, EmptyBuffer) = flash
BY Buffers DEF Seen

\* What is held back lies over the cells of the load
LEMMA SeenOutside ==
  ASSUME NEW s \in State, NEW T, Closed(T), Safe(s, T)
  PROVE  \A a \in Addr \ T : View(s)[a] = s.dev.flash[a]
<1> DEFINE b == s.mgr.buffer
           flash == s.dev.flash
<1>1. flash \in [Addr -> Cell] /\ b \in Sector
  BY DEF State, Device, Manager
<1>2. CASE b = EmptyBuffer
  <2>1. View(s) = flash
    BY <1>1, <1>2, SeenEmpty DEF View
  <2> QED BY <2>1
<1>3. CASE Fits(b, flash, s.mgr.active, T)
  <2> SUFFICES ASSUME NEW a \in Addr, a \in b.low..(b.high - 1) PROVE a \in T
    BY DEF View, Seen
  <2>1. b.low \in Int /\ b.high \in Int /\ b.base \in Int
    BY <1>1 DEF Sector
  <2>2. /\ b.base \in Nat /\ b.base % BUF = 0 /\ b.base <= b.low /\ b.low < b.high
        /\ b.high <= b.base + BUF /\ b.low \in T /\ b.high - 1 \in T
    BY <1>3 DEF Fits, Holds
  <2>3. BUF \in Nat \ {0} /\ WRITE \in Nat \ {0} /\ a \in Int
    BY Constants, AddrNat
  <2> DEFINE h == b.high - 1
  <2>4. h \in Int /\ b.low <= a /\ a <= h /\ b.base <= a /\ b.base <= h
        /\ a <= b.base + BUF - 1 /\ h <= b.base + BUF - 1 /\ b.low <= b.base + BUF - 1
    BY <2>1, <2>2, <2>3
  <2> HIDE DEF h, b
  <2>5. b.low \div BUF = b.base \div BUF /\ a \div BUF = b.base \div BUF /\ h \div BUF = b.base \div BUF
    <3>1. \A x \in Int : x \in b.base..(b.base + BUF - 1) <=> x \div BUF = b.base \div BUF
      BY <2>1, <2>2, <2>3, Stretch
    <3>2. /\ b.low \in b.base..(b.base + BUF - 1) /\ a \in b.base..(b.base + BUF - 1)
          /\ h \in b.base..(b.base + BUF - 1)
      BY <2>1, <2>2, <2>3, <2>4
    <3> QED BY <2>1, <2>3, <2>4, <3>1, <3>2, Zenon
  <2>6. b.low \div WRITE <= a \div WRITE /\ a \div WRITE <= h \div WRITE
    BY <2>1, <2>3, <2>4, Ordered
  <2>7. a \in Reach(T)
    <3>1. b.low \in T /\ h \in T
      BY <2>2 DEF h
    <3> HIDE DEF h
    <3> QED BY <2>5, <2>6, <3>1, Zenon DEF Reach
  <2> QED BY <2>7 DEF Closed
<1> QED BY <1>2, <1>3 DEF Safe

\* Another buffer, and nothing else
Rebuffers(s, t, b) ==
  /\ Runs(s, t) /\ t.dev = s.dev /\ t.ok = s.ok /\ t.calls = s.calls
  /\ t.mgr.current = s.mgr.current /\ t.mgr.active = s.mgr.active /\ t.mgr.buffer = b

(* A call that changes the buffer only. *)
LEMMA NewBuffer ==
  ASSUME NEW s \in State, NEW b \in Sector
  PROVE  Rebuffers(s, [s EXCEPT !.mgr.buffer = b], b)
<1> DEFINE m == [s.mgr EXCEPT !.buffer = b]
           u == [s EXCEPT !.mgr.buffer = b]
<1>1. s.mgr \in Manager
  BY DEF State
<1>2. m \in Manager /\ m.current = s.mgr.current /\ m.active = s.mgr.active /\ m.buffer = b
  <2>1. s.mgr = [current |-> s.mgr.current, active |-> s.mgr.active, buffer |-> s.mgr.buffer]
    BY <1>1 DEF Manager
  <2>2. m = [current |-> s.mgr.current, active |-> s.mgr.active, buffer |-> b]
    BY <2>1
  <2>3. s.mgr.current \in [Region -> Operation] /\ s.mgr.active \in Region \cup {NoRegion}
    BY <1>1 DEF Manager
  <2> HIDE DEF m
  <2> QED BY <2>2, <2>3 DEF Manager
<1>3. u = [s EXCEPT !.mgr = m]
  BY <1>1 DEF State, Manager
<1> HIDE DEF m, u
<1>4. /\ Runs(s, u) /\ u.mgr = m /\ u.ok = s.ok /\ u.dev = s.dev
      /\ u.calls = s.calls /\ u.fault = s.fault
  BY <1>2, <1>3, NewManagement
<1>5. Rebuffers(s, u, b)
  BY <1>2, <1>4 DEF Rebuffers
<1> QED BY <1>5 DEF u

\* A loop whose step keeps to S is the function that its equation says it is
IsStep(G, n, S) == G \in [(1..n) \X S -> S]
(* g: the values after 0 to n turns of a loop. *)
IsLoop(g, n, b, G, S) ==
  /\ g = [k \in 0..n |-> IF k = 0 THEN b ELSE G[<<k, g[k - 1]>>]]
  /\ \A k \in 0..n : g[k] \in S

(* A loop whose turns stay in S runs. *)
LEMMA LoopIn ==
  ASSUME NEW n \in Nat, NEW S, NEW b \in S, NEW G, IsStep(G, n, S)
  PROVE  \E g : IsLoop(g, n, b, G, S)
<1>1. PICK g \in [0..n -> S] : Loop(g, n, b, G)
  BY Recursion DEF IsStep
<1>2. \A k \in 0..n : g[k] = IF k = 0 THEN b ELSE G[<<k, g[k - 1]>>]
  <2> TAKE k \in 0..n
  <2>1. CASE k = 0
    BY <1>1, <2>1 DEF Loop
  <2>2. CASE k # 0
    <3>1. k \in 1..n
      BY <2>2
    <3> QED BY <1>1, <2>2, <3>1 DEF Loop
  <2> QED BY <2>1, <2>2
<1>3. g = [k \in 0..n |-> IF k = 0 THEN b ELSE G[<<k, g[k - 1]>>]]
  <2>1. g = [k \in 0..n |-> g[k]]
    OBVIOUS
  <2> QED BY <1>2, <2>1, Zenon
<1> QED BY <1>3, Zenon DEF IsLoop

\* What the write callbacks of a flush have done when k units are written
Wrote(s, t, b, r, k) ==
  /\ Runs(s, t) /\ t.mgr = s.mgr
  /\ Clean(t) => t.ok
  /\ t.dev.operation = s.dev.operation /\ t.dev.prepared = s.dev.prepared
  /\ s.dev.prepared[r] = "Write" => t.dev.unprepared = s.dev.unprepared
  /\ \A a \in Addr :
       LET hit == a \div WRITE \in (b.low \div WRITE)..(b.low \div WRITE + k - 1)
       IN  IF ~hit THEN t.dev.flash[a] = s.dev.flash[a]
           ELSE t.ok => t.dev.flash[a] = Program(s.dev.flash[a], b.data[a - b.base])

(* The loop of flush() writes every unit of the load in turn, until a callback fails. *)
LEMMA FlushLoop ==
  ASSUME NEW s \in State, NEW r \in Region, is_dirty(s.mgr.buffer), Holds(s.mgr.buffer),
         prepare(s, r, "Write").ok
  PROVE  LET p == prepare(s, r, "Write")
             b == s.mgr.buffer
         IN  \E u : /\ flush(s, r) = clear(u)
                    /\ Wrote(p, u, b, r, ((b.high - 1) \div WRITE) - (b.low \div WRITE) + 1)
<1> DEFINE p == prepare(s, r, "Write")
           b == s.mgr.buffer
           low == b.low - (b.low % WRITE)
           units == (b.high - low + WRITE - 1) \div WRITE
           w == b.low \div WRITE
           unit(k) == [i \in 0..(WRITE - 1) |-> b.data[low - b.base + (k - 1) * WRITE + i]]
           B(k, x) == Then(x, LAMBDA u : write_block(u, r, low + (k - 1) * WRITE, unit(k)))
           G == [q \in (1..units) \X State |-> B(q[1], q[2])]
           h == CHOOSE h : h = [k \in 0..units |-> IF k = 0 THEN p
                                 ELSE Then(h[k - 1],
                                           LAMBDA u : write_block(u, r, low + (k - 1) * WRITE, unit(k)))]
<1>1. flush(s, r) = clear(h[units])
  BY Zenon DEF flush, Then
<1>2. /\ b.base \in Nat /\ b.base % BUF = 0 /\ b.base <= b.low /\ b.low < b.high
      /\ b.high <= b.base + BUF /\ b.low \in Int /\ b.high \in Int
      /\ b.data \in [0..(BUF - 1) -> Bytes]
  BY DEF Holds, State, Manager, Sector
<1>3. p \in State /\ Runs(s, p) /\ (Clean(p) => p.ok)
  <2>1. "Write" \in {"Erase", "Write"}
    OBVIOUS
  <2> QED BY <2>1, PrepareStep DEF Runs
<1> HIDE DEF p, b, h
<1>4. /\ low \in Int /\ units \in Nat \ {0} /\ w \in Int
      /\ w + units - 1 = (b.high - 1) \div WRITE
      /\ \A k \in 1..units, a \in Int :
           /\ a \in (low + (k - 1) * WRITE)..(low + (k - 1) * WRITE + WRITE - 1)
                <=> a \div WRITE = w + k - 1
           /\ a \div WRITE = w + k - 1 => a \in b.base..(b.base + BUF - 1)
      /\ \A k \in 1..units : low + (k - 1) * WRITE \in Int
  <2>1. UnitsOf(b.base, b.low, b.high)
    BY <1>2, Units
  <2> QED BY <2>1, Zenon DEF UnitsOf
<1> HIDE DEF low, units, w
<1>5. WRITE \in Nat \ {0} /\ Addr \subseteq Nat
  BY Constants, AddrNat
<1>6. ASSUME NEW k \in 1..units PROVE unit(k) \in UnitData
  <2> SUFFICES ASSUME NEW i \in 0..(WRITE - 1)
               PROVE  b.data[low - b.base + (k - 1) * WRITE + i] \in Bytes
    BY DEF UnitData
  <2> DEFINE f == low + (k - 1) * WRITE
             x == f + i
  <2>1. f \in Int /\ x \in f..(f + WRITE - 1) /\ x \in Int
    BY <1>4, <1>5
  <2>2. x \in b.base..(b.base + BUF - 1)
    BY <1>4, <2>1
  <2>3. low - b.base + (k - 1) * WRITE + i = x - b.base
    <3> DEFINE y == (k - 1) * WRITE
    <3>1. y \in Int /\ low \in Int /\ b.base \in Int /\ i \in Int
      <4>1. k \in Int /\ WRITE \in Int /\ i \in Int
        BY <1>4, <1>5
      <4> QED BY <1>2, <1>4, <4>1
    <3>2. x = low + y + i
      OBVIOUS
    <3> HIDE DEF y, x
    <3>3. low - b.base + y + i = x - b.base
      BY <3>1, <3>2
    <3> QED BY <3>3 DEF y
  <2> HIDE DEF x
  <2>4. x - b.base \in 0..(BUF - 1)
    <3>1. b.base \in Int /\ BUF \in Int /\ x \in Int
      BY <1>2, <2>1, Constants
    <3> QED BY <2>2, <3>1, Offset
  <2> QED BY <1>2, <2>3, <2>4, Zenon
<1>7. ASSUME NEW k \in 1..units, NEW u \in State
      PROVE  LET f == low + (k - 1) * WRITE
             IN  Writes(u, write_block(u, r, f, unit(k)), r, f, unit(k))
  <2>1. low + (k - 1) * WRITE \in Int /\ unit(k) \in UnitData
    BY <1>4, <1>6
  <2> HIDE DEF unit
  <2> QED BY <2>1, WriteBlockStep, Zenon
<1>8. ASSUME NEW k \in 1..units, NEW x \in State PROVE B(k, x) \in State
  <2>1. write_block(x, r, low + (k - 1) * WRITE, unit(k)) \in State
    BY <1>7, Zenon DEF Writes, Drives, Runs
  <2> QED BY <2>1, Zenon DEF Then
<1>9. /\ h = [k \in 0..units |-> IF k = 0 THEN p
                ELSE Then(h[k - 1], LAMBDA u : write_block(u, r, low + (k - 1) * WRITE, unit(k)))]
      /\ h[0] = p
  <2> HIDE DEF B
  <2>1. IsStep(G, units, State)
    BY <1>8 DEF IsStep
  <2>2. PICK g : IsLoop(g, units, p, G, State)
    <3> HIDE DEF G
    <3>1. units \in Nat /\ p \in State
      BY <1>3, <1>4
    <3> QED BY <2>1, <3>1, LoopIn
  <2>3. g = [k \in 0..units |-> IF k = 0 THEN p ELSE B(k, g[k - 1])]
    <3> SUFFICES ASSUME NEW k \in 0..units, k # 0 PROVE G[<<k, g[k - 1]>>] = B(k, g[k - 1])
      BY <2>2, Zenon DEF IsLoop
    <3>1. k \in 1..units /\ k - 1 \in 0..units
      BY <1>4
    <3>2. g[k - 1] \in State
      BY <2>2, <3>1 DEF IsLoop
    <3> QED BY <3>1, <3>2
  <2>4. g = [k \in 0..units |-> IF k = 0 THEN p
                ELSE Then(g[k - 1], LAMBDA u : write_block(u, r, low + (k - 1) * WRITE, unit(k)))]
    BY <2>3, Zenon DEF B
  <2>5. h = [k \in 0..units |-> IF k = 0 THEN p
                ELSE Then(h[k - 1], LAMBDA u : write_block(u, r, low + (k - 1) * WRITE, unit(k)))]
    BY <2>4, Zenon DEF h
  <2>6. 0 \in 0..units
    BY <1>4
  <2> QED BY <2>5, <2>6, Zenon
<1> DEFINE A == {k \in 0..units : Wrote(p, h[k], b, r, k)}
<1>10. 0 \in A
  <2>1. Runs(p, p)
    BY <1>3, RunsOn
  <2>2. \A a \in Addr : a \div WRITE \notin w..(w + 0 - 1)
    BY <1>4, <1>5
  <2>3. Wrote(p, p, b, r, 0)
    BY <1>3, <2>1, <2>2, Zenon DEF Wrote, w
  <2> QED BY <1>4, <1>9, <2>3
<1>11. ASSUME NEW k \in 1..units, k - 1 \in A PROVE k \in A
  <2> DEFINE u == h[k - 1]
             f == low + (k - 1) * WRITE
             v == write_block(u, r, f, unit(k))
  <2>1. Wrote(p, u, b, r, k - 1) /\ k \in 0..units /\ k - 1 \in 0..units /\ k # 0
    BY <1>4, <1>11
  <2>2. h[k] = IF u.ok THEN v ELSE u
    BY <1>9, <2>1, Zenon DEF Then
  <2>3. u \in State
    BY <2>1 DEF Wrote, Runs
  <2> HIDE DEF u, A
  <2>4. ASSUME NEW a \in Addr
        PROVE  /\ a \div WRITE \in Int
               /\ a \div WRITE \in w..(w + k - 1)
                    <=> a \div WRITE \in w..(w + (k - 1) - 1) \/ a \div WRITE = w + k - 1
               /\ ~(a \div WRITE \in w..(w + (k - 1) - 1) /\ a \div WRITE = w + k - 1)
    <3>1. a \div WRITE \in Int
      BY <1>5
    <3> QED BY <1>4, <3>1
  <2>5. CASE ~u.ok
    <3>1. h[k] = u
      BY <2>2, <2>5
    <3>2. Wrote(p, u, b, r, k)
      <4>1. \A a \in Addr : a \div WRITE \notin w..(w + k - 1) => u.dev.flash[a] = p.dev.flash[a]
        BY <2>1, <2>4 DEF Wrote, w
      <4> QED BY <2>1, <2>5, <4>1, Zenon DEF Wrote, w
    <3> QED BY <2>1, <3>1, <3>2 DEF A
  <2>6. CASE u.ok
    <3>1. h[k] = v
      BY <2>2, <2>6
    <3>2. Writes(u, v, r, f, unit(k))
      BY <1>7, <2>3
    <3>3. f \in Int /\ \A a \in Addr : a \in f..(f + WRITE - 1) <=> a \div WRITE = w + k - 1
      <4>1. \A a \in Addr : a \in Int
        BY <1>5
      <4> QED BY <1>4, <4>1, Zenon
    <3>4. ASSUME NEW a \in Addr, a \div WRITE = w + k - 1 PROVE unit(k)[a - f] = b.data[a - b.base]
      <4>0. a \in f..(f + WRITE - 1)
        BY <3>3, <3>4, Zenon
      <4>1. a \in f..(f + WRITE - 1) /\ a \in Int /\ WRITE \in Int /\ b.base \in Int
        <5>1. a \in Int /\ WRITE \in Int /\ b.base \in Int
          BY <1>2, <1>5
        <5> QED BY <4>0, <5>1, Zenon
      <4>2. a - f \in 0..(WRITE - 1)
        BY <3>3, <4>1, Offset
      <4>3. unit(k)[a - f] = b.data[low - b.base + (k - 1) * WRITE + (a - f)]
        BY <4>2
      <4>4. low - b.base + (k - 1) * WRITE + (a - f) = a - b.base
        <5> DEFINE y == (k - 1) * WRITE
        <5>1. y \in Int /\ low \in Int
          <6>1. k \in Int
            BY <1>4
          <6> QED BY <1>4, <4>1, <6>1
        <5>2. f = low + y
          OBVIOUS
        <5> HIDE DEF y, f
        <5>3. low - b.base + y + (a - f) = a - b.base
          BY <4>1, <5>1, <5>2
        <5> QED BY <5>3 DEF y
      <4> QED BY <4>3, <4>4, Zenon
    <3> HIDE DEF v, f, unit
    <3>5. Wrote(p, v, b, r, k)
      <4>1. Runs(p, v) /\ v.mgr = p.mgr /\ (Clean(v) => v.ok)
        BY <1>3, <2>1, <3>2, RunsOn, Zenon DEF Wrote, Writes, Drives
      <4>2. v.dev.operation = p.dev.operation /\ v.dev.prepared = p.dev.prepared
        BY <2>1, <3>2, Zenon DEF Wrote, Writes, Drives
      <4>3. p.dev.prepared[r] = "Write" => v.dev.unprepared = p.dev.unprepared
        <5> SUFFICES ASSUME p.dev.prepared[r] = "Write" PROVE v.dev.unprepared = p.dev.unprepared
          OBVIOUS
        <5>1. u.dev.prepared[r] = "Write" /\ u.dev.unprepared = p.dev.unprepared
          BY <2>1 DEF Wrote
        <5>2. v.dev.unprepared = (u.dev.unprepared \/ u.dev.prepared[r] # "Write")
          BY <3>2 DEF Writes
        <5>3. u.dev.unprepared \in BOOLEAN
          BY <2>3 DEF State, Device
        <5> QED BY <5>1, <5>2, <5>3
      <4>4. ASSUME NEW a \in Addr
            PROVE  IF a \div WRITE \notin w..(w + k - 1) THEN v.dev.flash[a] = p.dev.flash[a]
                   ELSE v.ok => v.dev.flash[a] = Program(p.dev.flash[a], b.data[a - b.base])
        <5>1. CASE a \div WRITE = w + k - 1
          <6>1. u.dev.flash[a] = p.dev.flash[a]
            BY <2>1, <2>4, <5>1, Zenon DEF Wrote, w
          <6>2. a \in f..(f + WRITE - 1)
            BY <3>3, <5>1
          <6>3. v.ok => v.dev.flash[a] = Program(u.dev.flash[a], unit(k)[a - f])
            BY <3>2, <6>2, Zenon DEF Writes
          <6>4. unit(k)[a - f] = b.data[a - b.base]
            BY <3>4, <5>1
          <6> QED BY <2>4, <5>1, <6>1, <6>3, <6>4, Zenon
        <5>2. CASE a \div WRITE # w + k - 1
          <6>1. v.dev.flash[a] = u.dev.flash[a]
            BY <3>2, <3>3, <5>2, Zenon DEF Writes, Drives
          <6>2. IF a \div WRITE \notin w..(w + (k - 1) - 1) THEN u.dev.flash[a] = p.dev.flash[a]
                ELSE u.ok => u.dev.flash[a] = Program(p.dev.flash[a], b.data[a - b.base])
            BY <2>1, Zenon DEF Wrote, w
          <6> QED BY <2>4, <2>6, <5>2, <6>1, <6>2, Zenon
        <5> QED BY <5>1, <5>2
      <4> QED BY <4>1, <4>2, <4>3, <4>4, Zenon DEF Wrote, w
    <3> QED BY <2>1, <3>1, <3>5 DEF A
  <2> QED BY <2>5, <2>6
<1>12. Wrote(p, h[units], b, r, units)
  <2>1. units \in Nat /\ units \in 0..units
    BY <1>4
  <2> HIDE DEF A
  <2>2. \A k \in 0..units : k \in A
    BY <1>10, <1>11, <2>1, Induct
  <2> QED BY <2>1, <2>2 DEF A
<1>13. units = ((b.high - 1) \div WRITE) - w + 1
  <2>1. (b.high - 1) \div WRITE \in Int
    BY <1>2, <1>5
  <2> QED BY <1>4, <2>1
<1> QED BY <1>1, <1>12, <1>13, Zenon DEF p, b, w

\* A flush writes cells of the load only
LEMMA UnitsInLoad ==
  ASSUME NEW b \in Sector, NEW flash, NEW r, NEW T, Closed(T), Fits(b, flash, r, T),
         NEW a \in Addr, a \div WRITE \in (b.low \div WRITE)..((b.high - 1) \div WRITE)
  PROVE  a \in T /\ a \in b.base..(b.base + BUF - 1)
<1> DEFINE h == b.high - 1
           w == b.low \div WRITE
           q == a \div WRITE
           n == (b.high - (b.low - (b.low % WRITE)) + WRITE - 1) \div WRITE
           k == q - w + 1
<1>1. BUF \in Nat \ {0} /\ WRITE \in Nat \ {0} /\ a \in Int
  BY Constants, AddrNat
<1>2. /\ b.base \in Nat /\ b.base % BUF = 0 /\ b.base <= b.low /\ b.low < b.high
      /\ b.high <= b.base + BUF /\ b.low \in T /\ h \in T
  BY DEF Fits, Holds
<1>3. b.low \in Int /\ b.high \in Int /\ b.base \in Int /\ h \in Int
  BY DEF Sector
<1>4. UnitsOf(b.base, b.low, b.high)
  BY <1>2, <1>3, Units
<1>5. n \in Nat /\ w \in Int /\ w + n - 1 = h \div WRITE /\ q \in Int /\ q \in w..(h \div WRITE)
  <2>1. n \in Nat \ {0} /\ w \in Int /\ w + n - 1 = h \div WRITE
    BY <1>4, Zenon DEF UnitsOf
  <2>2. q \in Int
    BY <1>1
  <2> HIDE DEF n
  <2> QED BY <2>1, <2>2
<1>6. \A i \in 1..n, x \in Int : x \div WRITE = w + i - 1 => x \in b.base..(b.base + BUF - 1)
  BY <1>4, Zenon DEF UnitsOf
<1> HIDE DEF n, w, q
<1>7. k \in 1..n /\ q = w + k - 1
  BY <1>5
<1> HIDE DEF k
<1>8. a \in b.base..(b.base + BUF - 1)
  BY <1>1, <1>6, <1>7, Zenon DEF q
<1>9. \A x \in Int : x \in b.base..(b.base + BUF - 1) <=> x \div BUF = b.base \div BUF
  BY <1>1, <1>2, <1>3, Stretch
<1>10. b.low \in b.base..(b.base + BUF - 1) /\ h \in b.base..(b.base + BUF - 1)
  BY <1>1, <1>2, <1>3
<1>11. a \div BUF = b.base \div BUF /\ b.low \div BUF = b.base \div BUF /\ h \div BUF = b.base \div BUF
  BY <1>1, <1>3, <1>8, <1>9, <1>10, Zenon
<1>12. b.low \div WRITE <= a \div WRITE /\ a \div WRITE <= h \div WRITE
  BY <1>5 DEF q, w
<1> HIDE DEF h
<1>13. a \in Reach(T)
  BY <1>2, <1>11, <1>12, Zenon DEF Reach
<1> QED BY <1>8, <1>13, Zenon DEF Closed

\* What every part of a request does to the data
Settles(s, t, T) ==
  /\ Runs(s, t) /\ Safe(t, T) /\ Spares(s, t, T)
  /\ t.ok => View(t) = View(s)

(* Calls that touch neither the flash nor the buffer settle nothing. *)
LEMMA SettlesSame ==
  ASSUME NEW s, NEW t, NEW T, Runs(s, t), SameData(s, t), Safe(s, T)
  PROVE  Settles(s, t, T)
BY Unchanged, Zenon DEF Settles

(* flush() brings the device up to what GDB sees, or spoils only cells of the load.  Its
   callbacks find the controller prepared for writing. *)
LEMMA FlushStep ==
  ASSUME NEW s \in State, NEW r \in Region, NEW T, Closed(T), Safe(s, T)
  PROVE  LET t == flush(s, r)
         IN  /\ Settles(s, t, T)
             /\ t.mgr.current = s.mgr.current /\ t.mgr.active = s.mgr.active
             /\ t.mgr.buffer \in {EmptyBuffer, s.mgr.buffer}
             /\ t.ok => t.mgr.buffer = EmptyBuffer
             /\ Clean(t) => t.ok
             /\ (Clean(t) /\ Agrees(s)
                   /\ (is_dirty(s.mgr.buffer) => s.mgr.current[r] = "Write")) => Agrees(t)
<1> DEFINE t == flush(s, r)
           b == s.mgr.buffer
           p == prepare(s, r, "Write")
<1>1. b \in Sector /\ s.dev.flash \in [Addr -> Cell]
  BY DEF State, Manager, Device
<1>2. CASE ~is_dirty(b)
  <2>1. t = Ok(s)
    BY <1>2, Zenon DEF flush
  <2>2. b = EmptyBuffer
    BY <1>2, Buffers, Zenon DEF Safe, Fits
  <2>3. Runs(s, t) /\ t.ok /\ t.dev = s.dev /\ t.mgr = s.mgr
    BY <2>1, Okay
  <2>4. SameData(s, t) /\ (Agrees(s) => Agrees(t))
    BY <2>3, Zenon DEF SameData, Agrees, Matched
  <2>5. Settles(s, t, T)
    BY <2>3, <2>4, SettlesSame
  <2> QED BY <2>2, <2>3, <2>4, <2>5, Zenon
<1>3. CASE is_dirty(b)
  <2>1. Fits(b, s.dev.flash, s.mgr.active, T)
    BY <1>3, Buffers, Zenon DEF Safe
  <2>2. Holds(b)
    BY <2>1 DEF Fits
  <2>3. /\ Runs(s, p) /\ SameData(s, p) /\ p.mgr = s.mgr
        /\ Clean(p) => p.ok
        /\ p.ok => p.dev.operation = [s.dev.operation EXCEPT ![r] = "Write"]
        /\ Matched(s) => Matched(p)
    <3>1. "Write" \in {"Erase", "Write"}
      OBVIOUS
    <3> QED BY <3>1, PrepareStep
  <2>4. CASE ~p.ok
    <3>1. t = p
      BY <1>3, <2>4, Zenon DEF flush, Then
    <3>2. ~Clean(t) /\ ~t.ok
      BY <2>3, <2>4, <3>1, Zenon
    <3>3. Settles(s, t, T)
      BY <2>3, <3>1, SettlesSame, Zenon
    <3> QED BY <2>3, <3>1, <3>2, <3>3, Zenon
  <2>5. CASE p.ok
    <3> DEFINE n == ((b.high - 1) \div WRITE) - (b.low \div WRITE) + 1
    <3>1. PICK u : t = clear(u) /\ Wrote(p, u, b, r, n)
      BY <1>3, <2>2, <2>5, FlushLoop, Zenon
    <3> HIDE DEF t, p
    <3>2. p \in State /\ u \in State /\ Runs(s, u)
      BY <2>3, <3>1, RunsOn, Zenon DEF Wrote, Runs
    <3>3. t = [u EXCEPT !.mgr.buffer = EmptyBuffer]
      BY <3>1, Zenon DEF clear
    <3>4. Rebuffers(u, t, EmptyBuffer)
      BY <3>2, <3>3, NewBuffer, Buffers
    <3>5. Runs(s, t) /\ t.mgr.buffer = EmptyBuffer /\ t.ok = u.ok
          /\ t.mgr.current = s.mgr.current /\ t.mgr.active = s.mgr.active /\ t.dev = u.dev
      BY <2>3, <3>1, <3>2, <3>4, RunsOn, Zenon DEF Rebuffers, Wrote
    <3>6. Clean(t) => t.ok
      <4>1. t.calls = u.calls /\ t.fault = u.fault
        BY <3>4 DEF Rebuffers, Runs
      <4> QED BY <3>1, <3>5, <4>1, Zenon DEF Clean, Wrote
    <3>7. ASSUME NEW a \in Addr
          PROVE  /\ a \notin T => t.dev.flash[a] = s.dev.flash[a]
                 /\ t.ok => t.dev.flash[a] = View(s)[a]
      <4> DEFINE hit == a \div WRITE \in (b.low \div WRITE)..((b.high - 1) \div WRITE)
                 x == s.dev.flash[a]
                 d == b.data[a - b.base]
      <4>1. /\ b.base \in Nat /\ b.base <= b.low /\ b.low < b.high /\ b.high <= b.base + BUF
            /\ b.low \in Int /\ b.high \in Int /\ b.base \in Int
            /\ \A i \in 0..(BUF - 1) : b.data[i] # Erased => b.base + i \in b.low..(b.high - 1)
        BY <1>1, <2>2 DEF Holds, Sector
      <4>2. a \in Int /\ WRITE \in Nat \ {0} /\ BUF \in Nat \ {0}
        BY Constants, AddrNat
      <4>3. (b.low \div WRITE) + n - 1 = (b.high - 1) \div WRITE
        <5>1. b.low \div WRITE \in Int /\ (b.high - 1) \div WRITE \in Int
          BY <4>1, <4>2
        <5> QED BY <5>1
      <4>4. IF ~hit THEN u.dev.flash[a] = x
            ELSE u.ok => u.dev.flash[a] = Program(x, d)
        <5>1. p.dev.flash = s.dev.flash
          BY <2>3 DEF SameData
        <5> QED BY <3>1, <4>3, <5>1, Zenon DEF Wrote
      <4>5. View(s)[a] = IF a \in b.low..(b.high - 1) /\ d # Erased THEN d ELSE x
        BY <1>3 DEF View, Seen
      <4>6. CASE hit
        <5>1. a \in T /\ a \in b.base..(b.base + BUF - 1)
          BY <1>1, <2>1, <4>6, UnitsInLoad
        <5>2. a - b.base \in 0..(BUF - 1)
          BY <4>1, <4>2, <5>1, Offset
        <5>3. d # Erased => a \in b.low..(b.high - 1)
          <6>1. b.base + (a - b.base) = a
            BY <4>1, <4>2
          <6> QED BY <4>1, <5>2, <6>1, Zenon
        <5>4. d # Erased => x = Erased
          BY <2>1, <5>3, Zenon DEF Fits
        <5>5. Program(x, d) = View(s)[a]
          BY <4>5, <5>3, <5>4, Zenon DEF Program
        <5> QED BY <3>5, <4>4, <4>6, <5>1, <5>5, Zenon
      <4>7. CASE ~hit
        <5>1. a \notin b.low..(b.high - 1)
          <6> SUFFICES ASSUME a \in b.low..(b.high - 1) PROVE FALSE
            OBVIOUS
          <6>1. UnitsOf(b.base, b.low, b.high)
            BY <4>1, <2>2, Units DEF Holds
          <6>2. a \div WRITE \in (b.low \div WRITE)..((b.high - 1) \div WRITE)
            BY <6>1, Zenon DEF UnitsOf
          <6> QED BY <4>7, <6>2
        <5> QED BY <3>5, <4>4, <4>5, <4>7, <5>1, Zenon
      <4> QED BY <4>6, <4>7
    <3>8. Settles(s, t, T)
      <4>1. Safe(t, T) /\ Spares(s, t, T)
        BY <3>5, <3>7, Zenon DEF Safe, Spares
      <4>2. ASSUME t.ok PROVE View(t) = View(s)
        <5>1. t.dev.flash \in [Addr -> Cell]
          BY <3>5 DEF Runs, State, Device
        <5>2. View(t) = t.dev.flash
          BY <3>5, <5>1, SeenEmpty DEF View
        <5>3. View(s) = [a \in Addr |-> View(s)[a]]
          BY DEF View, Seen
        <5>4. t.dev.flash = [a \in Addr |-> t.dev.flash[a]]
          BY <5>1
        <5>5. \A a \in Addr : t.dev.flash[a] = View(s)[a]
          BY <3>7, <4>2
        <5> QED BY <5>2, <5>3, <5>4, <5>5, Zenon
      <4> QED BY <3>5, <4>1, <4>2, Zenon DEF Settles
    <3>9. ASSUME Agrees(s), s.mgr.current[r] = "Write" PROVE Agrees(t)
      <4>1. s.dev.operation \in [Region -> Operation] /\ s.dev.prepared \in [Region -> Operation]
        BY DEF State, Device
      <4>2. s.dev.operation[r] = "Write"
        BY <3>9 DEF Agrees
      <4>3. p.dev.operation = s.dev.operation
        BY <2>3, <2>5, <4>1, <4>2
      <4>4. p.dev.prepared = p.dev.operation /\ ~p.dev.unprepared
        BY <2>3, <3>9, Zenon DEF Agrees, Matched, SameData
      <4>5. p.dev.prepared[r] = "Write"
        BY <4>2, <4>3, <4>4
      <4>6. u.dev.operation = s.dev.operation /\ u.dev.prepared = u.dev.operation
            /\ u.dev.unprepared = p.dev.unprepared
        BY <3>1, <4>3, <4>4, <4>5, Zenon DEF Wrote
      <4> QED BY <3>5, <3>9, <4>4, <4>6, Zenon DEF Agrees, Matched
    <3> QED BY <1>3, <3>5, <3>6, <3>8, <3>9, Zenon DEF t
  <2> QED BY <2>4, <2>5
<1> QED BY <1>2, <1>3

-----------------------------------------------------------------------------
(* The active region.                                                      *)

\* At most one region is busy, the active one, and it is being written as
\* long as bytes are held back for it
Linked(s) ==
  /\ Agrees(s)
  /\ \A q \in Region : s.mgr.current[q] # "None" => q = s.mgr.active
  /\ is_dirty(s.mgr.buffer) => s.mgr.current[s.mgr.active] = "Write"

(* The manager has no operation for any region. *)
AllIdle(s) == \A q \in Region : s.mgr.current[q] = "None"

(* No region is active, and nothing is held back. *)
Inactive(s) == [s EXCEPT !.mgr.active = NoRegion, !.mgr.buffer = EmptyBuffer]

(* Leaving the active region. *)
LEMMA Leave ==
  ASSUME NEW s \in State, NEW u, u = Inactive(s)
  PROVE  /\ Runs(s, u) /\ u.dev = s.dev /\ u.ok = s.ok /\ u.calls = s.calls
         /\ u.mgr.current = s.mgr.current
         /\ u.mgr.active = NoRegion /\ u.mgr.buffer = EmptyBuffer
<1> DEFINE n == [s.mgr EXCEPT !.active = NoRegion]
           m == [n EXCEPT !.buffer = EmptyBuffer]
<1>1. s.mgr \in Manager
  BY DEF State
<1>2. m \in Manager /\ m.current = s.mgr.current /\ m.active = NoRegion /\ m.buffer = EmptyBuffer
  <2>1. s.mgr = [current |-> s.mgr.current, active |-> s.mgr.active, buffer |-> s.mgr.buffer]
    BY <1>1 DEF Manager
  <2>2. m = [current |-> s.mgr.current, active |-> NoRegion, buffer |-> EmptyBuffer]
    <3>1. n = [current |-> s.mgr.current, active |-> NoRegion, buffer |-> s.mgr.buffer]
      BY <2>1
    <3> HIDE DEF n
    <3> QED BY <3>1
  <2>3. s.mgr.current \in [Region -> Operation] /\ EmptyBuffer \in Sector
    BY <1>1, Buffers DEF Manager
  <2> HIDE DEF m
  <2> QED BY <2>2, <2>3 DEF Manager
<1>3. u = [s EXCEPT !.mgr = m]
  BY <1>1 DEF State, Manager, Inactive
<1> HIDE DEF m
<1>4. /\ Runs(s, u) /\ u.mgr = m /\ u.ok = s.ok /\ u.dev = s.dev
      /\ u.calls = s.calls /\ u.fault = s.fault
  BY <1>2, <1>3, NewManagement
<1> QED BY <1>2, <1>4, Zenon

(* r is the active region. *)
Activated(s, r) == [s EXCEPT !.mgr.active = r]

(* Making a region the active one. *)
LEMMA Activate ==
  ASSUME NEW s \in State, NEW r \in Region, NEW u, u = Activated(s, r)
  PROVE  /\ Runs(s, u) /\ u.dev = s.dev /\ u.ok = s.ok /\ u.calls = s.calls
         /\ u.mgr.current = s.mgr.current
         /\ u.mgr.active = r /\ u.mgr.buffer = s.mgr.buffer
<1> DEFINE m == [s.mgr EXCEPT !.active = r]
<1>1. s.mgr \in Manager
  BY DEF State
<1>2. m \in Manager /\ m.current = s.mgr.current /\ m.active = r /\ m.buffer = s.mgr.buffer
  <2>1. s.mgr = [current |-> s.mgr.current, active |-> s.mgr.active, buffer |-> s.mgr.buffer]
    BY <1>1 DEF Manager
  <2>2. m = [current |-> s.mgr.current, active |-> r, buffer |-> s.mgr.buffer]
    BY <2>1
  <2>3. s.mgr.current \in [Region -> Operation] /\ s.mgr.buffer \in Sector
    BY <1>1 DEF Manager
  <2> HIDE DEF m
  <2> QED BY <2>2, <2>3 DEF Manager
<1>3. u = [s EXCEPT !.mgr = m]
  BY <1>1 DEF State, Manager, Activated
<1> HIDE DEF m
<1>4. /\ Runs(s, u) /\ u.mgr = m /\ u.ok = s.ok /\ u.dev = s.dev
      /\ u.calls = s.calls /\ u.fault = s.fault
  BY <1>2, <1>3, NewManagement, Zenon
<1> QED BY <1>2, <1>4, Zenon

(* Remembering that an earlier call failed. *)
LEMMA BothResult ==
  ASSUME NEW s \in State, NEW b \in BOOLEAN
  PROVE  LET t == [s EXCEPT !.ok = @ /\ b]
         IN  /\ Runs(s, t) /\ t.ok = (s.ok /\ b)
             /\ t.dev = s.dev /\ t.mgr = s.mgr /\ t.calls = s.calls
<1>1. s.ok \in BOOLEAN /\ (s.ok /\ b) \in BOOLEAN
  BY DEF State
<1>2. [s EXCEPT !.ok = @ /\ b] = [s EXCEPT !.ok = (s.ok /\ b)]
  OBVIOUS
<1> DEFINE c == (s.ok /\ b)
<1> HIDE DEF c
<1>3. LET t == [s EXCEPT !.ok = c]
      IN  /\ Runs(s, t) /\ t.ok = c
          /\ t.dev = s.dev /\ t.mgr = s.mgr /\ t.calls = s.calls /\ t.fault = s.fault
  BY <1>1, Result DEF c
<1> QED BY <1>2, <1>3, Zenon DEF c

(* Settling twice settles. *)
LEMMA SettlesOn ==
  ASSUME NEW s \in State, NEW t, NEW u, NEW T, Settles(s, t, T), Settles(t, u, T), u.ok => t.ok
  PROVE  Settles(s, u, T)
<1>1. Runs(s, u)
  BY RunsOn, Zenon DEF Settles
<1>2. Spares(s, u, T)
  BY Zenon DEF Settles, Spares
<1> QED BY <1>1, <1>2, Zenon DEF Settles

(* finish_active() leaves nothing held back and no region busy. *)
LEMMA FinishStep ==
  ASSUME NEW s \in State, NEW T, Closed(T), Safe(s, T)
  PROVE  LET t == finish_active(s)
         IN  /\ Settles(s, t, T)
             /\ t.mgr.active = NoRegion /\ t.mgr.buffer = EmptyBuffer
             /\ Clean(t) => t.ok
             /\ Clean(t) /\ Linked(s) => Agrees(t) /\ AllIdle(t)
<1> DEFINE t == finish_active(s)
           r == s.mgr.active
<1>1. s.mgr \in Manager /\ r \in Region \cup {NoRegion} /\ NoRegion \notin Region
  BY RegionFacts DEF State, Manager
<1>2. CASE r = NoRegion
  <2>1. t = Ok(s)
    BY <1>2, Zenon DEF finish_active
  <2>2. s.mgr.buffer = EmptyBuffer
    BY <1>1, <1>2 DEF Safe, Fits
  <2>3. Runs(s, t) /\ t.ok /\ t.dev = s.dev /\ t.mgr = s.mgr
    BY <2>1, Okay
  <2>4. SameData(s, t) /\ (Agrees(s) => Agrees(t))
    BY <2>3, Zenon DEF SameData, Agrees, Matched
  <2>5. Settles(s, t, T)
    BY <2>3, <2>4, SettlesSame
  <2>6. Linked(s) => AllIdle(t)
    BY <1>1, <1>2, <2>3, Zenon DEF Linked, AllIdle
  <2> QED BY <1>2, <2>2, <2>3, <2>4, <2>5, <2>6, Zenon DEF Linked
<1>3. CASE r \in Region
  <2> DEFINE f == flush(s, r)
             e == release(f, r)
             c == [e EXCEPT !.ok = @ /\ f.ok]
             l == forget(c, r)
  <2>1. /\ Settles(s, f, T)
        /\ f.mgr.current = s.mgr.current /\ f.mgr.active = s.mgr.active
        /\ f.ok => f.mgr.buffer = EmptyBuffer
        /\ Clean(f) => f.ok
        /\ (Clean(f) /\ Agrees(s)
              /\ (is_dirty(s.mgr.buffer) => s.mgr.current[r] = "Write")) => Agrees(f)
    BY <1>3, FlushStep
  <2>2. t = Inactive(l)
    BY <1>1, <1>3, Zenon DEF finish_active, Both, Inactive
  <2>3. f \in State
    BY <2>1, RunsOn, Zenon DEF Settles
  <2> HIDE DEF f, t
  <2>4. /\ Runs(f, e) /\ SameData(f, e) /\ e.mgr = f.mgr
        /\ Clean(e) => e.ok
        /\ Matched(f) => Matched(e)
        /\ Agrees(f) => e.dev.operation = [f.dev.operation EXCEPT ![r] = "None"]
    BY <1>3, <2>3, ReleaseStep
  <2>5. e \in State /\ f.ok \in BOOLEAN
    BY <2>3, <2>4 DEF Runs, State
  <2> HIDE DEF e
  <2>6. Runs(e, c) /\ c.ok = (e.ok /\ f.ok) /\ c.dev = e.dev /\ c.mgr = e.mgr /\ c.calls = e.calls
    BY <2>5, BothResult
  <2>7. c \in State
    BY <2>6 DEF Runs
  <2> HIDE DEF c
  <2>8. /\ Runs(c, l) /\ SameData(c, l) /\ l.dev = c.dev /\ l.ok = c.ok
        /\ l.mgr.current = [c.mgr.current EXCEPT ![r] = "None"]
        /\ l.calls = c.calls
    BY <1>3, <2>7, ForgetStep
  <2>9. l \in State
    BY <2>8 DEF Runs
  <2> HIDE DEF l
  <2>10. /\ Runs(l, t) /\ t.dev = l.dev /\ t.ok = l.ok /\ t.calls = l.calls
         /\ t.mgr.current = l.mgr.current
         /\ t.mgr.active = NoRegion /\ t.mgr.buffer = EmptyBuffer
    BY <2>2, <2>9, Leave
  <2>11. Runs(f, t) /\ Runs(e, t)
    BY <2>3, <2>4, <2>5, <2>6, <2>7, <2>8, <2>9, <2>10, RunsOn, Zenon
  <2>12. Clean(t) => Clean(e) /\ Clean(f)
    BY <2>3, <2>5, <2>11, RunsOn, Zenon
  <2>13. Clean(t) => t.ok
    BY <2>1, <2>4, <2>6, <2>8, <2>10, <2>12, Zenon
  <2>14. t.dev.flash = f.dev.flash /\ t.dev.unprepared = f.dev.unprepared
         /\ t.dev.operation = e.dev.operation /\ t.dev.prepared = e.dev.prepared
    BY <2>4, <2>6, <2>8, <2>10, Zenon DEF SameData
  <2>15. Settles(s, t, T)
    <3>1. Runs(s, t)
      BY <2>1, <2>11, RunsOn, Zenon DEF Settles
    <3>2. Safe(t, T) /\ Spares(s, t, T)
      BY <2>1, <2>10, <2>14, Zenon DEF Settles, Safe, Spares
    <3>3. t.ok => f.ok
      BY <2>6, <2>8, <2>10, Zenon
    <3>4. t.ok => View(t) = View(s)
      BY <2>1, <2>10, <2>14, <3>3, Zenon DEF Settles, View
    <3> QED BY <3>1, <3>2, <3>4, Zenon DEF Settles
  <2>16. ASSUME Clean(t), Linked(s) PROVE Agrees(t) /\ AllIdle(t)
    <3>1. Agrees(f) /\ Matched(e)
      BY <2>1, <2>4, <2>12, <2>16, Zenon DEF Linked, Agrees
    <3>2. t.mgr.current = [s.mgr.current EXCEPT ![r] = "None"]
      <4>1. c.mgr.current = s.mgr.current
        BY <2>1, <2>4, <2>6
      <4> QED BY <2>8, <2>10, <4>1
    <3>3. t.dev.operation = [f.dev.operation EXCEPT ![r] = "None"]
      BY <2>4, <2>14, <3>1, Zenon
    <3>4. f.dev.operation = s.mgr.current
      BY <2>1, <3>1, Zenon DEF Agrees
    <3>5. Agrees(t)
      BY <2>14, <3>1, <3>2, <3>3, <3>4, Zenon DEF Agrees, Matched
    <3>6. s.mgr.current \in [Region -> Operation]
      BY <1>1 DEF Manager
    <3>7. \A q \in Region : s.mgr.current[q] # "None" => q = r
      BY <2>16 DEF Linked
    <3>8. AllIdle(t)
      BY <3>2, <3>6, <3>7 DEF AllIdle
    <3> QED BY <3>5, <3>8
  <2> QED BY <2>10, <2>13, <2>15, <2>16 DEF t
<1> QED BY <1>1, <1>2, <1>3

\* No other region than r is busy
Only(s, r) == Agrees(s) /\ \A q \in Region : s.mgr.current[q] # "None" => q = r

(* The active region is left before another one becomes active. *)
LEMMA ActiveStep ==
  ASSUME NEW s \in State, NEW r \in Region, NEW T, Closed(T), Safe(s, T)
  PROVE  LET t == IF s.mgr.active = r THEN Ok(s)
                  ELSE Then(finish_active(s), LAMBDA u : [u EXCEPT !.mgr.active = r])
         IN  /\ Settles(s, t, T)
             /\ t.ok => t.mgr.active = r
             /\ t.mgr.buffer \in {EmptyBuffer, s.mgr.buffer}
             /\ Clean(t) => t.ok
             /\ Clean(t) /\ Linked(s) => Only(t, r)
<1> DEFINE t == IF s.mgr.active = r THEN Ok(s)
                ELSE Then(finish_active(s), LAMBDA u : [u EXCEPT !.mgr.active = r])
           f == finish_active(s)
<1>1. CASE s.mgr.active = r
  <2>1. t = Ok(s)
    BY <1>1, Zenon
  <2>2. Runs(s, t) /\ t.ok /\ t.dev = s.dev /\ t.mgr = s.mgr
    BY <2>1, Okay
  <2> HIDE DEF t
  <2>3. SameData(s, t) /\ (Agrees(s) => Agrees(t))
    BY <2>2, Zenon DEF SameData, Agrees, Matched
  <2>4. Settles(s, t, T)
    BY <2>2, <2>3, SettlesSame
  <2>5. Linked(s) => Only(t, r)
    BY <1>1, <2>2, <2>3, Zenon DEF Linked, Only
  <2> QED BY <1>1, <2>2, <2>4, <2>5, Zenon DEF t
<1>2. CASE s.mgr.active # r
  <2>1. /\ Settles(s, f, T)
        /\ f.mgr.active = NoRegion /\ f.mgr.buffer = EmptyBuffer
        /\ Clean(f) => f.ok
        /\ Clean(f) /\ Linked(s) => Agrees(f) /\ AllIdle(f)
    BY FinishStep
  <2>2. CASE ~f.ok
    <3>1. t = f
      BY <1>2, <2>2, Zenon DEF Then
    <3> HIDE DEF t, f
    <3> QED BY <2>1, <2>2, <3>1, Zenon DEF t
  <2>3. CASE f.ok
    <3>1. t = Activated(f, r)
      BY <1>2, <2>3, Zenon DEF Then, Activated
    <3>2. f \in State
      BY <2>1, RunsOn, Zenon DEF Settles
    <3> HIDE DEF t, f
    <3>3. /\ Runs(f, t) /\ t.dev = f.dev /\ t.ok = f.ok /\ t.calls = f.calls
          /\ t.mgr.current = f.mgr.current
          /\ t.mgr.active = r /\ t.mgr.buffer = f.mgr.buffer
      BY <3>1, <3>2, Activate
    <3>4. Settles(f, t, T)
      BY <2>1, <3>3, Zenon DEF Settles, Safe, Spares, View
    <3>5. Settles(s, t, T)
      BY <2>1, <2>3, <3>4, SettlesOn, Zenon
    <3>6. Clean(t) => Clean(f)
      BY <3>2, <3>3, RunsOn, Zenon
    <3>7. Agrees(f) /\ AllIdle(f) => Only(t, r)
      BY <3>3, Zenon DEF Agrees, AllIdle, Only, Matched
    <3> QED BY <2>1, <2>3, <3>3, <3>5, <3>6, <3>7, Zenon DEF t
  <2> QED BY <2>2, <2>3
<1> QED BY <1>1, <1>2

(* Once a region is selected for an operation no other one is busy. *)
LEMMA SelectStep ==
  ASSUME NEW s \in State, NEW r \in Region, NEW op \in {"Erase", "Write"},
         NEW T, Closed(T), Safe(s, T)
  PROVE  LET t == select(s, r, op)
         IN  /\ Settles(s, t, T)
             /\ t.ok => t.mgr.active = r
             /\ t.mgr.buffer \in {EmptyBuffer, s.mgr.buffer}
             /\ Clean(t) => t.ok
             /\ (Clean(t) /\ Linked(s) /\ (is_dirty(s.mgr.buffer) => op = "Write"))
                  => Linked(t) /\ t.mgr.current[r] = op
<1> DEFINE t == select(s, r, op)
           a == IF s.mgr.active = r THEN Ok(s)
                ELSE Then(finish_active(s), LAMBDA u : [u EXCEPT !.mgr.active = r])
<1>1. /\ Settles(s, a, T)
      /\ a.ok => a.mgr.active = r
      /\ a.mgr.buffer \in {EmptyBuffer, s.mgr.buffer}
      /\ Clean(a) => a.ok
      /\ Clean(a) /\ Linked(s) => Only(a, r)
  BY ActiveStep
<1>2. t = IF a.ok THEN set_operation(a, r, op) ELSE a
  BY Zenon DEF select, Then
<1>3. a \in State
  BY <1>1, RunsOn, Zenon DEF Settles
<1> HIDE DEF a, t
<1>4. CASE ~a.ok
  <2>1. t = a
    BY <1>2, <1>4
  <2> QED BY <1>1, <1>4, <2>1, Zenon DEF t
<1>5. CASE a.ok
  <2>1. t = set_operation(a, r, op) /\ op \in Operation
    BY <1>2, <1>5 DEF Operation
  <2>2. /\ Runs(a, t) /\ SameData(a, t)
        /\ Clean(t) => t.ok
        /\ Clean(t) /\ Agrees(a) => /\ Agrees(t)
                                    /\ t.mgr.current = [a.mgr.current EXCEPT ![r] = op]
    BY <1>3, <2>1, SetOperationStep
  <2>3. Settles(a, t, T)
    BY <1>1, <2>2, SettlesSame, Zenon DEF Settles
  <2>4. Settles(s, t, T)
    BY <1>1, <1>5, <2>3, SettlesOn, Zenon
  <2>5. t.mgr.active = r /\ t.mgr.buffer \in {EmptyBuffer, s.mgr.buffer}
    BY <1>1, <1>5, <2>2, Zenon DEF SameData
  <2>6. ASSUME Clean(t), Linked(s), is_dirty(s.mgr.buffer) => op = "Write"
        PROVE  Linked(t) /\ t.mgr.current[r] = op
    <3>1. Clean(a)
      BY <1>3, <2>2, <2>6, RunsOn, Zenon
    <3>2. Agrees(a) /\ \A q \in Region : a.mgr.current[q] # "None" => q = r
      BY <1>1, <2>6, <3>1, Zenon DEF Only
    <3>3. Agrees(t) /\ t.mgr.current = [a.mgr.current EXCEPT ![r] = op]
      BY <2>2, <2>6, <3>2
    <3>4. a.mgr.current \in [Region -> Operation]
      BY <1>3 DEF State, Manager
    <3>5. t.mgr.current[r] = op /\ \A q \in Region : t.mgr.current[q] # "None" => q = r
      BY <3>2, <3>3, <3>4
    <3>6. is_dirty(t.mgr.buffer) => op = "Write"
      BY <2>5, <2>6, Buffers, Zenon
    <3> QED BY <2>5, <3>3, <3>5, <3>6, Zenon DEF Linked
  <2> QED BY <2>2, <2>4, <2>5, <2>6, Zenon DEF t
<1> QED BY <1>4, <1>5

-----------------------------------------------------------------------------
(* The sector buffer: a write.                                             *)

(* The buffer with n more bytes, at dest. *)
Filled(b, base, dest, n, v) ==
  [base |-> base,
   data |-> [i \in 0..(BUF - 1) |->
               IF base + i \in dest..(dest + n - 1) THEN v ELSE b.data[i]],
   low  |-> IF b.low = NoAddr THEN dest ELSE Min({b.low, dest}),
   high |-> Max({b.high, dest + n})]

(* The empty buffer of a sector. *)
FreshBuffer(base) == [EmptyBuffer EXCEPT !.base = base]

(* The bytes of a chunk in the buffer: GDB sees them, and they are within the load. *)
LEMMA FillBuffer ==
  ASSUME NEW b \in Sector, NEW flash \in [Addr -> Cell], NEW r \in Region, NEW T, Closed(T),
         NEW dest \in Nat, NEW n \in Nat \ {0}, NEW v \in Byte, NEW base,
         base = dest - (dest % BUF), dest + n <= base + BUF,
         \A a \in dest..(dest + n - 1) : a \in T /\ Seen(flash, b)[a] = Erased,
         (Fits(b, flash, r, T) /\ b.base = base) \/ b = FreshBuffer(base)
  PROVE  LET c == Filled(b, base, dest, n, v)
         IN  /\ c \in Sector /\ Fits(c, flash, r, T)
             /\ \A a \in Addr : Seen(flash, c)[a]
                                  = IF a \in dest..(dest + n - 1) THEN v ELSE Seen(flash, b)[a]
<1> DEFINE c == Filled(b, base, dest, n, v)
           cells == dest..(dest + n - 1)
<1>1. BUF \in Nat \ {0} /\ Erased \notin Byte /\ Addr \subseteq Nat /\ T \subseteq Addr
  BY Constants, AddrNat DEF Closed
<1>2. base \in Nat /\ base % BUF = 0 /\ base <= dest
  <2>1. /\ (dest - (dest % BUF)) \in Nat /\ (dest - (dest % BUF)) % BUF = 0
        /\ dest - (dest % BUF) <= dest
    BY <1>1, FloorNat
  <2> QED BY <2>1
<1>3. /\ b.base \in Int /\ b.low \in Int /\ b.high \in Int
      /\ b.data \in [0..(BUF - 1) -> Bytes] /\ b.base = base
  <2>1. b.base = base
    BY DEF FreshBuffer, EmptyBuffer
  <2> QED BY <2>1 DEF Sector
<1>4. \/ Holds(b) /\ b.low # NoAddr /\ b.low \in T /\ b.high - 1 \in T
      \/ b.low = NoAddr /\ b.high = NoAddr /\ \A i \in 0..(BUF - 1) : b.data[i] = Erased
  <2>1. CASE Fits(b, flash, r, T) /\ b.base = base
    BY <1>2, <1>3, <2>1 DEF Fits, Holds, NoAddr
  <2>2. CASE b = FreshBuffer(base)
    BY <2>2 DEF FreshBuffer, EmptyBuffer
  <2> QED BY <2>1, <2>2
<1>5. c.base = base
  BY DEF Filled
<1>6. /\ c.data \in [0..(BUF - 1) -> Bytes]
      /\ \A i \in 0..(BUF - 1) : c.data[i] = IF base + i \in cells THEN v ELSE b.data[i]
  <2>1. c.data = [i \in 0..(BUF - 1) |-> IF base + i \in cells THEN v ELSE b.data[i]]
    BY DEF Filled
  <2> HIDE DEF c
  <2>2. v \in Bytes
    BY DEF Bytes
  <2>3. \A i \in 0..(BUF - 1) : b.data[i] \in Bytes
    BY <1>3
  <2> QED BY <2>1, <2>2, <2>3
<1>7. /\ c.low \in Int /\ c.high \in Int
      /\ c.low = IF b.low = NoAddr THEN dest ELSE IF b.low <= dest THEN b.low ELSE dest
      /\ c.high = IF b.high >= dest + n THEN b.high ELSE dest + n
  <2>1. c.low = (IF b.low = NoAddr THEN dest ELSE Min({b.low, dest})) /\ c.high = Max({b.high, dest + n})
    BY DEF Filled
  <2> HIDE DEF c
  <2>2. Min({b.low, dest}) = IF b.low <= dest THEN b.low ELSE dest
    BY <1>3, Lesser
  <2>3. Max({b.high, dest + n}) = IF b.high >= dest + n THEN b.high ELSE dest + n
    <3>1. dest + n \in Int
      OBVIOUS
    <3> QED BY <1>3, <3>1, Greater
  <2> QED BY <1>3, <2>1, <2>2, <2>3
<1>8. c = [base |-> c.base, low |-> c.low, high |-> c.high, data |-> c.data]
  BY DEF Filled
<1> HIDE DEF c
<1>9. c \in Sector
  BY <1>2, <1>5, <1>6, <1>7, <1>8 DEF Sector
<1>10. /\ base <= c.low /\ c.low <= dest /\ dest + n <= c.high /\ c.high <= base + BUF
       /\ c.low \in T /\ c.high - 1 \in T
  <2>0. dest \in cells /\ dest + n - 1 \in cells
    OBVIOUS
  <2>1. dest \in T /\ dest + n - 1 \in T
    BY <2>0
  <2>2. CASE Holds(b) /\ b.low # NoAddr /\ b.low \in T /\ b.high - 1 \in T
    <3>1. base <= b.low /\ b.low < b.high /\ b.high <= base + BUF
      BY <1>3, <2>2 DEF Holds
    <3> QED BY <1>1, <1>2, <1>3, <1>7, <2>1, <2>2, <3>1
  <2>3. CASE b.low = NoAddr /\ b.high = NoAddr
    BY <1>1, <1>2, <1>3, <1>7, <2>1, <2>3 DEF NoAddr
  <2> QED BY <1>4, <2>2, <2>3
<1>11. ASSUME NEW i \in 0..(BUF - 1), c.data[i] # Erased
       PROVE  base + i \in c.low..(c.high - 1)
  <2>1. CASE base + i \in cells
    BY <1>2, <1>7, <1>10, <2>1
  <2>2. CASE base + i \notin cells
    <3>1. b.data[i] # Erased
      BY <1>6, <1>11, <2>2
    <3>2. Holds(b) /\ b.low # NoAddr /\ b.low \in T /\ b.high - 1 \in T
      BY <1>4, <3>1
    <3>3. base + i \in b.low..(b.high - 1)
      BY <1>3, <3>1, <3>2 DEF Holds
    <3>4. c.low <= b.low /\ b.high <= c.high
      BY <1>3, <1>7, <3>2
    <3> QED BY <1>2, <1>3, <1>7, <3>3, <3>4
  <2> QED BY <2>1, <2>2
<1>12. Holds(c)
  BY <1>1, <1>2, <1>5, <1>7, <1>10, <1>11 DEF Holds
<1>13. ASSUME NEW a \in Addr
       PROVE  /\ Seen(flash, c)[a] = IF a \in cells THEN v ELSE Seen(flash, b)[a]
              /\ a \in c.low..(c.high - 1) /\ c.data[a - c.base] # Erased => flash[a] = Erased
  <2>1. Seen(flash, c)[a] = IF a \in c.low..(c.high - 1) /\ c.data[a - base] # Erased
                            THEN c.data[a - base] ELSE flash[a]
    BY <1>5, <1>12, Buffers DEF Seen
  <2>2. Seen(flash, b)[a] = IF is_dirty(b) /\ a \in b.low..(b.high - 1) /\ b.data[a - base] # Erased
                            THEN b.data[a - base] ELSE flash[a]
    BY <1>3 DEF Seen
  <2>3. a \in Int /\ base \in Int /\ BUF \in Int
    BY <1>1, <1>2
  <2>4. a \in c.low..(c.high - 1) => a \in base..(base + BUF - 1)
    BY <1>7, <1>10, <2>3
  <2>5. a \in base..(base + BUF - 1) => a - base \in 0..(BUF - 1) /\ base + (a - base) = a
    BY <2>3, Offset
  <2>6. a \in cells => a \in c.low..(c.high - 1) /\ c.data[a - base] = v /\ v # Erased
    <3> SUFFICES ASSUME a \in cells
                 PROVE  a \in c.low..(c.high - 1) /\ c.data[a - base] = v /\ v # Erased
      OBVIOUS
    <3>1. a \in c.low..(c.high - 1)
      BY <1>7, <1>10, <2>3
    <3>2. a - base \in 0..(BUF - 1) /\ base + (a - base) \in cells
      BY <2>4, <2>5, <3>1
    <3> QED BY <1>1, <1>6, <3>1, <3>2
  <2>7. CASE a \in cells
    <3>1. flash[a] = Erased
      <4>1. Seen(flash, b)[a] = Erased
        BY <2>7
      <4> QED BY <2>2, <4>1
    <3> QED BY <1>5, <2>1, <2>6, <2>7, <3>1
  <2>8. CASE a \notin cells
    <3>1. (a \in c.low..(c.high - 1) /\ c.data[a - base] # Erased)
            <=> (is_dirty(b) /\ a \in b.low..(b.high - 1) /\ b.data[a - base] # Erased)
      <4>1. ASSUME a \in c.low..(c.high - 1), c.data[a - base] # Erased
            PROVE  is_dirty(b) /\ a \in b.low..(b.high - 1) /\ b.data[a - base] # Erased
        <5>1. a - base \in 0..(BUF - 1) /\ base + (a - base) = a
          BY <2>4, <2>5, <4>1
        <5>2. b.data[a - base] # Erased
          BY <1>6, <2>8, <4>1, <5>1
        <5>3. Holds(b)
          BY <1>4, <5>1, <5>2
        <5>4. a \in b.low..(b.high - 1)
          BY <1>3, <5>1, <5>2, <5>3 DEF Holds
        <5> QED BY <5>2, <5>3, <5>4, Buffers
      <4>2. ASSUME is_dirty(b), a \in b.low..(b.high - 1), b.data[a - base] # Erased
            PROVE  a \in c.low..(c.high - 1) /\ c.data[a - base] # Erased
        <5>1. b.low < b.high
          BY <4>2 DEF is_dirty
        <5>2. Holds(b) /\ b.low # NoAddr
          BY <1>4, <5>1 DEF NoAddr
        <5>3. c.low <= b.low /\ b.high <= c.high
          BY <1>3, <1>7, <5>2
        <5>4. a \in c.low..(c.high - 1)
          BY <1>3, <1>7, <2>3, <4>2, <5>3
        <5>5. a - base \in 0..(BUF - 1) /\ base + (a - base) = a
          BY <2>4, <2>5, <5>4
        <5> QED BY <1>6, <2>8, <4>2, <5>4, <5>5
      <4> QED BY <4>1, <4>2
    <3>2. (is_dirty(b) /\ a \in b.low..(b.high - 1) /\ b.data[a - base] # Erased)
            => c.data[a - base] = b.data[a - base] /\ flash[a] = Erased
      <4> SUFFICES ASSUME is_dirty(b), a \in b.low..(b.high - 1), b.data[a - base] # Erased
                   PROVE  c.data[a - base] = b.data[a - base] /\ flash[a] = Erased
        OBVIOUS
      <4>1. a - base \in 0..(BUF - 1) /\ base + (a - base) = a
        BY <2>4, <2>5, <3>1
      <4>2. c.data[a - base] = b.data[a - base]
        BY <1>6, <2>8, <4>1
      <4>3. b # FreshBuffer(base)
        BY DEF FreshBuffer, EmptyBuffer, is_dirty, NoAddr
      <4>4. flash[a] = Erased
        BY <1>3, <4>3 DEF Fits
      <4> QED BY <4>2, <4>4
    <3> QED BY <1>5, <2>1, <2>2, <2>8, <3>1, <3>2
  <2> QED BY <2>7, <2>8
<1>14. Fits(c, flash, r, T)
  BY <1>10, <1>12, <1>13 DEF Fits
<1> QED BY <1>9, <1>13, <1>14 DEF c

\* The cells of the load that a request sets show v when it succeeds, all
\* others what they showed
Sets(s, t, T, cells, v) ==
  /\ Runs(s, t) /\ Safe(t, T) /\ Spares(s, t, T)
  /\ t.ok => \A a \in Addr : View(t)[a] = IF a \in cells THEN v ELSE View(s)[a]

\* What the parts of a write keep of the management
Stays(s, t, r) ==
  /\ t.mgr.active = s.mgr.active /\ t.mgr.current = s.mgr.current
  /\ Clean(t) /\ Linked(s) /\ s.mgr.current[r] = "Write" => Linked(t)

\* Cells that may be written: of the load, and erased
Writable(s, T, cells) == \A a \in cells : a \in T /\ View(s)[a] = Erased

(* A chunk within one sector goes into the buffer, flushed before if it holds another sector. *)
LEMMA PutStep ==
  ASSUME NEW s \in State, NEW r \in Region, s.mgr.active = r,
         NEW T, Closed(T), Safe(s, T),
         NEW dest \in Nat, NEW n \in Nat \ {0}, NEW v \in Byte,
         dest + n <= dest - (dest % BUF) + BUF,
         Writable(s, T, dest..(dest + n - 1))
  PROVE  LET t == put(s, r, dest, n, v)
         IN  /\ Sets(s, t, T, dest..(dest + n - 1), v) /\ Stays(s, t, r)
             /\ Clean(t) => t.ok
<1> DEFINE t == put(s, r, dest, n, v)
           base == dest - (dest % BUF)
           cells == dest..(dest + n - 1)
           fill(u) == [u EXCEPT !.mgr.buffer = Filled(u.mgr.buffer, base, dest, n, v)]
           f == flush(s, r)
           m == [f EXCEPT !.mgr.buffer = FreshBuffer(base)]
           o == Ok(s)
<1>1. base \in Nat /\ base # NoAddr
  <2>1. base \in Nat
    <3>1. BUF \in Nat \ {0}
      BY Constants
    <3> QED BY <3>1, FloorNat
  <2> HIDE DEF base
  <2> QED BY <2>1 DEF NoAddr
<1>2. \* filling a buffer that is ready for it
      ASSUME NEW u \in State, u.mgr.active = r, u.ok, u.mgr.current = s.mgr.current,
             View(u) = View(s),
             \/ Fits(u.mgr.buffer, u.dev.flash, r, T) /\ u.mgr.buffer.base = base
             \/ u.mgr.buffer = FreshBuffer(base)
      PROVE  LET w == fill(u)
             IN  /\ Runs(u, w) /\ Safe(w, T) /\ w.dev = u.dev /\ w.ok
                 /\ w.mgr.active = r /\ w.mgr.current = s.mgr.current
                 /\ \A a \in Addr : View(w)[a] = IF a \in cells THEN v ELSE View(s)[a]
  <2> DEFINE b == u.mgr.buffer
             c == Filled(b, base, dest, n, v)
             w == fill(u)
  <2>1. b \in Sector /\ u.dev.flash \in [Addr -> Cell]
    BY DEF State, Manager, Device
  <2>2. \A a \in cells : a \in T /\ Seen(u.dev.flash, b)[a] = Erased
    BY <1>2, Zenon DEF Writable, View
  <2>3. /\ c \in Sector /\ Fits(c, u.dev.flash, r, T)
        /\ \A a \in Addr : Seen(u.dev.flash, c)[a]
                             = IF a \in cells THEN v ELSE Seen(u.dev.flash, b)[a]
    <3> HIDE DEF base, b
    <3>1. base = dest - (dest % BUF) /\ dest + n <= base + BUF
      BY DEF base
    <3>2. (Fits(b, u.dev.flash, r, T) /\ b.base = base) \/ b = FreshBuffer(base)
      BY <1>2 DEF b
    <3> QED BY <2>1, <2>2, <3>1, <3>2, FillBuffer
  <2> HIDE DEF c, base
  <2>4. w = [u EXCEPT !.mgr.buffer = c]
    BY Zenon DEF c
  <2> HIDE DEF w
  <2>5. Rebuffers(u, w, c)
    BY <2>3, <2>4, NewBuffer, Zenon
  <2>6. Runs(u, w) /\ w.dev = u.dev /\ w.ok /\ w.mgr.buffer = c
        /\ w.mgr.active = r /\ w.mgr.current = s.mgr.current
    BY <1>2, <2>5, Zenon DEF Rebuffers
  <2>7. Safe(w, T)
    BY <2>3, <2>6, Zenon DEF Safe
  <2>8. View(w) = Seen(u.dev.flash, c) /\ View(s) = Seen(u.dev.flash, b)
    BY <1>2, <2>6, Zenon DEF View
  <2> QED BY <2>3, <2>6, <2>7, <2>8, Zenon DEF w
<1>3. CASE s.mgr.buffer.base = base
  <2>1. t = fill(o)
    BY <1>3, Zenon DEF put, Filled
  <2>2. Runs(s, o) /\ o.ok /\ o.dev = s.dev /\ o.mgr = s.mgr /\ o \in State
    BY Okay DEF Runs
  <2>3. s.mgr.buffer # EmptyBuffer
    BY <1>1, <1>3 DEF EmptyBuffer
  <2> HIDE DEF o, base, fill
  <2>4. Fits(o.mgr.buffer, o.dev.flash, r, T) /\ o.mgr.buffer.base = base
    BY <1>3, <2>2, <2>3, Zenon DEF Safe
  <2>5. View(o) = View(s)
    BY <2>2, Zenon DEF View
  <2>6. /\ Runs(o, t) /\ Safe(t, T) /\ t.dev = o.dev /\ t.ok
        /\ t.mgr.active = r /\ t.mgr.current = s.mgr.current
        /\ \A a \in Addr : View(t)[a] = IF a \in cells THEN v ELSE View(s)[a]
    BY <1>2, <2>1, <2>2, <2>4, <2>5
  <2> HIDE DEF t
  <2>7. Sets(s, t, T, cells, v)
    BY <2>2, <2>6, RunsOn, Zenon DEF Sets, Spares
  <2>8. Stays(s, t, r)
    BY <2>2, <2>6, Zenon DEF Stays, Linked, Agrees, Matched
  <2> QED BY <2>6, <2>7, <2>8 DEF t
<1>4. CASE s.mgr.buffer.base # base
  <2>1. /\ Settles(s, f, T)
        /\ f.mgr.current = s.mgr.current /\ f.mgr.active = s.mgr.active
        /\ f.mgr.buffer \in {EmptyBuffer, s.mgr.buffer}
        /\ f.ok => f.mgr.buffer = EmptyBuffer
        /\ Clean(f) => f.ok
        /\ (Clean(f) /\ Agrees(s)
              /\ (is_dirty(s.mgr.buffer) => s.mgr.current[r] = "Write")) => Agrees(f)
    BY FlushStep
  <2>2. f \in State
    BY <2>1, RunsOn, Zenon DEF Settles
  <2>3. CASE ~f.ok
    <3>1. t = f
      BY <1>4, <2>3, Zenon DEF put, Then
    <3> HIDE DEF t, f
    <3>2. ~Clean(t) /\ ~t.ok
      BY <2>1, <2>3, <3>1, Zenon
    <3>3. Sets(s, t, T, cells, v) /\ Stays(s, t, r)
      BY <2>1, <3>1, <3>2, Zenon DEF Settles, Sets, Stays
    <3> QED BY <3>2, <3>3 DEF t
  <2>4. CASE f.ok
    <3>1. t = fill(m)
      BY <1>4, <2>4, Zenon DEF put, Then, Filled, FreshBuffer
    <3>2. FreshBuffer(base) \in Sector
      BY <1>1, Buffers DEF FreshBuffer, Sector
    <3> HIDE DEF f, t, base, fill
    <3>3. Rebuffers(f, m, FreshBuffer(base))
      BY <2>2, <3>2, NewBuffer
    <3> HIDE DEF m
    <3>4. /\ Runs(f, m) /\ m.dev = f.dev /\ m.ok /\ m.mgr.current = s.mgr.current
          /\ m.mgr.active = r /\ m.mgr.buffer = FreshBuffer(base) /\ m \in State
      BY <2>1, <2>2, <2>4, <3>3, RunsOn, Zenon DEF Rebuffers
    <3>5. View(m) = View(s)
      <4>1. ~is_dirty(FreshBuffer(base))
        BY DEF FreshBuffer, EmptyBuffer, is_dirty, NoAddr
      <4>2. Seen(f.dev.flash, FreshBuffer(base)) = Seen(f.dev.flash, EmptyBuffer)
        BY <4>1, Buffers DEF Seen
      <4> QED BY <2>1, <2>4, <3>4, <4>2, Zenon DEF View, Settles
    <3>6. /\ Runs(m, t) /\ Safe(t, T) /\ t.dev = m.dev /\ t.ok
          /\ t.mgr.active = r /\ t.mgr.current = s.mgr.current
          /\ \A a \in Addr : View(t)[a] = IF a \in cells THEN v ELSE View(s)[a]
      BY <1>2, <3>1, <3>4, <3>5
    <3>7. Runs(s, t) /\ Runs(f, t)
      BY <2>1, <2>2, <3>4, <3>6, RunsOn, Zenon DEF Settles
    <3>8. Sets(s, t, T, cells, v)
      BY <2>1, <3>4, <3>6, <3>7, Zenon DEF Settles, Sets, Spares
    <3>9. ASSUME Clean(t), Linked(s), s.mgr.current[r] = "Write" PROVE Linked(t)
      <4>1. Agrees(f)
        BY <2>1, <2>2, <3>7, <3>9, RunsOn, Zenon DEF Linked
      <4>2. Agrees(t)
        BY <2>1, <3>4, <3>6, <4>1, Zenon DEF Agrees, Matched
      <4> QED BY <3>6, <3>9, <4>2, Zenon DEF Linked
    <3>10. Stays(s, t, r)
      BY <3>6, <3>9, Zenon DEF Stays
    <3> QED BY <3>6, <3>8, <3>10 DEF t
  <2> QED BY <2>3, <2>4
<1> QED BY <1>3, <1>4

\* The same for a loop whose step keeps to S from where the loop is only: J
\* holds the pairs of a count and what the loop may have come to by then
IsRun(g, n, b, G, J) ==
  /\ g = [k \in 0..n |-> IF k = 0 THEN b ELSE G[<<k, g[k - 1]>>]]
  /\ \A k \in 0..n : <<k, g[k]>> \in J

(* A turn of the loop keeps to the set J of turns and values. *)
KeepsTo(G, n, S, J) ==
  \A k \in 1..n, x \in S :
    <<k - 1, x>> \in J => G[<<k, x>>] \in S /\ <<k, G[<<k, x>>]>> \in J

(* A loop runs, and its values keep to what every turn keeps to. *)
LEMMA LoopRuns ==
  ASSUME NEW n \in Nat, NEW S, NEW b \in S, NEW G, NEW J, <<0, b>> \in J, KeepsTo(G, n, S, J)
  PROVE  \E g : IsRun(g, n, b, G, J) /\ \A k \in 0..n : g[k] \in S
<1> DEFINE H == [q \in (1..n) \X S |-> IF G[q] \in S THEN G[q] ELSE b]
           A(g) == {k \in 0..n : <<k, g[k]>> \in J}
<1>1. H \in [(1..n) \X S -> S]
  OBVIOUS
<1>2. \A k \in 1..n, x \in S : H[<<k, x>>] = IF G[<<k, x>>] \in S THEN G[<<k, x>>] ELSE b
  OBVIOUS
<1> HIDE DEF H
<1>3. PICK g \in [0..n -> S] : Loop(g, n, b, H)
  BY <1>1, Recursion
<1>4. \A k \in 0..n : g[k] \in S
  OBVIOUS
<1>5. ASSUME NEW k \in 1..n, <<k - 1, g[k - 1]>> \in J
      PROVE  g[k] = G[<<k, g[k - 1]>>] /\ <<k, g[k]>> \in J
  <2>1. k - 1 \in 0..n
    OBVIOUS
  <2>2. g[k - 1] \in S
    BY <1>4, <2>1
  <2>3. g[k] = H[<<k, g[k - 1]>>]
    BY <1>3 DEF Loop
  <2>4. G[<<k, g[k - 1]>>] \in S /\ <<k, G[<<k, g[k - 1]>>]>> \in J
    BY <1>5, <2>2, Zenon DEF KeepsTo
  <2> QED BY <1>2, <2>2, <2>3, <2>4, Zenon
<1>6. \A k \in 0..n : <<k, g[k]>> \in J
  <2>1. 0 \in A(g)
    BY <1>3 DEF Loop
  <2>2. ASSUME NEW k \in 1..n, k - 1 \in A(g) PROVE k \in A(g)
    <3>1. <<k - 1, g[k - 1]>> \in J /\ k \in 0..n
      BY <2>2
    <3> QED BY <1>5, <3>1
  <2> HIDE DEF A
  <2>3. \A k \in 0..n : k \in A(g)
    BY <2>1, <2>2, Induct
  <2> QED BY <2>3 DEF A
<1>7. \A k \in 0..n : g[k] = IF k = 0 THEN b ELSE G[<<k, g[k - 1]>>]
  <2> TAKE k \in 0..n
  <2>1. CASE k = 0
    BY <1>3, <2>1 DEF Loop
  <2>2. CASE k # 0
    <3>1. k \in 1..n /\ k - 1 \in 0..n
      BY <2>2
    <3> QED BY <1>5, <1>6, <2>2, <3>1, Zenon
  <2> QED BY <2>1, <2>2
<1>8. g = [k \in 0..n |-> IF k = 0 THEN b ELSE G[<<k, g[k - 1]>>]]
  <2>1. g = [k \in 0..n |-> g[k]]
    OBVIOUS
  <2> QED BY <1>7, <2>1, Zenon
<1> QED BY <1>4, <1>6, <1>8, Zenon DEF IsRun

\* The chunks of a write: the first may start anywhere in its sector, the
\* others start where the one before ends
First(dest, k) == IF k = 1 THEN dest ELSE dest - (dest % BUF) + (k - 1) * BUF
Chunks(dest, n) == ((dest % BUF) + n + BUF - 1) \div BUF
Size(dest, n, k) == Min({First(dest, k + 1), dest + n}) - First(dest, k)
Upto(dest, n, k) == IF k = 0 THEN dest ELSE First(dest, k) + Size(dest, n, k)

(* The chunks of a write follow one another, each within a sector, from the first byte to
   the last. *)
LEMMA ChunkLayout ==
  ASSUME NEW dest \in Nat, NEW n \in Nat \ {0}
  PROVE  /\ Chunks(dest, n) \in Nat \ {0}
         /\ Upto(dest, n, Chunks(dest, n)) = dest + n
         /\ \A k \in 1..Chunks(dest, n) :
              LET a == First(dest, k)
              IN  /\ a \in Nat /\ Size(dest, n, k) \in Nat \ {0}
                  /\ a = Upto(dest, n, k - 1) /\ dest <= a
                  /\ a + Size(dest, n, k) = Upto(dest, n, k)
                  /\ Upto(dest, n, k) <= dest + n
                  /\ a + Size(dest, n, k) <= a - (a % BUF) + BUF
<1> DEFINE b == dest - (dest % BUF)
           c == Chunks(dest, n)
           x == (dest % BUF) + n + BUF - 1
<1>1. BUF \in Nat \ {0} /\ (dest % BUF) \in Int /\ x \in Int
  BY Constants
<1>2. b \in Nat /\ b % BUF = 0 /\ b <= dest /\ dest < b + BUF
  BY <1>1, FloorNat
<1>3. c \in Int /\ BUF * c <= x /\ x < BUF * c + BUF
  BY <1>1, Division DEF Chunks
<1>4. BUF * c \in Int /\ b + (dest % BUF) = dest
  BY <1>1, <1>2, <1>3
<1>5. dest + n <= b + BUF * c /\ b + BUF * c - BUF < dest + n
  <2> HIDE DEF b, c
  <2> QED BY <1>1, <1>2, <1>3, <1>4 DEF x, b
<1> HIDE DEF b, c, x
<1>6. c \in Nat \ {0}
  <2> SUFFICES ASSUME c <= 0 PROVE FALSE
    BY <1>3
  <2>1. BUF * c <= BUF * 0
    BY <1>1, <1>3, NotLess
  <2>2. BUF * 0 = 0
    BY <1>1
  <2> DEFINE m == BUF * c
  <2>3. m <= 0 /\ m \in Int
    BY <1>4, <2>1, <2>2
  <2>4. dest + n <= b + m
    BY <1>5
  <2> HIDE DEF m
  <2> QED BY <1>2, <2>3, <2>4
<1>7. \A k \in Int : First(dest, k) = IF k = 1 THEN dest ELSE b + (k - 1) * BUF
  BY DEF First, b
<1> DEFINE e(k) == b + BUF * k
<1>8. \A k \in Int : e(k) \in Int /\ e(k - 1) + BUF = e(k) /\ b + (k - 1) * BUF = e(k - 1)
                     /\ e(k) % BUF = 0
  <2> TAKE k \in Int
  <2>1. BUF * k \in Int /\ (BUF * k) % BUF = 0
    BY <1>1, Multiple
  <2>2. BUF * (k - 1) = BUF * k - BUF /\ (k - 1) * BUF = BUF * k - BUF
    BY <1>1
  <2>3. (b + BUF * k) % BUF = 0
    <3> DEFINE m == BUF * k
    <3>1. m \in Int /\ (m % BUF) = 0 /\ b \in Int /\ (b % BUF) = 0
      BY <1>2, <2>1
    <3> HIDE DEF m
    <3>2. (b + m) % BUF = 0
      BY <1>1, <3>1, SumOfMultiples
    <3> QED BY <3>2 DEF m
  <2> QED BY <1>1, <1>2, <2>1, <2>2, <2>3
<1>9. \A j, k \in Int : j <= k => e(j) <= e(k)
  <2> TAKE j, k \in Int
  <2>1. j <= k => BUF * j <= BUF * k
    BY <1>1, NotLess
  <2>2. BUF * j \in Int /\ BUF * k \in Int
    BY <1>1
  <2> QED BY <1>2, <2>1, <2>2
<1>10. e(0) = b /\ e(1) = b + BUF /\ dest + n <= e(c) /\ e(c - 1) < dest + n
  <2>1. e(c - 1) + BUF = e(c) /\ e(c) \in Int /\ e(c - 1) \in Int
    BY <1>3, <1>8
  <2>2. e(0) = b /\ e(1) = b + BUF
    BY <1>1, <1>2
  <2>3. dest + n <= e(c) /\ e(c) - BUF < dest + n
    <3> DEFINE m == BUF * c
    <3>1. m \in Int /\ b \in Int /\ BUF \in Int /\ dest + n <= b + m /\ b + m - BUF < dest + n
      BY <1>1, <1>2, <1>4, <1>5
    <3> HIDE DEF m
    <3>2. dest + n <= b + m /\ (b + m) - BUF < dest + n
      BY <3>1
    <3> QED BY <3>2 DEF m
  <2> HIDE DEF e
  <2> QED BY <1>1, <2>1, <2>2, <2>3
<1> HIDE DEF e
<1>11. ASSUME NEW k \in 1..c
       PROVE  /\ First(dest, k) = (IF k = 1 THEN dest ELSE e(k - 1))
              /\ First(dest, k + 1) = e(k)
              /\ First(dest, k) \in Nat /\ dest <= First(dest, k) /\ First(dest, k) < dest + n
              /\ e(k) = First(dest, k) - (First(dest, k) % BUF) + BUF
              /\ First(dest, k) < e(k)
              /\ Size(dest, n, k) = (IF e(k) <= dest + n THEN e(k) ELSE dest + n) - First(dest, k)
  <2>1. k \in Int /\ k + 1 \in Int /\ k - 1 \in Int /\ k + 1 # 1 /\ (k + 1) - 1 = k
    BY <1>6
  <2>2. First(dest, k) = (IF k = 1 THEN dest ELSE e(k - 1)) /\ First(dest, k + 1) = e(k)
    <3>1. First(dest, k) = IF k = 1 THEN dest ELSE b + (k - 1) * BUF
      BY <1>7, <2>1
    <3>2. First(dest, k + 1) = b + ((k + 1) - 1) * BUF
      BY <1>7, <2>1, Zenon
    <3>3. b + ((k + 1) - 1) * BUF = e((k + 1) - 1)
      BY <1>8, <2>1, Zenon
    <3> QED BY <1>8, <2>1, <3>1, <3>2, <3>3
  <2>3. e(k) \in Int /\ e(k - 1) \in Int /\ e(k - 1) + BUF = e(k)
    BY <1>8, <2>1
  <2>4. First(dest, k) \in Nat /\ dest <= First(dest, k) /\ First(dest, k) < dest + n
    <3>1. CASE k = 1
      BY <2>2, <3>1
    <3>2. CASE k # 1
      <4>1. 1 <= k - 1 /\ k - 1 <= c - 1
        BY <1>6, <3>2
      <4>2. e(1) <= e(k - 1) /\ e(k - 1) <= e(c - 1) /\ e(1) \in Int /\ e(c - 1) \in Int
        <5>1. 1 \in Int /\ c - 1 \in Int
          BY <1>3
        <5> QED BY <1>8, <1>9, <2>1, <4>1, <5>1
      <4> QED BY <1>1, <1>2, <1>10, <2>2, <2>3, <3>2, <4>2
    <3> QED BY <3>1, <3>2
  <2>5. e(k) = First(dest, k) - (First(dest, k) % BUF) + BUF
    <3>1. CASE k = 1
      BY <1>10, <2>2, <3>1 DEF b
    <3>2. CASE k # 1
      <4>1. e(k - 1) % BUF = 0
        BY <1>8, <2>1
      <4> QED BY <1>1, <2>2, <2>3, <3>2, <4>1
    <3> QED BY <3>1, <3>2
  <2>6. First(dest, k) < e(k)
    <3>1. CASE k = 1
      BY <1>2, <1>10, <2>2, <3>1
    <3>2. CASE k # 1
      BY <1>1, <2>2, <2>3, <3>2
    <3> QED BY <3>1, <3>2
  <2>7. Size(dest, n, k) = (IF e(k) <= dest + n THEN e(k) ELSE dest + n) - First(dest, k)
    <3>1. Size(dest, n, k) = Min({e(k), dest + n}) - First(dest, k)
      BY <2>2, Zenon DEF Size
    <3>2. dest + n \in Int
      OBVIOUS
    <3>3. Min({e(k), dest + n}) = IF e(k) <= dest + n THEN e(k) ELSE dest + n
      BY <2>3, <3>2, Lesser
    <3> QED BY <3>1, <3>3, Zenon
  <2> QED BY <2>2, <2>4, <2>5, <2>6, <2>7
<1>12. ASSUME NEW k \in 1..c
       PROVE  Upto(dest, n, k) = IF e(k) <= dest + n THEN e(k) ELSE dest + n
  <2>1. Upto(dest, n, k) = First(dest, k) + Size(dest, n, k)
    BY <1>6 DEF Upto
  <2>2. e(k) \in Int
    BY <1>8
  <2> QED BY <1>11, <2>1, <2>2
<1>13. Upto(dest, n, c) = dest + n
  <2>1. c \in 1..c /\ e(c) \in Int
    BY <1>3, <1>6, <1>8
  <2> QED BY <1>10, <1>12, <2>1
<1>14. ASSUME NEW k \in 1..c PROVE First(dest, k) = Upto(dest, n, k - 1)
  <2>1. CASE k = 1
    BY <1>11, <2>1 DEF Upto
  <2>2. CASE k # 1
    <3>1. k - 1 \in 1..c /\ e(k - 1) \in Int
      BY <1>6, <1>8, <2>2
    <3>2. e(k - 1) < dest + n
      BY <1>11, <2>2
    <3>3. Upto(dest, n, k - 1) = e(k - 1)
      BY <1>12, <3>1, <3>2
    <3> QED BY <1>11, <2>2, <3>3
  <2> QED BY <2>1, <2>2
<1>15. ASSUME NEW k \in 1..c
       PROVE  LET a == First(dest, k)
              IN  /\ a \in Nat /\ Size(dest, n, k) \in Nat \ {0}
                  /\ a = Upto(dest, n, k - 1) /\ dest <= a
                  /\ a + Size(dest, n, k) = Upto(dest, n, k)
                  /\ Upto(dest, n, k) <= dest + n
                  /\ a + Size(dest, n, k) <= a - (a % BUF) + BUF
  <2> DEFINE a == First(dest, k)
             z == Size(dest, n, k)
             y == IF e(k) <= dest + n THEN e(k) ELSE dest + n
  <2>1. e(k) \in Int /\ k # 0
    BY <1>6, <1>8
  <2>2. a \in Nat /\ dest <= a /\ a < dest + n /\ a < e(k) /\ z = y - a
        /\ e(k) = a - (a % BUF) + BUF /\ a = Upto(dest, n, k - 1) /\ Upto(dest, n, k) = y
    BY <1>11, <1>12, <1>14
  <2> HIDE DEF a, z
  <2>3. y \in Int /\ y <= e(k) /\ y <= dest + n /\ a < y
    BY <2>1, <2>2
  <2> HIDE DEF y
  <2>4. z \in Nat \ {0} /\ a + z = y /\ y <= a - (a % BUF) + BUF
    BY <2>1, <2>2, <2>3
  <2> QED BY <2>2, <2>3, <2>4 DEF a, z
<1> QED BY <1>6, <1>13, <1>15 DEF c

\* One request sets some cells and then some more
Joins(C, D, E) == \A a \in Addr : a \in E <=> a \in C \/ a \in D

\* The one goes well only if the other did
Follows(s, t) == t.ok => s.ok

(* Writing some cells and then others writes them all. *)
LEMMA SetsOn ==
  ASSUME NEW s \in State, NEW x, NEW t, NEW T, NEW C, NEW D, NEW E, NEW v,
         Sets(s, x, T, C, v), Sets(x, t, T, D, v), Follows(x, t),
         Joins(C, D, E)
  PROVE  Sets(s, t, T, E, v)
<1>1. Runs(s, t)
  BY RunsOn, Zenon DEF Sets
<1>2. Spares(s, t, T)
  BY Zenon DEF Sets, Spares
<1>3. ASSUME t.ok, NEW a \in Addr PROVE View(t)[a] = IF a \in E THEN v ELSE View(s)[a]
  <2>1. View(t)[a] = IF a \in D THEN v ELSE View(x)[a]
    BY <1>3, Zenon DEF Sets
  <2>2. View(x)[a] = IF a \in C THEN v ELSE View(s)[a]
    BY <1>3, Zenon DEF Sets, Follows
  <2> QED BY <2>1, <2>2 DEF Joins
<1> QED BY <1>1, <1>2, <1>3, Zenon DEF Sets

\* A part of a request that settles sets no cell
LEMMA SettlesSets ==
  ASSUME NEW s, NEW t, NEW T, NEW C, NEW v, Settles(s, t, T), \A a \in Addr : a \notin C
  PROVE  Sets(s, t, T, C, v)
BY Zenon DEF Settles, Sets

\* A request that has failed sets what it was asked to set
LEMMA SetsFailed ==
  ASSUME NEW s, NEW t, NEW T, NEW C, NEW D, NEW v, Sets(s, t, T, C, v), ~t.ok
  PROVE  Sets(s, t, T, D, v)
BY Zenon DEF Sets

(* Two calls that stay on a region. *)
LEMMA StaysOn ==
  ASSUME NEW s \in State, NEW x, NEW t, NEW r, Runs(s, x), Runs(x, t), Stays(s, x, r), Stays(x, t, r)
  PROVE  Stays(s, t, r)
<1>1. x \in State
  BY RunsOn, Zenon
<1>2. Clean(t) => Clean(x)
  BY <1>1, RunsOn, Zenon
<1> QED BY <1>2, Zenon DEF Stays

(* write() of the buffer: GDB sees the bytes, each chunk in its turn, or an error. *)
LEMMA BufferWriteStep ==
  ASSUME NEW s \in State, NEW r \in Region, s.mgr.active = r, s.ok,
         NEW T, Closed(T), Safe(s, T),
         NEW dest \in Nat, NEW n \in Nat \ {0}, NEW v \in Byte,
         Writable(s, T, dest..(dest + n - 1))
  PROVE  LET t == buffer_write(s, r, dest, n, v)
         IN  /\ Sets(s, t, T, dest..(dest + n - 1), v) /\ Stays(s, t, r)
             /\ Clean(t) => t.ok
<1> DEFINE c == Chunks(dest, n)
           B(k, x) == Then(x, LAMBDA t : put(t, r, First(dest, k), Size(dest, n, k), v))
           G == [q \in (1..c) \X State |-> B(q[1], q[2])]
           h == CHOOSE h : h = [k \in 0..c |-> IF k = 0 THEN s
                                 ELSE Then(h[k - 1],
                                           LAMBDA t : put(t, r, First(dest, k), Size(dest, n, k), v))]
           D(k) == dest..(Upto(dest, n, k) - 1)
           P(k, u) == Sets(s, u, T, D(k), v) /\ Stays(s, u, r) /\ (Clean(u) => u.ok)
           J == {q \in (0..c) \X State : P(q[1], q[2])}
<1>1. buffer_write(s, r, dest, n, v) = h[c]
  BY Zenon DEF buffer_write, Then, First, Chunks, Size
<1> HIDE DEF h
<1>2. c \in Nat \ {0} /\ Upto(dest, n, c) = dest + n
  BY ChunkLayout
<1>3. ASSUME NEW k \in 1..c
      PROVE  LET a == First(dest, k)
             IN  /\ a \in Nat /\ Size(dest, n, k) \in Nat \ {0}
                 /\ a = Upto(dest, n, k - 1) /\ dest <= a
                 /\ a + Size(dest, n, k) = Upto(dest, n, k)
                 /\ Upto(dest, n, k) <= dest + n
                 /\ a + Size(dest, n, k) <= a - (a % BUF) + BUF
  BY ChunkLayout
<1> HIDE DEF c
<1>4. <<0, s>> \in J
  <2>1. \A a \in Addr : a \notin D(0)
    BY DEF Upto
  <2> HIDE DEF D
  <2>2. Settles(s, s, T)
    BY RunsOn, Zenon DEF Settles, Spares
  <2>3. Sets(s, s, T, D(0), v)
    BY <2>1, <2>2, SettlesSets
  <2>4. Stays(s, s, r)
    BY Zenon DEF Stays
  <2>5. 0 \in 0..c
    BY <1>2
  <2> QED BY <2>3, <2>4, <2>5
<1>5. ASSUME NEW k \in 1..c, NEW x \in State, <<k - 1, x>> \in J
      PROVE  B(k, x) \in State /\ <<k, B(k, x)>> \in J
  <2> DEFINE a == First(dest, k)
             z == Size(dest, n, k)
             y == Upto(dest, n, k)
             t == put(x, r, a, z, v)
  <2>1. k \in 0..c /\ k - 1 \in 0..c /\ k # 0
    BY <1>2
  <2>2. Sets(s, x, T, D(k - 1), v) /\ Stays(s, x, r) /\ (Clean(x) => x.ok)
    BY <1>5, Zenon
  <2>3. /\ a \in Nat /\ z \in Nat \ {0} /\ D(k - 1) = dest..(a - 1) /\ dest <= a
        /\ a + z = y /\ y <= dest + n /\ a + z <= a - (a % BUF) + BUF /\ y \in Nat
        /\ D(k) = dest..(y - 1)
    <3>1. /\ a \in Nat /\ z \in Nat \ {0} /\ a = Upto(dest, n, k - 1) /\ dest <= a
          /\ a + z = y /\ y <= dest + n /\ a + z <= a - (a % BUF) + BUF
      BY <1>3
    <3> HIDE DEF a, z, y
    <3>2. y \in Nat
      BY <3>1
    <3>3. D(k - 1) = dest..(a - 1) /\ D(k) = dest..(y - 1)
      BY <3>1, Zenon DEF y
    <3> QED BY <3>1, <3>2, <3>3
  <2>4. CASE ~x.ok
    <3>1. B(k, x) = x
      BY <2>4, Zenon DEF Then
    <3>2. Sets(s, x, T, D(k), v)
      BY <2>2, <2>4, SetsFailed, Zenon
    <3> HIDE DEF D, B
    <3> QED BY <2>1, <2>2, <3>1, <3>2
  <2>5. CASE x.ok
    <3>1. B(k, x) = t
      BY <2>5, Zenon DEF Then
    <3> HIDE DEF a, z, y, t, B
    <3>2. Writable(x, T, a..(a + z - 1))
      <4> SUFFICES ASSUME NEW i \in a..(a + z - 1) PROVE i \in T /\ View(x)[i] = Erased
        BY DEF Writable
      <4>1. i \in dest..(dest + n - 1) /\ i \notin D(k - 1)
        <5>1. i \in Int /\ a <= i /\ i < y
          BY <2>3
        <5> HIDE DEF D
        <5> QED BY <2>3, <5>1
      <4>2. i \in T /\ i \in Addr /\ View(s)[i] = Erased
        BY <4>1 DEF Writable, Closed
      <4> QED BY <2>2, <2>5, <4>1, <4>2, Zenon DEF Sets
    <3>3. x.mgr.active = r /\ Safe(x, T)
      BY <2>2, Zenon DEF Sets, Stays
    <3>4. Sets(x, t, T, a..(a + z - 1), v) /\ Stays(x, t, r) /\ (Clean(t) => t.ok)
      BY <2>3, <3>2, <3>3, PutStep DEF t
    <3>5. Runs(s, x) /\ Runs(x, t)
      BY <2>2, <3>4, Zenon DEF Sets
    <3>6. Stays(s, t, r)
      BY <2>2, <3>4, <3>5, StaysOn
    <3>7. Sets(s, t, T, D(k), v)
      <4>1. Joins(D(k - 1), a..(a + z - 1), D(k))
        <5>1. Addr \subseteq Nat
          BY AddrNat
        <5> HIDE DEF D
        <5> QED BY <2>3, <5>1 DEF Joins
      <4> HIDE DEF D
      <4>2. Follows(x, t)
        BY <2>5 DEF Follows
      <4> QED BY <2>2, <3>4, <4>1, <4>2, SetsOn, Zenon
    <3>8. t \in State
      BY <3>5, RunsOn, Zenon
    <3> HIDE DEF D
    <3> QED BY <2>1, <3>1, <3>4, <3>6, <3>7, <3>8
  <2> QED BY <2>4, <2>5
<1>6. KeepsTo(G, c, State, J)
  <2> SUFFICES ASSUME NEW k \in 1..c, NEW x \in State, <<k - 1, x>> \in J
               PROVE  G[<<k, x>>] \in State /\ <<k, G[<<k, x>>]>> \in J
    BY Zenon DEF KeepsTo
  <2> HIDE DEF J, B
  <2>1. G[<<k, x>>] = B(k, x)
    OBVIOUS
  <2> HIDE DEF G
  <2> QED BY <1>5, <2>1, Zenon
<1>7. <<c, h[c]>> \in J
  <2> HIDE DEF J, B
  <2>1. PICK g : IsRun(g, c, s, G, J) /\ \A k \in 0..c : g[k] \in State
    <3> HIDE DEF G
    <3> QED BY <1>2, <1>4, <1>6, LoopRuns
  <2>2. g = [k \in 0..c |-> IF k = 0 THEN s ELSE B(k, g[k - 1])]
    <3> SUFFICES ASSUME NEW k \in 0..c, k # 0 PROVE G[<<k, g[k - 1]>>] = B(k, g[k - 1])
      BY <2>1, Zenon DEF IsRun
    <3>1. k \in 1..c /\ g[k - 1] \in State
      BY <1>2, <2>1
    <3> QED BY <3>1
  <2> HIDE DEF G
  <2>3. h = [k \in 0..c |-> IF k = 0 THEN s ELSE B(k, h[k - 1])]
    BY <2>2, Zenon DEF h, B
  <2>4. \A k \in 1..c : h[k] = B(k, h[k - 1])
    <3>1. \A k \in 1..c : k \in 0..c /\ k # 0
      BY <1>2
    <3> QED BY <2>3, <3>1, Zenon
  <2>5. h[0] = s
    <3>1. 0 \in 0..c
      BY <1>2
    <3> QED BY <2>3, <3>1, Zenon
  <2>6. \A k \in 1..c : <<k - 1, h[k - 1]>> \in J => <<k, h[k]>> \in J
    <3> SUFFICES ASSUME NEW k \in 1..c, <<k - 1, h[k - 1]>> \in J PROVE <<k, h[k]>> \in J
      OBVIOUS
    <3>1. h[k - 1] \in State
      BY DEF J
    <3> QED BY <1>5, <2>4, <3>1, Zenon
  <2> QED BY <1>2, <1>4, <2>5, <2>6, Invariant, Zenon
<1>8. D(c) = dest..(dest + n - 1)
  BY <1>2
<1> HIDE DEF D
<1>9. P(c, h[c])
  BY <1>7
<1> QED BY <1>1, <1>8, <1>9, Zenon

-----------------------------------------------------------------------------
(* The operations of the manager.                                          *)

\* What an operation of the manager does, from a state where all is in order
\* or not
Drops(s, t, T, cells, v) ==
  /\ Sets(s, t, T, cells, v)
  /\ Clean(t) => t.ok
  /\ Clean(t) /\ Linked(s) => Linked(t)

(* Requests of some cells and then of others. *)
LEMMA DropsOn ==
  ASSUME NEW s \in State, NEW x, NEW t, NEW T, NEW C, NEW D, NEW E, NEW v,
         Drops(s, x, T, C, v), Drops(x, t, T, D, v), Follows(x, t),
         Joins(C, D, E)
  PROVE  Drops(s, t, T, E, v)
<1>1. Sets(s, t, T, E, v)
  BY SetsOn, Zenon DEF Drops
<1>2. x \in State /\ Runs(x, t)
  BY RunsOn, Zenon DEF Drops, Sets
<1>3. Clean(t) => Clean(x)
  BY <1>2, RunsOn, Zenon
<1> QED BY <1>1, <1>3, Zenon DEF Drops

(* A request that failed promises nothing of its cells. *)
LEMMA DropsFailed ==
  ASSUME NEW s, NEW t, NEW T, NEW C, NEW D, NEW v, Drops(s, t, T, C, v), ~t.ok
  PROVE  Drops(s, t, T, D, v)
BY SetsFailed, Zenon DEF Drops

(* A request without cells. *)
LEMMA DropsNone ==
  ASSUME NEW s \in State, NEW T, Safe(s, T), NEW C, \A a \in Addr : a \notin C, NEW v
  PROVE  Drops(s, Ok(s), T, C, v) /\ Ok(s) \in State /\ Ok(s).ok /\ Ok(s).mgr = s.mgr
<1> DEFINE t == Ok(s)
<1>1. Runs(s, t) /\ t.ok /\ t.dev = s.dev /\ t.mgr = s.mgr
  BY Okay
<1> HIDE DEF t
<1>2. SameData(s, t) /\ (Linked(s) => Linked(t))
  BY <1>1, Zenon DEF SameData, Linked, Agrees, Matched
<1>3. Settles(s, t, T)
  BY <1>1, <1>2, SettlesSame
<1>4. Sets(s, t, T, C, v)
  BY <1>3, SettlesSets
<1> QED BY <1>1, <1>2, <1>4, RunsOn, Zenon DEF Drops, t

\* One turn of the loop of write(): the part of the request in one region
LEMMA WriteTurn ==
  ASSUME NEW s \in State, NEW r \in Region, NEW T, Closed(T), Safe(s, T),
         NEW d \in Nat, NEW e \in Nat, d < e, NEW v \in Byte,
         Writable(s, T, d..(e - 1))
  PROVE  Drops(s, Then(select(s, r, "Write"), LAMBDA t : buffer_write(t, r, d, e - d, v)),
               T, d..(e - 1), v)
<1> DEFINE f == select(s, r, "Write")
           t == buffer_write(f, r, d, e - d, v)
           u == Then(f, LAMBDA x : buffer_write(x, r, d, e - d, v))
<1>1. /\ Settles(s, f, T)
      /\ f.ok => f.mgr.active = r
      /\ Clean(f) => f.ok
      /\ Clean(f) /\ Linked(s) => Linked(f) /\ f.mgr.current[r] = "Write"
  <2>1. "Write" \in {"Erase", "Write"}
    OBVIOUS
  <2> QED BY <2>1, SelectStep
<1>2. f \in State /\ Runs(s, f) /\ Safe(f, T)
  BY <1>1, RunsOn, Zenon DEF Settles
<1>3. CASE ~f.ok
  <2>1. u = f
    BY <1>3, Zenon DEF Then
  <2>2. Sets(s, f, T, {}, v)
    BY <1>1, SettlesSets
  <2>3. Sets(s, f, T, d..(e - 1), v)
    BY <1>3, <2>2, SetsFailed
  <2> QED BY <1>1, <2>1, <2>3, Zenon DEF Drops
<1>4. CASE f.ok
  <2>1. u = t
    BY <1>4, Zenon DEF Then
  <2>2. e - d \in Nat \ {0} /\ d + (e - d) = e
    OBVIOUS
  <2>3. View(f) = View(s)
    BY <1>1, <1>4, Zenon DEF Settles
  <2>4. Writable(f, T, d..(d + (e - d) - 1))
    BY <2>2, <2>3 DEF Writable
  <2> HIDE DEF f
  <2>5. /\ Sets(f, t, T, d..(d + (e - d) - 1), v) /\ Stays(f, t, r)
        /\ Clean(t) => t.ok
    BY <1>1, <1>2, <1>4, <2>2, <2>4, BufferWriteStep
  <2> HIDE DEF t, u
  <2>6. Sets(f, t, T, d..(e - 1), v)
    BY <2>2, <2>5
  <2>7. Sets(s, f, T, {}, v)
    BY <1>1, SettlesSets
  <2>8. Sets(s, t, T, d..(e - 1), v)
    <3>1. Joins({}, d..(e - 1), d..(e - 1))
      BY DEF Joins
    <3>2. Follows(f, t)
      BY <1>4 DEF Follows
    <3> QED BY <2>6, <2>7, <3>1, <3>2, SetsOn, Zenon
  <2>9. Clean(t) => Clean(f)
    BY <1>2, <2>6, RunsOn, Zenon DEF Sets
  <2>10. Drops(s, t, T, d..(e - 1), v)
    BY <1>1, <2>5, <2>8, <2>9, Zenon DEF Drops, Stays
  <2> QED BY <2>1, <2>10, Zenon DEF u, f
<1> QED BY <1>3, <1>4

(* write() of the manager: GDB sees the bytes, whatever regions they lie in, or an error. *)
LEMMA WriteStep ==
  ASSUME NEW s \in State, NEW T, Closed(T), Safe(s, T),
         NEW dest \in Nat, NEW n \in Nat \ {0}, NEW v \in Byte,
         Writable(s, T, dest..(dest + n - 1))
  PROVE  Drops(s, write(s, dest, n, v), T, dest..(dest + n - 1), v)
<1> DEFINE next(p) ==
             LET r   == RegionOf(p.dest)
                 end == Min({dest + n, End(r)})
             IN  [s    |-> Then(select(p.s, r, "Write"),
                                LAMBDA t : buffer_write(t, r, p.dest, end - p.dest, v)),
                  dest |-> end]
           more(p) ==
             IF p.dest = dest + n \/ ~p.s.ok THEN p
             ELSE IF p.dest \notin Addr THEN [p EXCEPT !.s = Fail(@)]
             ELSE next(p)
           S == [s : State, dest : Nat]
           b == [s |-> Ok(s), dest |-> dest]
           G == [q \in (1..n) \X S |-> more(q[2])]
           h == CHOOSE h : h = [k \in 0..n |-> IF k = 0 THEN b ELSE more(h[k - 1])]
           D(d) == dest..(d - 1)
           P(k, p) == /\ p.dest \in Nat /\ dest <= p.dest /\ p.dest <= dest + n
                      /\ p.s.ok => (dest + k <= p.dest)
                      /\ Drops(s, p.s, T, D(p.dest), v)
           J == {q \in (0..n) \X S : P(q[1], q[2])}
<1>1. write(s, dest, n, v) = h[n].s
  BY Zenon DEF write
<1> HIDE DEF h
<1>2. b \in S /\ <<0, b>> \in J
  <2>1. \A a \in Addr : a \notin D(dest)
    OBVIOUS
  <2>2. Drops(s, Ok(s), T, D(dest), v) /\ Ok(s) \in State
    BY <2>1, DropsNone
  <2>3. b.dest = dest /\ b.s = Ok(s) /\ b \in S
    BY <2>2
  <2> HIDE DEF b, D
  <2>4. 0 \in 0..n /\ dest + 0 = dest /\ dest <= dest + n
    OBVIOUS
  <2>5. P(0, b)
    BY <2>2, <2>3, <2>4
  <2> HIDE DEF P
  <2> QED BY <2>3, <2>4, <2>5
<1> HIDE DEF b
<1>3. ASSUME NEW k \in 1..n, NEW p \in S, <<k - 1, p>> \in J
      PROVE  more(p) \in S /\ <<k, more(p)>> \in J
  <2> DEFINE d == p.dest
             r == RegionOf(d)
             e == Min({dest + n, End(r)})
             t == Then(select(p.s, r, "Write"), LAMBDA x : buffer_write(x, r, d, e - d, v))
  <2>1. k \in 0..n
    OBVIOUS
  <2>2. /\ d \in Nat /\ dest <= d /\ d <= dest + n /\ p.s \in State
        /\ p.s.ok => (dest + (k - 1) <= d)
        /\ Drops(s, p.s, T, D(d), v)
    <3>1. P(k - 1, p) /\ p.s \in State
      BY <1>3
    <3> HIDE DEF D
    <3> QED BY <3>1
  <2>3. CASE d = dest + n \/ ~p.s.ok
    <3>1. more(p) = p
      BY <2>3, Zenon
    <3>2. p.s.ok => (dest + k <= d)
      BY <2>2, <2>3
    <3>3. P(k, p)
      BY <2>2, <3>2, Zenon
    <3> HIDE DEF P, more
    <3> QED BY <2>1, <3>1, <3>3
  <2>4. CASE d # dest + n /\ p.s.ok
    <3>1. d < dest + n
      BY <2>2, <2>4
    <3>2. \A a \in d..(dest + n - 1) : a \in T /\ a \in Addr /\ View(p.s)[a] = Erased
      <4> SUFFICES ASSUME NEW a \in d..(dest + n - 1)
                   PROVE  a \in T /\ a \in Addr /\ View(p.s)[a] = Erased
        OBVIOUS
      <4>1. a \in dest..(dest + n - 1) /\ a \notin D(d)
        BY <2>2
      <4>2. a \in T /\ a \in Addr /\ View(s)[a] = Erased
        BY <4>1 DEF Writable, Closed
      <4> HIDE DEF D
      <4> QED BY <2>2, <2>4, <4>1, <4>2, Zenon DEF Drops, Sets
    <3>3. d \in Addr
      BY <2>2, <3>1, <3>2
    <3>4. r \in Region /\ d \in Cells(r)
      BY <3>3, RegionOfAddr
    <3> HIDE DEF r, d
    <3>5. e \in Nat /\ d < e /\ e <= dest + n
      <4>1. r.start \in Nat /\ r.length \in Nat
        BY <3>4, RegionFacts
      <4>2. End(r) \in Int /\ d < End(r)
        BY <3>4, <4>1, <2>2 DEF Cells, End
      <4>3. e = IF dest + n <= End(r) THEN dest + n ELSE End(r)
        BY <4>2, Lesser
      <4> QED BY <2>2, <3>1, <4>2, <4>3
    <3>6. more(p) = [s |-> t, dest |-> e]
      BY <2>4, <3>3, Zenon DEF d, r
    <3> HIDE DEF e, more
    <3>7. Writable(p.s, T, d..(e - 1))
      BY <2>2, <3>2, <3>5 DEF Writable
    <3>8. Drops(p.s, t, T, d..(e - 1), v)
      <4>1. Safe(p.s, T)
        BY <2>2, Zenon DEF Drops, Sets
      <4> QED BY <2>2, <3>4, <3>5, <3>7, <4>1, WriteTurn
    <3> HIDE DEF t
    <3>9. Drops(s, t, T, D(e), v)
      <4>1. Joins(D(d), d..(e - 1), D(e))
        BY <2>2, <3>5, AddrNat DEF Joins
      <4> HIDE DEF D
      <4>2. Follows(p.s, t)
        BY <2>4 DEF Follows
      <4> QED BY <2>2, <3>8, <4>1, <4>2, DropsOn, Zenon
    <3>10. t \in State
      BY <3>9, RunsOn, Zenon DEF Drops, Sets
    <3>11. dest + k <= e
      BY <2>2, <2>4, <3>5
    <3>12. P(k, more(p)) /\ more(p) \in S
      <4> HIDE DEF D
      <4>1. more(p).s = t /\ more(p).dest = e
        BY <3>6
      <4>2. dest <= e
        BY <2>2, <3>5
      <4> QED BY <3>5, <3>6, <3>9, <3>10, <3>11, <4>1, <4>2
    <3> HIDE DEF P
    <3> QED BY <2>1, <3>12
  <2> QED BY <2>3, <2>4
<1>4. KeepsTo(G, n, S, J)
  <2> SUFFICES ASSUME NEW k \in 1..n, NEW p \in S, <<k - 1, p>> \in J
               PROVE  G[<<k, p>>] \in S /\ <<k, G[<<k, p>>]>> \in J
    BY Zenon DEF KeepsTo
  <2> HIDE DEF J, more
  <2>1. G[<<k, p>>] = more(p)
    OBVIOUS
  <2> HIDE DEF G
  <2> QED BY <1>3, <2>1, Zenon
<1>5. <<n, h[n]>> \in J
  <2> HIDE DEF J, more
  <2>1. PICK g : IsRun(g, n, b, G, J) /\ \A k \in 0..n : g[k] \in S
    <3> HIDE DEF G, S
    <3>1. n \in Nat
      OBVIOUS
    <3> QED BY <1>2, <1>4, <3>1, LoopRuns
  <2>2. g = [k \in 0..n |-> IF k = 0 THEN b ELSE more(g[k - 1])]
    <3> SUFFICES ASSUME NEW k \in 0..n, k # 0 PROVE G[<<k, g[k - 1]>>] = more(g[k - 1])
      BY <2>1, Zenon DEF IsRun
    <3>1. k \in 1..n /\ g[k - 1] \in S
      BY <2>1
    <3> HIDE DEF S
    <3> QED BY <3>1
  <2> HIDE DEF G
  <2>3. h = [k \in 0..n |-> IF k = 0 THEN b ELSE more(h[k - 1])]
    BY <2>2, Zenon DEF h
  <2>4. \A k \in 1..n : h[k] = more(h[k - 1])
    <3>1. \A k \in 1..n : k \in 0..n /\ k # 0
      OBVIOUS
    <3> QED BY <2>3, <3>1, Zenon
  <2>5. h[0] = b
    <3>1. 0 \in 0..n
      OBVIOUS
    <3> QED BY <2>3, <3>1, Zenon
  <2>6. \A k \in 1..n : <<k - 1, h[k - 1]>> \in J => <<k, h[k]>> \in J
    <3> SUFFICES ASSUME NEW k \in 1..n, <<k - 1, h[k - 1]>> \in J PROVE <<k, h[k]>> \in J
      OBVIOUS
    <3>1. h[k - 1] \in S
      <4> HIDE DEF S
      <4> QED BY DEF J
    <3> QED BY <1>3, <2>4, <3>1, Zenon
  <2>7. n \in Nat
    OBVIOUS
  <2> QED BY <1>2, <2>5, <2>6, <2>7, Invariant, Zenon
<1>6. P(n, h[n])
  BY <1>5
<1> DEFINE d == h[n].dest
           t == h[n].s
<1>7. /\ Drops(s, t, T, D(d), v)
      /\ t.ok => d = dest + n
  BY <1>6
<1> HIDE DEF t, d
<1>8. Drops(s, t, T, D(dest + n), v)
  <2>1. CASE t.ok
    BY <1>7, <2>1, Zenon
  <2>2. CASE ~t.ok
    <3> HIDE DEF D
    <3> QED BY <1>7, <2>2, DropsFailed
  <2> QED BY <2>1, <2>2
<1>9. D(dest + n) = dest..(dest + n - 1)
  OBVIOUS
<1> HIDE DEF D
<1> QED BY <1>1, <1>8, <1>9, Zenon DEF t

\* The erase callback on a region that is not held back for
LEMMA EraseSets ==
  ASSUME NEW s \in State, NEW r \in Region, NEW T, s.mgr.buffer = EmptyBuffer,
         NEW cells, \A a \in Addr : a \in cells => a \in T
  PROVE  LET t == erase_block(s, r, cells)
         IN  /\ Sets(s, t, T, cells, Erased) /\ t.mgr = s.mgr
             /\ Clean(t) => t.ok
             /\ Agrees(s) /\ s.mgr.current[r] = "Erase" => Agrees(t)
<1> DEFINE t == erase_block(s, r, cells)
<1>1. Erases(s, t, r, cells)
  BY EraseBlockStep
<1> HIDE DEF t
<1>2. Runs(s, t) /\ t.mgr = s.mgr /\ (Clean(t) => t.ok)
  BY <1>1, Zenon DEF Erases, Drives
<1>3. /\ t.dev.operation = s.dev.operation /\ t.dev.prepared = s.dev.prepared
      /\ \A a \in Addr \ cells : t.dev.flash[a] = s.dev.flash[a]
      /\ t.dev.unprepared = (s.dev.unprepared \/ s.dev.prepared[r] # "Erase")
      /\ t.ok => \A a \in Addr : a \in cells => t.dev.flash[a] = Erased
  BY <1>1, Zenon DEF Erases, Drives
<1>4. t \in State
  BY <1>2, RunsOn, Zenon
<1>5. View(t) = t.dev.flash /\ View(s) = s.dev.flash
  <2>1. t.dev.flash \in [Addr -> Cell] /\ s.dev.flash \in [Addr -> Cell]
    BY <1>4 DEF State, Device
  <2> QED BY <1>2, <2>1, SeenEmpty DEF View
<1>6. Sets(s, t, T, cells, Erased)
  <2>1. Spares(s, t, T)
    BY <1>3, Zenon DEF Spares
  <2>2. Safe(t, T)
    BY <1>2, Zenon DEF Safe
  <2>3. ASSUME t.ok, NEW a \in Addr
        PROVE  View(t)[a] = IF a \in cells THEN Erased ELSE View(s)[a]
    BY <1>3, <1>5, <2>3, Zenon
  <2> QED BY <1>2, <2>1, <2>2, <2>3, Zenon DEF Sets
<1>7. ASSUME Agrees(s), s.mgr.current[r] = "Erase" PROVE Agrees(t)
  <2>1. s.dev.prepared[r] = "Erase" /\ ~s.dev.unprepared
    BY <1>7, Zenon DEF Agrees, Matched
  <2>2. ~t.dev.unprepared
    BY <1>3, <2>1
  <2> QED BY <1>2, <1>3, <1>7, <2>2, Zenon DEF Agrees, Matched
<1> QED BY <1>2, <1>6, <1>7 DEF t

\* One turn of the loop of erase()
EraseIn(s, r, cells) == Then(select(s, r, "Erase"), LAMBDA x : erase_block(x, r, cells))

(* One turn of erase(): a region selected and a block erased. *)
LEMMA EraseTurn ==
  ASSUME NEW s \in State, NEW r \in Region, NEW T, Closed(T), s.mgr.buffer = EmptyBuffer,
         NEW cells, cells \subseteq T
  PROVE  LET t == EraseIn(s, r, cells)
         IN  Drops(s, t, T, cells, Erased) /\ t.mgr.buffer = EmptyBuffer
<1> DEFINE f == select(s, r, "Erase")
           t == erase_block(f, r, cells)
           u == EraseIn(s, r, cells)
<1>0. ~is_dirty(s.mgr.buffer) /\ Safe(s, T)
  BY Buffers, Zenon DEF Safe
<1>1. /\ Settles(s, f, T)
      /\ f.mgr.buffer = EmptyBuffer
      /\ Clean(f) => f.ok
      /\ Clean(f) /\ Linked(s) => Linked(f) /\ f.mgr.current[r] = "Erase"
      /\ f.ok => f.mgr.active = r
  <2>1. "Erase" \in {"Erase", "Write"}
    OBVIOUS
  <2>2. /\ Settles(s, f, T)
        /\ f.mgr.buffer \in {EmptyBuffer, s.mgr.buffer}
        /\ Clean(f) => f.ok
        /\ f.ok => f.mgr.active = r
        /\ (Clean(f) /\ Linked(s) /\ (is_dirty(s.mgr.buffer) => "Erase" = "Write"))
             => Linked(f) /\ f.mgr.current[r] = "Erase"
    BY <1>0, <2>1, SelectStep
  <2> HIDE DEF f
  <2> QED BY <1>0, <2>2, Zenon
<1>2. f \in State /\ Runs(s, f) /\ Sets(s, f, T, {}, Erased)
  <2>1. f \in State /\ Runs(s, f)
    BY <1>1, RunsOn, Zenon DEF Settles
  <2> QED BY <1>1, <2>1, SettlesSets
<1>3. CASE ~f.ok
  <2>1. u = f
    BY <1>3, Zenon DEF Then, EraseIn
  <2> HIDE DEF u, f
  <2>2. Sets(s, f, T, cells, Erased)
    BY <1>2, <1>3, SetsFailed
  <2>3. Drops(s, f, T, cells, Erased)
    BY <1>1, <2>2, Zenon DEF Drops
  <2> QED BY <1>1, <2>1, <2>3, Zenon DEF u, f
<1>4. CASE f.ok
  <2>1. u = t
    BY <1>4, Zenon DEF Then, EraseIn
  <2> HIDE DEF f
  <2>2. /\ Sets(f, t, T, cells, Erased) /\ t.mgr = f.mgr
        /\ Clean(t) => t.ok
        /\ Agrees(f) /\ f.mgr.current[r] = "Erase" => Agrees(t)
    BY <1>1, <1>2, EraseSets
  <2> HIDE DEF t, u
  <2>3. Sets(s, t, T, cells, Erased)
    <3>1. Joins({}, cells, cells)
      BY DEF Joins
    <3>2. Follows(f, t)
      BY <1>4 DEF Follows
    <3> QED BY <1>2, <2>2, <3>1, <3>2, SetsOn, Zenon
  <2>4. Clean(t) => Clean(f)
    BY <1>2, <2>2, RunsOn, Zenon DEF Sets
  <2>5. Linked(f) /\ f.mgr.current[r] = "Erase" => Linked(t)
    BY <2>2, Zenon DEF Linked
  <2>6. Drops(s, t, T, cells, Erased)
    BY <1>1, <2>2, <2>3, <2>4, <2>5, Zenon DEF Drops
  <2> QED BY <1>1, <2>1, <2>2, <2>6, Zenon DEF u, f
<1> QED BY <1>3, <1>4

\* The block that is erased next is a block, and no longer than what is left
LEMMA BestBlock ==
  ASSUME NEW start \in Nat, NEW padded \in Nat
  PROVE  LET n == best_erase_block(start, padded)
         IN  n \in Nat \ {0} /\ n % BLOCK = 0 /\ BLOCK <= n /\ (n = BLOCK \/ n <= padded)
<1> DEFINE X == {n \in EXTRA_ERASE_SIZES : start % n = 0 /\ padded >= n /\ n > BLOCK}
           I == {BLOCK} \cup X
           m == IF BLOCK <= padded THEN padded ELSE BLOCK
           n == best_erase_block(start, padded)
<1>1. BLOCK \in Nat \ {0} /\ EXTRA_ERASE_SIZES \subseteq Nat \ {0}
  BY Constants
<1>2. \A x \in X : x % BLOCK = 0
  BY FlashAssumption DEF FlashAssumption
<1>3. m \in Nat /\ I \in SUBSET (0..m) /\ I # {}
  <2>1. m \in Nat /\ BLOCK <= m /\ padded <= m
    BY <1>1
  <2>2. \A x \in X : x \in Nat /\ x <= padded
    BY <1>1
  <2>3. BLOCK \in I /\ \A x \in I : x = BLOCK \/ x \in X
    OBVIOUS
  <2> HIDE DEF m, X, I
  <2>4. \A x \in I : x \in 0..m
    BY <1>1, <2>1, <2>2, <2>3
  <2> QED BY <2>1, <2>3, <2>4
<1>4. Max(I) \in I /\ \A x \in I : x <= Max(I)
  <2> HIDE DEF I, m
  <2> QED BY <1>3, Largest
<1>5. n = Max(I)
  BY Zenon DEF best_erase_block
<1>6. BLOCK % BLOCK = 0
  <2>1. BLOCK * 1 = BLOCK /\ 1 \in Int
    BY <1>1
  <2> QED BY <1>1, <2>1, Multiple
<1> HIDE DEF n
<1>7. n \in I /\ BLOCK <= n
  BY <1>4, <1>5
<1> QED BY <1>1, <1>2, <1>6, <1>7 DEF n

\* An erase covers whole blocks
Low(a)         == a - (a % BLOCK)
Top(addr, len) == Low(addr + len - 1) + BLOCK

(* The cells of the blocks an erase covers, from the first block to the last. *)
LEMMA CoveredCells ==
  ASSUME NEW addr \in Nat, NEW len \in Nat \ {0}
  PROVE  /\ Covered(addr, len) = Low(addr)..(Top(addr, len) - 1)
         /\ Low(addr) \in Nat /\ Top(addr, len) \in Nat
         /\ Low(addr) <= addr /\ addr + len <= Top(addr, len)
         /\ Top(addr, len) % BLOCK = 0
         /\ \A m \in Int : m % BLOCK = 0 /\ m <= addr + len - 1 => m + BLOCK <= Top(addr, len)
         /\ \A m \in Int : m % BLOCK = 0 /\ addr + len - 1 < m => Top(addr, len) <= m
<1> DEFINE x == addr + len - 1
           f == x - (x % BLOCK)
           y == x % BLOCK
<1>1. BLOCK \in Nat \ {0} /\ x \in Nat
  BY Constants
<1>2. Low(addr) \in Nat /\ Low(addr) <= addr
  BY <1>1, FloorNat DEF Low
<1>3. f \in Nat /\ f % BLOCK = 0 /\ f <= x /\ x < f + BLOCK /\ y \in Int
  <2>1. f \in Nat /\ f % BLOCK = 0 /\ f <= x /\ x < f + BLOCK
    BY <1>1, FloorNat
  <2>2. y \in Int
    BY <1>1
  <2> QED BY <2>1, <2>2
<1>4. \A m \in Int : (m % BLOCK = 0 /\ m <= x => m <= f) /\ (m % BLOCK = 0 /\ x < m => f + BLOCK <= m)
  <2>1. x \in Int
    BY <1>1
  <2> HIDE DEF x
  <2> QED BY <1>1, <2>1, Floor
<1>5. Top(addr, len) = f + BLOCK /\ f = x - y
  BY Zenon DEF Top, Low
<1>6. Covered(addr, len) = Low(addr)..(x + (BLOCK - 1 - y))
  BY Zenon DEF Covered, Low
<1>7. addr + len = x + 1
  OBVIOUS
<1>8. (f + BLOCK) % BLOCK = 0
  <2>1. BLOCK * 1 = BLOCK /\ 1 \in Int
    BY <1>1
  <2>2. BLOCK % BLOCK = 0
    BY <1>1, <2>1, Multiple
  <2>3. f \in Int /\ BLOCK \in Int
    BY <1>1, <1>3
  <2> HIDE DEF f
  <2> QED BY <1>1, <1>3, <2>2, <2>3, SumOfMultiples
<1> HIDE DEF f, y
<1>9. x + (BLOCK - 1 - y) = Top(addr, len) - 1
  BY <1>1, <1>3, <1>5
<1>10. /\ Covered(addr, len) = Low(addr)..(Top(addr, len) - 1)
       /\ Top(addr, len) \in Nat /\ addr + len <= Top(addr, len) /\ Top(addr, len) % BLOCK = 0
  BY <1>1, <1>3, <1>5, <1>6, <1>7, <1>8, <1>9
<1>11. ASSUME NEW m \in Int, m % BLOCK = 0
       PROVE  /\ m <= addr + len - 1 => m + BLOCK <= Top(addr, len)
              /\ addr + len - 1 < m => Top(addr, len) <= m
  <2>1. (m <= x => m <= f) /\ (x < m => f + BLOCK <= m)
    BY <1>4, <1>11, Zenon
  <2> QED BY <1>1, <1>3, <1>5, <2>1
<1> QED BY <1>2, <1>10, <1>11

(* Where a turn of erase() ends, and what it leaves of the request. *)
TurnEnd(d, l)  == Low(d) + best_erase_block(Low(d), l + d - Low(d))
TurnLeft(d, l) == l - Min({TurnEnd(d, l) - d, l})

\* The block of one turn, when the request has reached d and l is left of it
LEMMA EraseLayout ==
  ASSUME NEW addr \in Nat, NEW len \in Nat \ {0}, NEW d \in Nat, NEW l \in Nat \ {0},
         addr <= d, d + l = addr + len
  PROVE  LET start == Low(d)
             end == TurnEnd(d, l)
             left == TurnLeft(d, l)
         IN  /\ end \in Nat /\ start \in Nat /\ start <= d /\ d < end /\ end <= Top(addr, len)
             /\ end % BLOCK = 0 /\ left \in Nat /\ left < l
             /\ left # 0 => end + left = addr + len
             /\ left = 0 => end = Top(addr, len)
             /\ d % BLOCK = 0 => start = d
<1> DEFINE start == d - (d % BLOCK)
           n == best_erase_block(start, l + d - start)
           end == start + n
           left == l - Min({end - d, l})
           top == Top(addr, len)
<1>1. BLOCK \in Nat \ {0} /\ (d % BLOCK) \in Int
  BY Constants
<1>2. start \in Nat /\ start % BLOCK = 0 /\ start <= d /\ d < start + BLOCK
  BY <1>1, FloorNat
<1>3. d % BLOCK = 0 => start = d
  BY <1>1
<1> HIDE DEF start
<1>4. n \in Nat \ {0} /\ n % BLOCK = 0 /\ BLOCK <= n /\ (n = BLOCK \/ n <= l + d - start)
  <2>1. l + d - start \in Nat
    BY <1>2
  <2> QED BY <1>2, <2>1, BestBlock
<1> HIDE DEF n
<1>5. end \in Nat /\ d < end /\ end % BLOCK = 0
  <2>1. end \in Nat /\ d < end
    BY <1>1, <1>2, <1>4
  <2>2. start \in Int /\ n \in Int
    BY <1>2, <1>4
  <2>3. (start + n) % BLOCK = 0
    BY <1>1, <1>2, <1>4, <2>2, SumOfMultiples
  <2> QED BY <2>1, <2>3
<1>6. /\ top \in Nat /\ addr + len <= top
      /\ start <= addr + len - 1 => start + BLOCK <= top
      /\ addr + len - 1 < end => top <= end
  <2>1. start \in Int /\ end \in Int
    BY <1>2, <1>5
  <2> HIDE DEF end
  <2> QED BY <1>2, <1>5, <2>1, CoveredCells
<1> HIDE DEF top
<1>7. end <= top
  <2>1. CASE n = BLOCK
    BY <1>1, <1>2, <1>6, <2>1
  <2>2. CASE n <= l + d - start
    BY <1>1, <1>2, <1>4, <1>6, <2>2
  <2> QED BY <1>4, <2>1, <2>2
<1>8. Min({end - d, l}) = IF end - d <= l THEN end - d ELSE l
  <2>1. end - d \in Int /\ l \in Int
    BY <1>5
  <2> HIDE DEF end
  <2> QED BY <2>1, Lesser
<1>9. left \in Nat /\ left < l /\ (left # 0 => end + left = addr + len) /\ (left = 0 => d + l <= end)
  <2> HIDE DEF end
  <2> QED BY <1>5, <1>8
<1> HIDE DEF left
<1>10. left = 0 => end = top
  <2> HIDE DEF end
  <2> QED BY <1>5, <1>6, <1>7, <1>9
<1>11. start = Low(d) /\ end = TurnEnd(d, l) /\ left = TurnLeft(d, l)
  BY Zenon DEF start, n, left, Low, TurnEnd, TurnLeft
<1> HIDE DEF end
<1> QED BY <1>2, <1>3, <1>5, <1>7, <1>9, <1>10, <1>11, Zenon DEF top

(* erase(): the blocks are erased, no cell of another block with them, or an error. *)
LEMMA EraseStep ==
  ASSUME NEW s \in State, NEW T, Closed(T), s.mgr.buffer = EmptyBuffer,
         NEW addr \in Nat, NEW len \in Nat \ {0},
         Covered(addr, len) \subseteq T
  PROVE  Drops(s, erase(s, addr, len), T, Covered(addr, len), Erased)
<1> DEFINE next(p) ==
             LET r     == RegionOf(p.addr)
                 start == p.addr - (p.addr % BLOCK)
                 end   == start + best_erase_block(start, p.len + p.addr - start)
             IN  [s    |-> Then(select(p.s, r, "Erase"),
                                LAMBDA t : erase_block(t, r, start..(end - 1))),
                  addr |-> end,
                  len  |-> p.len - Min({end - p.addr, p.len})]
           more(p) ==
             IF p.len = 0 \/ ~p.s.ok THEN p
             ELSE IF p.addr \notin Addr THEN [p EXCEPT !.s = Fail(@)]
             ELSE next(p)
           S == [s : State, addr : Nat, len : Nat]
           b == [s |-> Ok(s), addr |-> addr, len |-> len]
           G == [q \in (1..len) \X S |-> more(q[2])]
           h == CHOOSE h : h = [k \in 0..len |-> IF k = 0 THEN b ELSE more(h[k - 1])]
           low == Low(addr)
           top == Top(addr, len)
           D(k, d) == IF k = 0 THEN {} ELSE low..(d - 1)
           P(k, p) == /\ p.addr \in Nat /\ p.len \in Nat /\ addr <= p.addr
                      /\ k = 0 => p.addr = addr /\ p.len = len
                      /\ k # 0 /\ p.s.ok => p.addr % BLOCK = 0
                      /\ p.len # 0 => p.addr + p.len = addr + len
                      /\ p.len = 0 => p.addr = top
                      /\ p.s.ok => p.len <= len - k
                      /\ p.s.mgr.buffer = EmptyBuffer
                      /\ Drops(s, p.s, T, D(k, p.addr), Erased)
           J == {q \in (0..len) \X S : P(q[1], q[2])}
<1>1. erase(s, addr, len) = Then(h[len].s, finish_active)
  BY Zenon DEF erase
<1> HIDE DEF h
<1>2. /\ Covered(addr, len) = low..(top - 1)
      /\ low \in Nat /\ top \in Nat /\ low <= addr /\ addr + len <= top
  BY CoveredCells
<1> HIDE DEF low, top
<1>3. b \in S /\ <<0, b>> \in J
  <2>1. Safe(s, T)
    BY Zenon DEF Safe
  <2>2. Drops(s, Ok(s), T, {}, Erased) /\ Ok(s) \in State /\ Ok(s).mgr = s.mgr
    BY <2>1, DropsNone
  <2>3. b.addr = addr /\ b.len = len /\ b.s = Ok(s) /\ b \in S
    BY <2>2
  <2> HIDE DEF b
  <2>4. D(0, b.addr) = {}
    BY Zenon
  <2> HIDE DEF D
  <2>5. 0 \in 0..len /\ len <= len - 0
    OBVIOUS
  <2>6. P(0, b)
    BY <2>2, <2>3, <2>4, <2>5
  <2> HIDE DEF P
  <2> QED BY <2>3, <2>5, <2>6
<1> HIDE DEF b
<1>4. ASSUME NEW k \in 1..len, NEW p \in S, <<k - 1, p>> \in J
      PROVE  more(p) \in S /\ <<k, more(p)>> \in J
  <2> DEFINE d == p.addr
             l == p.len
             r == RegionOf(d)
             start == Low(d)
             end == TurnEnd(d, l)
             left == TurnLeft(d, l)
             cells == start..(end - 1)
             t == EraseIn(p.s, r, cells)
  <2>1. k \in 0..len /\ k # 0 /\ k - 1 \in Nat /\ k \in Int
    OBVIOUS
  <2>2. /\ d \in Nat /\ l \in Nat /\ addr <= d /\ p.s \in State
        /\ k - 1 = 0 => d = addr /\ l = len
        /\ k - 1 # 0 /\ p.s.ok => d % BLOCK = 0
        /\ l # 0 => d + l = addr + len
        /\ l = 0 => d = top
        /\ p.s.ok => l <= len - (k - 1)
        /\ p.s.mgr.buffer = EmptyBuffer
        /\ Drops(s, p.s, T, D(k - 1, d), Erased)
    <3>1. P(k - 1, p) /\ p.s \in State
      BY <1>4
    <3> HIDE DEF D
    <3> QED BY <3>1
  <2>3. CASE l = 0 \/ ~p.s.ok
    <3>1. more(p) = p
      BY <2>3, Zenon
    <3>2. p.s.ok => l <= len - k
      <4>1. len - k \in Nat
        OBVIOUS
      <4> QED BY <2>3, <4>1
    <3>3. p.s.ok => k - 1 # 0
      BY <2>2, <2>3
    <3>4. Drops(s, p.s, T, D(k, d), Erased)
      <4>1. CASE p.s.ok
        <5>1. D(k, d) = D(k - 1, d)
          BY <2>1, <3>3, <4>1, Zenon
        <5> HIDE DEF D
        <5> QED BY <2>2, <5>1, Zenon
      <4>2. CASE ~p.s.ok
        <5> HIDE DEF D
        <5> QED BY <2>2, <4>2, DropsFailed
      <4> QED BY <4>1, <4>2
    <3> HIDE DEF D
    <3>5. P(k, p)
      BY <2>1, <2>2, <3>2, <3>3, <3>4, Zenon
    <3> HIDE DEF P, more
    <3> QED BY <2>1, <3>1, <3>5
  <2>4. CASE l # 0 /\ p.s.ok
    <3>1. /\ end \in Nat /\ start \in Nat /\ start <= d /\ d < end /\ end <= top
          /\ end % BLOCK = 0 /\ left \in Nat /\ left < l
          /\ left # 0 => end + left = addr + len
          /\ left = 0 => end = top
          /\ d % BLOCK = 0 => start = d
      <4>1. d \in Nat /\ l \in Nat \ {0} /\ addr <= d /\ d + l = addr + len
        BY <2>2, <2>4
      <4> HIDE DEF d, l, more, P
      <4> QED BY <4>1, EraseLayout DEF top
    <3>2. k = 1 => start = low
      BY <2>2 DEF low
    <3>3. more(p) = [s |-> t, addr |-> end, len |-> left] \/ d \notin Addr
      BY <2>4, Zenon DEF EraseIn, TurnEnd, TurnLeft, Low
    <3>4. k # 1 => start = d
      BY <2>1, <2>2, <2>4, <3>1
    <3> HIDE DEF end, left, start, more
    <3>5. low <= start
      BY <1>2, <2>2, <3>1, <3>2, <3>4
    <3>6. cells \subseteq low..(top - 1) /\ d \in low..(top - 1)
      BY <1>2, <2>2, <3>1, <3>5
    <3>7. cells \subseteq T /\ T \subseteq Addr
      BY <1>2, <3>6 DEF Closed
    <3>8. d \in Addr
      BY <1>2, <3>6 DEF Closed
    <3>9. r \in Region
      BY <3>8, RegionOfAddr
    <3> HIDE DEF r
    <3>10. D(k, end) = low..(end - 1) /\ Joins(D(k - 1, d), cells, D(k, end))
      <4>1. D(k, end) = low..(end - 1)
        BY <2>1
      <4>2. CASE k = 1
        <5>1. D(k - 1, d) = {} /\ start = low
          BY <3>2, <4>2
        <5> HIDE DEF D
        <5> QED BY <4>1, <5>1 DEF Joins
      <4>3. CASE k # 1
        <5>1. D(k - 1, d) = low..(d - 1) /\ start = d
          BY <3>4, <4>3
        <5> HIDE DEF D
        <5>2. \A a \in Addr : a \in low..(end - 1) <=> a \in low..(d - 1) \/ a \in d..(end - 1)
          BY <1>2, <2>2, <3>1, <3>5, <5>1, AddrNat
        <5> QED BY <4>1, <5>1, <5>2 DEF Joins
      <4> QED BY <4>1, <4>2, <4>3
    <3> HIDE DEF cells, D, t
    <3>11. Drops(p.s, t, T, cells, Erased) /\ t.mgr.buffer = EmptyBuffer
      <4>1. p.s \in State /\ p.s.mgr.buffer = EmptyBuffer
        BY <2>2
      <4> QED BY <3>7, <3>9, <4>1, EraseTurn DEF t
    <3>12. Drops(s, t, T, D(k, end), Erased)
      <4>1. Follows(p.s, t)
        BY <2>4 DEF Follows
      <4> QED BY <2>2, <3>10, <3>11, <4>1, DropsOn, Zenon
    <3>13. t \in State
      BY <3>12, RunsOn, Zenon DEF Drops, Sets
    <3>14. more(p).s = t /\ more(p).addr = end /\ more(p).len = left /\ more(p) \in S
      BY <3>1, <3>3, <3>8, <3>13
    <3>15. left <= len - k /\ addr <= end
      BY <2>1, <2>2, <2>4, <3>1
    <3>16. P(k, more(p))
      BY <2>1, <3>1, <3>11, <3>12, <3>14, <3>15, Zenon
    <3> HIDE DEF P
    <3> QED BY <2>1, <3>14, <3>16
  <2> HIDE DEF J, more, l
  <2> QED BY <2>3, <2>4
<1>5. KeepsTo(G, len, S, J)
  <2> SUFFICES ASSUME NEW k \in 1..len, NEW p \in S, <<k - 1, p>> \in J
               PROVE  G[<<k, p>>] \in S /\ <<k, G[<<k, p>>]>> \in J
    BY Zenon DEF KeepsTo
  <2> HIDE DEF J, more
  <2>1. G[<<k, p>>] = more(p)
    OBVIOUS
  <2> HIDE DEF G
  <2> QED BY <1>4, <2>1, Zenon
<1>6. <<len, h[len]>> \in J
  <2> HIDE DEF J, more
  <2>1. PICK g : IsRun(g, len, b, G, J) /\ \A k \in 0..len : g[k] \in S
    <3> HIDE DEF G, S
    <3>1. len \in Nat
      OBVIOUS
    <3> QED BY <1>3, <1>5, <3>1, LoopRuns
  <2>2. g = [k \in 0..len |-> IF k = 0 THEN b ELSE more(g[k - 1])]
    <3> SUFFICES ASSUME NEW k \in 0..len, k # 0 PROVE G[<<k, g[k - 1]>>] = more(g[k - 1])
      BY <2>1, Zenon DEF IsRun
    <3>1. k \in 1..len /\ g[k - 1] \in S
      BY <2>1
    <3> HIDE DEF S
    <3> QED BY <3>1
  <2> HIDE DEF G
  <2>3. h = [k \in 0..len |-> IF k = 0 THEN b ELSE more(h[k - 1])]
    BY <2>2, Zenon DEF h
  <2>4. \A k \in 1..len : h[k] = more(h[k - 1])
    <3>1. \A k \in 1..len : k \in 0..len /\ k # 0
      OBVIOUS
    <3> QED BY <2>3, <3>1, Zenon
  <2>5. h[0] = b
    <3>1. 0 \in 0..len
      OBVIOUS
    <3> QED BY <2>3, <3>1, Zenon
  <2>6. \A k \in 1..len : <<k - 1, h[k - 1]>> \in J => <<k, h[k]>> \in J
    <3> SUFFICES ASSUME NEW k \in 1..len, <<k - 1, h[k - 1]>> \in J PROVE <<k, h[k]>> \in J
      OBVIOUS
    <3>1. h[k - 1] \in S
      <4> HIDE DEF S
      <4> QED BY DEF J
    <3> QED BY <1>4, <2>4, <3>1, Zenon
  <2>7. len \in Nat
    OBVIOUS
  <2> QED BY <1>3, <2>5, <2>6, <2>7, Invariant, Zenon
<1> DEFINE d == h[len].addr
           t == h[len].s
           u == finish_active(t)
           e == Then(t, finish_active)
<1>7. /\ Drops(s, t, T, D(len, d), Erased)
      /\ t.ok => d = top
  <2>1. P(len, h[len])
    BY <1>6
  <2> HIDE DEF D
  <2>2. t.ok => h[len].len = 0
    BY <2>1
  <2> QED BY <2>1, <2>2
<1>8. D(len, top) = Covered(addr, len)
  BY <1>2, Zenon
<1> HIDE DEF D, t, d
<1>9. Drops(s, t, T, Covered(addr, len), Erased)
  <2>1. CASE t.ok
    BY <1>7, <1>8, <2>1, Zenon
  <2>2. CASE ~t.ok
    BY <1>7, <2>2, DropsFailed
  <2> QED BY <2>1, <2>2
<1>10. t \in State /\ Safe(t, T)
  BY <1>9, RunsOn, Zenon DEF Drops, Sets
<1>11. Drops(s, e, T, Covered(addr, len), Erased)
  <2>1. CASE ~t.ok
    <3>1. e = t
      BY <2>1, Zenon DEF Then
    <3> QED BY <1>9, <3>1, Zenon
  <2>2. CASE t.ok
    <3>1. e = u
      BY <2>2, Zenon DEF Then
    <3>2. /\ Settles(t, u, T)
          /\ u.mgr.active = NoRegion /\ u.mgr.buffer = EmptyBuffer
          /\ Clean(u) => u.ok
          /\ Clean(u) /\ Linked(t) => Agrees(u) /\ AllIdle(u)
      BY <1>10, FinishStep
    <3> HIDE DEF u
    <3>3. Agrees(u) /\ AllIdle(u) => Linked(u)
      BY <3>2, Buffers, Zenon DEF AllIdle, Linked
    <3>4. Drops(t, u, T, {}, Erased)
      <4>1. Sets(t, u, T, {}, Erased)
        BY <3>2, SettlesSets
      <4> QED BY <3>2, <3>3, <4>1, Zenon DEF Drops
    <3>5. Joins(Covered(addr, len), {}, Covered(addr, len)) /\ Follows(t, u)
      BY <2>2 DEF Joins, Follows
    <3>6. Drops(s, u, T, Covered(addr, len), Erased)
      BY <1>9, <3>4, <3>5, DropsOn, Zenon
    <3> QED BY <3>1, <3>6, Zenon
  <2> QED BY <2>1, <2>2
<1> QED BY <1>1, <1>11, Zenon DEF t

\* What a part of a request leaves when it leaves every region idle
Ends(s, t, T, cells, v) ==
  /\ Sets(s, t, T, cells, v) /\ t.mgr.buffer = EmptyBuffer
  /\ Clean(t) => t.ok
  /\ Clean(t) /\ Linked(s) => Agrees(t) /\ AllIdle(t)

(* A load that ended, and cells set afterwards. *)
LEMMA EndsOn ==
  ASSUME NEW s \in State, NEW x, NEW t, NEW T, NEW C, NEW D, NEW E, NEW v,
         Ends(s, x, T, C, v), Sets(x, t, T, D, v), Follows(x, t), Joins(C, D, E),
         t.mgr.buffer = EmptyBuffer, Clean(t) => t.ok,
         Clean(t) /\ Agrees(x) /\ AllIdle(x) => Agrees(t) /\ AllIdle(t)
  PROVE  Ends(s, t, T, E, v)
<1>1. Sets(s, t, T, E, v)
  BY SetsOn, Zenon DEF Ends
<1>2. x \in State /\ Runs(x, t)
  BY RunsOn, Zenon DEF Ends, Sets
<1>3. Clean(t) => Clean(x)
  BY <1>2, RunsOn, Zenon
<1> QED BY <1>1, <1>3, Zenon DEF Ends

(* finish_active() ends a load. *)
LEMMA FinishEnds ==
  ASSUME NEW s \in State, NEW T, Closed(T), Safe(s, T), NEW v
  PROVE  Ends(s, finish_active(s), T, {}, v) /\ finish_active(s) \in State
<1> DEFINE t == finish_active(s)
<1>1. /\ Settles(s, t, T)
      /\ t.mgr.active = NoRegion /\ t.mgr.buffer = EmptyBuffer
      /\ Clean(t) => t.ok
      /\ Clean(t) /\ Linked(s) => Agrees(t) /\ AllIdle(t)
  BY FinishStep
<1> HIDE DEF t
<1>2. Sets(s, t, T, {}, v)
  BY <1>1, SettlesSets
<1>3. t \in State
  BY <1>1, RunsOn, Zenon DEF Settles
<1> QED BY <1>1, <1>2, <1>3, Zenon DEF Ends, t

\* complete() takes leave of one more region
Rest(s, r) == forget(Both(s, LAMBDA u : release(u, r)), r)

(* A region that is left busy is released. *)
LEMMA RestStep ==
  ASSUME NEW s \in State, NEW r \in Region
  PROVE  LET e == Rest(s, r)
         IN  /\ Runs(s, e) /\ SameData(s, e)
             /\ e.ok => s.ok
             /\ (Clean(s) => s.ok) => (Clean(e) => e.ok)
             /\ Agrees(s) /\ AllIdle(s) => Agrees(e) /\ AllIdle(e)
<1> DEFINE u == release(s, r)
           b == [u EXCEPT !.ok = @ /\ s.ok]
           e == forget(b, r)
<1>1. Rest(s, r) = e
  BY Zenon DEF Rest, Both
<1>2. Runs(s, u) /\ SameData(s, u) /\ u.mgr = s.mgr /\ (Clean(u) => u.ok)
  BY ReleaseStep
<1>3. AllIdle(s) => u.dev = s.dev
  <2> SUFFICES ASSUME AllIdle(s) PROVE u.dev = s.dev
    OBVIOUS
  <2>1. u = Ok(s)
    BY Zenon DEF release, AllIdle
  <2> HIDE DEF u
  <2> QED BY <2>1, Okay
<1> HIDE DEF u
<1>4. u \in State /\ s.ok \in BOOLEAN
  BY <1>2, RunsOn DEF State
<1>5. Runs(u, b) /\ b.ok = (u.ok /\ s.ok) /\ b.dev = u.dev /\ b.mgr = u.mgr /\ b.calls = u.calls
  BY <1>4, BothResult
<1> HIDE DEF b
<1>6. b \in State
  BY <1>4, <1>5, RunsOn
<1>7. /\ Runs(b, e) /\ SameData(b, e) /\ e.dev = b.dev /\ e.ok = b.ok
      /\ e.mgr.current = [b.mgr.current EXCEPT ![r] = "None"]
      /\ e.calls = b.calls /\ e.fault = b.fault
  BY <1>6, ForgetStep
<1> HIDE DEF e
<1>8. Runs(s, e) /\ Runs(s, b)
  BY <1>2, <1>4, <1>5, <1>6, <1>7, RunsOn, Zenon
<1>9. SameData(s, e)
  BY <1>2, <1>5, <1>7, Zenon DEF SameData
<1>10. (Clean(s) => s.ok) => (Clean(e) => e.ok)
  <2>1. Clean(e) => Clean(s) /\ Clean(u)
    BY <1>4, <1>5, <1>6, <1>7, <1>8, RunsOn, Zenon
  <2> QED BY <1>2, <1>5, <1>7, <2>1
<1>11. ASSUME Agrees(s), AllIdle(s) PROVE Agrees(e) /\ AllIdle(e)
  <2>1. e.dev = s.dev /\ b.mgr = s.mgr
    BY <1>2, <1>3, <1>5, <1>7, <1>11, Zenon
  <2>2. s.mgr.current \in [Region -> Operation]
    BY DEF State, Manager
  <2>3. s.mgr.current = [s.mgr.current EXCEPT ![r] = "None"]
    BY <1>11, <2>2 DEF AllIdle
  <2>4. e.mgr.current = s.mgr.current
    BY <1>7, <2>1, <2>3, Zenon
  <2> QED BY <1>11, <2>1, <2>4, Zenon DEF Agrees, AllIdle, Matched
<1> QED BY <1>1, <1>5, <1>7, <1>8, <1>9, <1>10, <1>11

(* complete() ends the load: the device is what GDB sees, or an error. *)
LEMMA CompleteStep ==
  ASSUME NEW s \in State, NEW T, Closed(T), Safe(s, T), NEW v
  PROVE  Ends(s, complete(s), T, {}, v)
<1> DEFINE n == Len(Regions)
           b == finish_active(s)
           G == [q \in (1..n) \X State |-> Rest(q[2], Regions[q[1]])]
           h == CHOOSE h : h = [k \in 0..n |-> IF k = 0 THEN b ELSE Rest(h[k - 1], Regions[k])]
           J == {q \in (0..n) \X State : Ends(s, q[2], T, {}, v)}
<1>1. complete(s) = h[n]
  BY Zenon DEF complete, Rest
<1> HIDE DEF h
<1>2. n \in Nat /\ \A k \in 1..n : Regions[k] \in Region
  BY Constants, InRegion
<1>3. Ends(s, b, T, {}, v) /\ b \in State
  BY FinishEnds
<1> HIDE DEF n, b
<1>4. <<0, b>> \in J
  BY <1>2, <1>3
<1>5. ASSUME NEW k \in 1..n, NEW x \in State, <<k - 1, x>> \in J
      PROVE  LET e == Rest(x, Regions[k]) IN e \in State /\ <<k, e>> \in J
  <2> DEFINE r == Regions[k]
             e == Rest(x, r)
  <2>1. k \in 0..n /\ r \in Region /\ Ends(s, x, T, {}, v)
    BY <1>2, <1>5
  <2> HIDE DEF r
  <2>2. /\ Runs(x, e) /\ SameData(x, e)
        /\ e.ok => x.ok
        /\ (Clean(x) => x.ok) => (Clean(e) => e.ok)
        /\ Agrees(x) /\ AllIdle(x) => Agrees(e) /\ AllIdle(e)
    BY <2>1, RestStep
  <2> HIDE DEF e
  <2>3. e \in State
    BY <2>2, RunsOn, Zenon
  <2>4. Sets(x, e, T, {}, v)
    <3>1. Safe(x, T)
      BY <2>1, Zenon DEF Ends, Sets
    <3>2. Settles(x, e, T)
      BY <2>2, <3>1, SettlesSame
    <3> QED BY <3>2, SettlesSets
  <2>5. Ends(s, e, T, {}, v)
    <3>1. Joins({}, {}, {}) /\ Follows(x, e)
      BY <2>2 DEF Joins, Follows
    <3>2. e.mgr.buffer = EmptyBuffer /\ (Clean(e) => e.ok)
      BY <2>1, <2>2, Zenon DEF Ends, SameData
    <3> QED BY <2>1, <2>2, <2>4, <3>1, <3>2, EndsOn, Zenon
  <2> QED BY <2>1, <2>3, <2>5 DEF e, r
<1>6. KeepsTo(G, n, State, J)
  <2> SUFFICES ASSUME NEW k \in 1..n, NEW x \in State, <<k - 1, x>> \in J
               PROVE  G[<<k, x>>] \in State /\ <<k, G[<<k, x>>]>> \in J
    BY Zenon DEF KeepsTo
  <2> HIDE DEF J
  <2>1. G[<<k, x>>] = Rest(x, Regions[k])
    OBVIOUS
  <2> HIDE DEF G
  <2> QED BY <1>5, <2>1, Zenon
<1>7. <<n, h[n]>> \in J
  <2> HIDE DEF J
  <2>1. PICK g : IsRun(g, n, b, G, J) /\ \A k \in 0..n : g[k] \in State
    <3> HIDE DEF G
    <3> QED BY <1>2, <1>3, <1>4, <1>6, LoopRuns
  <2>2. g = [k \in 0..n |-> IF k = 0 THEN b ELSE Rest(g[k - 1], Regions[k])]
    <3> SUFFICES ASSUME NEW k \in 0..n, k # 0 PROVE G[<<k, g[k - 1]>>] = Rest(g[k - 1], Regions[k])
      BY <2>1, Zenon DEF IsRun
    <3>1. k \in 1..n /\ g[k - 1] \in State
      BY <1>2, <2>1
    <3> QED BY <3>1
  <2> HIDE DEF G
  <2>3. h = [k \in 0..n |-> IF k = 0 THEN b ELSE Rest(h[k - 1], Regions[k])]
    BY <2>2, Zenon DEF h
  <2>4. \A k \in 1..n : h[k] = Rest(h[k - 1], Regions[k])
    <3>1. \A k \in 1..n : k \in 0..n /\ k # 0
      BY <1>2
    <3> QED BY <2>3, <3>1, Zenon
  <2>5. h[0] = b
    <3>1. 0 \in 0..n
      BY <1>2
    <3> QED BY <2>3, <3>1, Zenon
  <2>6. \A k \in 1..n : <<k - 1, h[k - 1]>> \in J => <<k, h[k]>> \in J
    <3> SUFFICES ASSUME NEW k \in 1..n, <<k - 1, h[k - 1]>> \in J PROVE <<k, h[k]>> \in J
      OBVIOUS
    <3>1. h[k - 1] \in State
      BY DEF J
    <3> QED BY <1>5, <2>4, <3>1, Zenon
  <2> QED BY <1>2, <1>4, <2>5, <2>6, Invariant, Zenon
<1>8. Ends(s, h[n], T, {}, v)
  BY <1>7
<1> QED BY <1>1, <1>8, Zenon

\* The blocks of a region that are erased one after the other
Edge(r, k) == r.start + k * BLOCK

(* The blocks of a region follow one another, from its first cell to its last. *)
LEMMA Blocks ==
  ASSUME NEW r \in Region
  PROVE  LET n == r.length \div BLOCK
         IN  /\ n \in Nat /\ r.start..(Edge(r, 0) - 1) = {}
             /\ r.start..(Edge(r, n) - 1) = Cells(r)
             /\ \A k \in 1..n :
                  /\ Joins(r.start..(Edge(r, k - 1) - 1),
                           Edge(r, k - 1)..(Edge(r, k - 1) + BLOCK - 1),
                           r.start..(Edge(r, k) - 1))
                  /\ Edge(r, k - 1) + BLOCK = Edge(r, k) /\ Edge(r, k) \in Int
<1> DEFINE n == r.length \div BLOCK
           e(k) == Edge(r, k)
<1>1. BLOCK \in Nat \ {0} /\ r.start \in Nat /\ r.length \in Nat \ {0} /\ r.length % BLOCK = 0
  BY Constants, RegionFacts
<1>2. n \in Int /\ BLOCK * n = r.length
  <2> DEFINE a == r.length
  <2>1. a \in Int /\ a % BLOCK = 0
    BY <1>1
  <2> HIDE DEF a
  <2>2. a \div BLOCK \in Int /\ a = BLOCK * (a \div BLOCK)
    BY <1>1, <2>1, Division
  <2> QED BY <2>2 DEF a
<1> HIDE DEF n
<1>3. \A k \in Int : e(k) \in Int /\ e(k - 1) + BLOCK = e(k) /\ e(k) = r.start + BLOCK * k
  BY <1>1 DEF Edge
<1>4. n \in Nat
  <2> SUFFICES ASSUME n < 0 PROVE FALSE
    BY <1>2
  <2>1. BLOCK * n <= BLOCK * 0 /\ BLOCK * 0 = 0
    BY <1>1, <1>2, NotLess
  <2> QED BY <1>1, <1>2, <2>1
<1>5. \A j, k \in Int : j <= k => e(j) <= e(k)
  <2> TAKE j, k \in Int
  <2>1. j <= k => BLOCK * j <= BLOCK * k
    BY <1>1, NotLess
  <2>2. BLOCK * j \in Int /\ BLOCK * k \in Int
    BY <1>1
  <2>3. e(j) = r.start + BLOCK * j /\ e(k) = r.start + BLOCK * k
    BY <1>3
  <2> DEFINE x == BLOCK * j
             y == BLOCK * k
  <2> HIDE DEF x, y, e
  <2> QED BY <1>1, <2>1, <2>2, <2>3 DEF x, y
<1>6. e(0) = r.start
  BY <1>1 DEF Edge
<1>7. e(n) = r.start + r.length
  BY <1>2, <1>3
<1> HIDE DEF e
<1>8. r.start..(e(0) - 1) = {} /\ r.start..(e(n) - 1) = Cells(r)
  BY <1>1, <1>6, <1>7 DEF Cells, End
<1>9. ASSUME NEW k \in 1..n
      PROVE  /\ Joins(r.start..(e(k - 1) - 1), e(k - 1)..(e(k - 1) + BLOCK - 1), r.start..(e(k) - 1))
             /\ e(k - 1) + BLOCK = e(k) /\ e(k) \in Int
  <2>1. k \in Int /\ k - 1 \in Int /\ 0 \in Int /\ 0 <= k - 1
    BY <1>4
  <2>2. e(k) \in Int /\ e(k - 1) \in Int /\ e(k - 1) + BLOCK = e(k) /\ r.start <= e(k - 1)
    BY <1>3, <1>5, <1>6, <2>1
  <2> DEFINE x == e(k - 1)
             y == e(k)
  <2>3. x \in Int /\ y \in Int /\ x + BLOCK = y /\ r.start <= x
    BY <2>2
  <2> HIDE DEF x, y
  <2>4. Joins(r.start..(x - 1), x..(x + BLOCK - 1), r.start..(y - 1))
    BY <1>1, <2>3, AddrNat DEF Joins
  <2> QED BY <2>3, <2>4 DEF x, y
<1> QED BY <1>4, <1>8, <1>9 DEF n, e

(* The blocks of a region erased one by one. *)
LEMMA EraseBlocksStep ==
  ASSUME NEW s \in State, NEW r \in Region, s.mgr.buffer = EmptyBuffer, s.ok
  PROVE  LET t == erase_blocks(s, r)
         IN  /\ Sets(s, t, Addr, Cells(r), Erased) /\ t.mgr = s.mgr
             /\ Clean(t) => t.ok
             /\ Clean(t) /\ Agrees(s) /\ s.mgr.current[r] = "Erase" => Agrees(t)
<1> DEFINE n == r.length \div BLOCK
           C(k) == Edge(r, k - 1)..(Edge(r, k - 1) + BLOCK - 1)
           B(k, x) == Then(x, LAMBDA t : erase_block(t, r, C(k)))
           G == [q \in (1..n) \X State |-> B(q[1], q[2])]
           h == CHOOSE h : h = [k \in 0..n |-> IF k = 0 THEN s
                                 ELSE Then(h[k - 1], LAMBDA t : erase_block(t, r, C(k)))]
           D(k) == r.start..(Edge(r, k) - 1)
           P(k, u) == /\ Sets(s, u, Addr, D(k), Erased) /\ u.mgr = s.mgr
                      /\ Clean(u) => u.ok
                      /\ Clean(u) /\ Agrees(s) /\ s.mgr.current[r] = "Erase" => Agrees(u)
           J == {q \in (0..n) \X State : P(q[1], q[2])}
<1>1. erase_blocks(s, r) = h[n]
  BY Zenon DEF erase_blocks, Then, Edge
<1> HIDE DEF h
<1>2. /\ n \in Nat /\ D(0) = {} /\ D(n) = Cells(r)
      /\ \A k \in 1..n : Joins(D(k - 1), C(k), D(k))
  BY Blocks
<1> HIDE DEF n, C, D
<1>3. <<0, s>> \in J
  <2>1. Settles(s, s, Addr)
    BY RunsOn, Zenon DEF Settles, Spares, Safe
  <2>2. Sets(s, s, Addr, D(0), Erased)
    BY <1>2, <2>1, SettlesSets
  <2>3. 0 \in 0..n
    BY <1>2
  <2> QED BY <2>2, <2>3
<1>4. ASSUME NEW k \in 1..n, NEW x \in State, <<k - 1, x>> \in J
      PROVE  B(k, x) \in State /\ <<k, B(k, x)>> \in J
  <2> DEFINE t == erase_block(x, r, C(k))
  <2>1. k \in 0..n /\ P(k - 1, x)
    BY <1>2, <1>4
  <2>2. CASE ~x.ok
    <3>1. B(k, x) = x
      BY <2>2, Zenon DEF Then
    <3>2. Sets(s, x, Addr, D(k), Erased)
      BY <2>1, <2>2, SetsFailed, Zenon
    <3> HIDE DEF B
    <3> QED BY <2>1, <3>1, <3>2
  <2>3. CASE x.ok
    <3>1. B(k, x) = t
      BY <2>3, Zenon DEF Then
    <3>2. x.mgr.buffer = EmptyBuffer
      BY <2>1
    <3>3. /\ Sets(x, t, Addr, C(k), Erased) /\ t.mgr = x.mgr
          /\ Clean(t) => t.ok
          /\ Agrees(x) /\ x.mgr.current[r] = "Erase" => Agrees(t)
      <4>1. \A a \in Addr : a \in C(k) => a \in Addr
        OBVIOUS
      <4> QED BY <3>2, <4>1, EraseSets
    <3> HIDE DEF t, B
    <3>4. Sets(s, t, Addr, D(k), Erased)
      <4>1. Joins(D(k - 1), C(k), D(k))
        BY <1>2
      <4>2. Follows(x, t)
        BY <2>3 DEF Follows
      <4>3. Sets(s, x, Addr, D(k - 1), Erased)
        BY <2>1
      <4> QED BY <3>3, <4>1, <4>2, <4>3, SetsOn, Zenon
    <3>5. t \in State /\ (Clean(t) => Clean(x))
      BY <3>3, RunsOn, Zenon DEF Sets
    <3>6. t.mgr = s.mgr
      BY <2>1, <3>3
    <3>7. Clean(t) /\ Agrees(s) /\ s.mgr.current[r] = "Erase" => Agrees(t)
      BY <2>1, <3>3, <3>5, Zenon
    <3>8. P(k, t)
      BY <3>3, <3>4, <3>6, <3>7, Zenon
    <3> HIDE DEF P
    <3> QED BY <2>1, <3>1, <3>5, <3>8
  <2> QED BY <2>2, <2>3
<1>5. KeepsTo(G, n, State, J)
  <2> SUFFICES ASSUME NEW k \in 1..n, NEW x \in State, <<k - 1, x>> \in J
               PROVE  G[<<k, x>>] \in State /\ <<k, G[<<k, x>>]>> \in J
    BY Zenon DEF KeepsTo
  <2> HIDE DEF J, B
  <2>1. G[<<k, x>>] = B(k, x)
    OBVIOUS
  <2> HIDE DEF G
  <2> QED BY <1>4, <2>1, Zenon
<1>6. <<n, h[n]>> \in J
  <2> HIDE DEF J, B
  <2>1. PICK g : IsRun(g, n, s, G, J) /\ \A k \in 0..n : g[k] \in State
    <3> HIDE DEF G
    <3> QED BY <1>2, <1>3, <1>5, LoopRuns
  <2>2. g = [k \in 0..n |-> IF k = 0 THEN s ELSE B(k, g[k - 1])]
    <3> SUFFICES ASSUME NEW k \in 0..n, k # 0 PROVE G[<<k, g[k - 1]>>] = B(k, g[k - 1])
      BY <2>1, Zenon DEF IsRun
    <3>1. k \in 1..n /\ g[k - 1] \in State
      BY <1>2, <2>1
    <3> QED BY <3>1
  <2> HIDE DEF G
  <2>3. h = [k \in 0..n |-> IF k = 0 THEN s ELSE B(k, h[k - 1])]
    BY <2>2, Zenon DEF h, B
  <2>4. \A k \in 1..n : h[k] = B(k, h[k - 1])
    <3>1. \A k \in 1..n : k \in 0..n /\ k # 0
      BY <1>2
    <3> QED BY <2>3, <3>1, Zenon
  <2>5. h[0] = s
    <3>1. 0 \in 0..n
      BY <1>2
    <3> QED BY <2>3, <3>1, Zenon
  <2>6. \A k \in 1..n : <<k - 1, h[k - 1]>> \in J => <<k, h[k]>> \in J
    <3> SUFFICES ASSUME NEW k \in 1..n, <<k - 1, h[k - 1]>> \in J PROVE <<k, h[k]>> \in J
      OBVIOUS
    <3>1. h[k - 1] \in State
      BY DEF J
    <3> QED BY <1>4, <2>4, <3>1, Zenon
  <2> QED BY <1>2, <1>3, <2>5, <2>6, Invariant, Zenon
<1>7. P(n, h[n])
  BY <1>6
<1> QED BY <1>1, <1>2, <1>7, Zenon

\* mass_erase_all() erases one more region
EraseAll(s, r) ==
  Then(Then(set_operation(s, r, "Erase"), LAMBDA u : erase_blocks(u, r)),
       LAMBDA u : set_operation(u, r, "None"))

(* The whole flash may be the load. *)
LEMMA AddrClosed == Closed(Addr)
BY Zenon DEF Closed, Reach

(* A region prepared, erased and released. *)
LEMMA EraseAllStep ==
  ASSUME NEW s \in State, NEW r \in Region, s.mgr.buffer = EmptyBuffer
  PROVE  LET t == EraseAll(s, r)
         IN  /\ Sets(s, t, Addr, Cells(r), Erased) /\ t.mgr.buffer = EmptyBuffer
             /\ Clean(t) => t.ok
             /\ Clean(t) /\ Agrees(s) /\ AllIdle(s) => Agrees(t) /\ AllIdle(t)
<1> DEFINE f == set_operation(s, r, "Erase")
           e == erase_blocks(f, r)
           m == Then(f, LAMBDA u : erase_blocks(u, r))
           l == set_operation(m, r, "None")
           t == EraseAll(s, r)
           C == Cells(r)
<1>1. /\ Runs(s, f) /\ SameData(s, f) /\ (Clean(f) => f.ok)
      /\ Clean(f) /\ Agrees(s) => /\ Agrees(f)
                                  /\ f.mgr.current = [s.mgr.current EXCEPT ![r] = "Erase"]
  <2>1. "Erase" \in Operation
    BY DEF Operation
  <2> QED BY <2>1, SetOperationStep
<1>2. t = Then(m, LAMBDA u : set_operation(u, r, "None"))
  BY Zenon DEF EraseAll
<1> HIDE DEF f, t, C
<1>3. f \in State /\ f.mgr.buffer = EmptyBuffer /\ Sets(s, f, Addr, {}, Erased)
  <2>1. f \in State
    BY <1>1, RunsOn, Zenon
  <2>2. Safe(s, Addr)
    BY Zenon DEF Safe
  <2>3. Settles(s, f, Addr)
    BY <1>1, <2>2, SettlesSame
  <2>4. f.mgr.buffer = EmptyBuffer
    BY <1>1, Zenon DEF SameData
  <2> QED BY <2>1, <2>3, <2>4, SettlesSets
<1>4. /\ Sets(s, m, Addr, C, Erased) /\ m.mgr = f.mgr /\ (Clean(m) => m.ok) /\ Runs(f, m)
      /\ Clean(m) /\ Agrees(f) /\ f.mgr.current[r] = "Erase" => Agrees(m)
  <2>1. CASE ~f.ok
    <3>1. m = f
      BY <2>1, Zenon DEF Then
    <3> HIDE DEF m
    <3>2. Sets(s, f, Addr, C, Erased)
      BY <1>3, <2>1, SetsFailed
    <3> QED BY <1>1, <1>3, <3>1, <3>2, RunsOn, Zenon
  <2>2. CASE f.ok
    <3>1. m = e
      BY <2>2, Zenon DEF Then
    <3>2. /\ Sets(f, e, Addr, C, Erased) /\ e.mgr = f.mgr
          /\ Clean(e) => e.ok
          /\ Clean(e) /\ Agrees(f) /\ f.mgr.current[r] = "Erase" => Agrees(e)
      BY <1>3, <2>2, EraseBlocksStep DEF C
    <3> HIDE DEF m, e
    <3>3. Joins({}, C, C) /\ Follows(f, e)
      BY <2>2 DEF Joins, Follows
    <3>4. Sets(s, e, Addr, C, Erased)
      BY <1>3, <3>2, <3>3, SetsOn, Zenon
    <3>5. Runs(f, e)
      BY <3>2, Zenon DEF Sets
    <3> QED BY <3>1, <3>2, <3>4, <3>5, Zenon
  <2> QED BY <2>1, <2>2
<1>5. m \in State /\ m.mgr.buffer = EmptyBuffer /\ (Clean(m) => Clean(f))
  BY <1>3, <1>4, RunsOn, Zenon
<1> HIDE DEF m
<1>6. CASE ~m.ok
  <2>1. t = m
    BY <1>2, <1>6, Zenon DEF Then
  <2> QED BY <1>4, <1>5, <1>6, <2>1, Zenon DEF t, C
<1>7. CASE m.ok
  <2>1. t = l
    BY <1>2, <1>7, Zenon DEF Then
  <2>2. /\ Runs(m, l) /\ SameData(m, l) /\ (Clean(l) => l.ok)
        /\ Clean(l) /\ Agrees(m) => /\ Agrees(l)
                                    /\ l.mgr.current = [m.mgr.current EXCEPT ![r] = "None"]
    <3>1. "None" \in Operation
      BY DEF Operation
    <3> QED BY <1>5, <3>1, SetOperationStep
  <2> HIDE DEF l
  <2>3. Sets(m, l, Addr, {}, Erased)
    <3>1. Safe(m, Addr)
      BY <1>5, Zenon DEF Safe
    <3>2. Settles(m, l, Addr)
      BY <2>2, <3>1, SettlesSame
    <3> QED BY <3>2, SettlesSets
  <2>4. Sets(s, l, Addr, C, Erased)
    <3>1. Joins(C, {}, C) /\ Follows(m, l)
      BY <1>7 DEF Joins, Follows
    <3> QED BY <1>4, <2>3, <3>1, SetsOn, Zenon
  <2>5. l.mgr.buffer = EmptyBuffer
    BY <1>5, <2>2, Zenon DEF SameData
  <2>6. ASSUME Clean(l), Agrees(s), AllIdle(s) PROVE Agrees(l) /\ AllIdle(l)
    <3>1. Clean(m) /\ Clean(f)
      BY <1>5, <2>2, <2>6, RunsOn, Zenon
    <3>2. Agrees(f) /\ f.mgr.current = [s.mgr.current EXCEPT ![r] = "Erase"]
      BY <1>1, <2>6, <3>1
    <3>3. s.mgr.current \in [Region -> Operation]
      BY DEF State, Manager
    <3>4. f.mgr.current[r] = "Erase"
      BY <3>2, <3>3
    <3>5. Agrees(m)
      BY <1>4, <3>1, <3>2, <3>4
    <3>6. Agrees(l) /\ l.mgr.current = [m.mgr.current EXCEPT ![r] = "None"]
      BY <2>2, <2>6, <3>5
    <3>7. l.mgr.current = [[s.mgr.current EXCEPT ![r] = "Erase"] EXCEPT ![r] = "None"]
      BY <1>4, <3>2, <3>6, Zenon
    <3>8. AllIdle(l)
      BY <2>6, <3>3, <3>7 DEF AllIdle
    <3> QED BY <3>6, <3>8
  <2> QED BY <2>1, <2>2, <2>4, <2>5, <2>6, Zenon DEF t, C
<1> QED BY <1>6, <1>7

(* mass_erase_all(): every region erased, and none left busy, or an error. *)
LEMMA MassEraseStep ==
  ASSUME NEW s \in State, NEW T, Closed(T), Safe(s, T)
  PROVE  Ends(s, mass_erase_all(s), Addr, Addr, Erased)
<1> DEFINE n == Len(Regions)
           b == finish_active(s)
           B(k, x) == Then(x, LAMBDA t : EraseAll(t, Regions[k]))
           G == [q \in (1..n) \X State |-> B(q[1], q[2])]
           h == CHOOSE h : h = [k \in 0..n |-> IF k = 0 THEN b
                                 ELSE Then(h[k - 1], LAMBDA t : EraseAll(t, Regions[k]))]
           D(k) == UNION {Cells(Regions[i]) : i \in 1..k}
           J == {q \in (0..n) \X State : Ends(s, q[2], Addr, D(q[1]), Erased)}
<1>1. mass_erase_all(s) = h[n]
  BY Zenon DEF mass_erase_all, Then, EraseAll
<1> HIDE DEF h
<1>2. n \in Nat /\ \A k \in 1..n : Regions[k] \in Region
  BY Constants, InRegion
<1>3. Safe(s, Addr)
  <2>1. CASE s.mgr.buffer = EmptyBuffer
    BY <2>1, Zenon DEF Safe
  <2>2. CASE s.mgr.buffer # EmptyBuffer
    <3>1. T \subseteq Addr
      BY DEF Closed
    <3> QED BY <2>2, <3>1 DEF Safe, Fits
  <2> QED BY <2>1, <2>2
<1>4. D(0) = {} /\ D(n) = Addr /\ \A k \in 1..n : Joins(D(k - 1), Cells(Regions[k]), D(k))
  <2>1. D(0) = {}
    OBVIOUS
  <2>2. D(n) = Addr
    <3>1. \A r : r \in Region <=> \E i \in 1..n : r = Regions[i]
      BY <1>2, InRegion
    <3> HIDE DEF n
    <3> QED BY <3>1 DEF Addr
  <2>3. ASSUME NEW k \in 1..n PROVE Joins(D(k - 1), Cells(Regions[k]), D(k))
    <3>1. 1..k = 1..(k - 1) \cup {k}
      BY <1>2
    <3> QED BY <3>1 DEF Joins
  <2> QED BY <2>1, <2>2, <2>3
<1>5. Ends(s, b, Addr, D(0), Erased) /\ b \in State
  BY <1>3, <1>4, AddrClosed, FinishEnds
<1> HIDE DEF n, b, D
<1>6. <<0, b>> \in J
  BY <1>2, <1>5
<1>7. ASSUME NEW k \in 1..n, NEW x \in State, <<k - 1, x>> \in J
      PROVE  B(k, x) \in State /\ <<k, B(k, x)>> \in J
  <2> DEFINE r == Regions[k]
             e == EraseAll(x, r)
  <2>1. k \in 0..n /\ r \in Region /\ Ends(s, x, Addr, D(k - 1), Erased)
    BY <1>2, <1>7
  <2>2. CASE ~x.ok
    <3>1. B(k, x) = x
      BY <2>2, Zenon DEF Then
    <3>2. Ends(s, x, Addr, D(k), Erased)
      BY <2>1, <2>2, SetsFailed, Zenon DEF Ends
    <3> HIDE DEF B
    <3> QED BY <2>1, <3>1, <3>2
  <2>3. CASE x.ok
    <3>1. B(k, x) = e
      BY <2>3, Zenon DEF Then
    <3>2. Joins(D(k - 1), Cells(r), D(k))
      BY <1>4
    <3> HIDE DEF r, B
    <3>3. x.mgr.buffer = EmptyBuffer
      BY <2>1 DEF Ends
    <3>4. /\ Sets(x, e, Addr, Cells(r), Erased) /\ e.mgr.buffer = EmptyBuffer
          /\ Clean(e) => e.ok
          /\ Clean(e) /\ Agrees(x) /\ AllIdle(x) => Agrees(e) /\ AllIdle(e)
      BY <2>1, <3>3, EraseAllStep
    <3> HIDE DEF e
    <3>5. Follows(x, e)
      BY <2>3 DEF Follows
    <3>6. Ends(s, e, Addr, D(k), Erased)
      BY <2>1, <3>2, <3>4, <3>5, EndsOn, Zenon
    <3>7. e \in State
      BY <3>6, RunsOn, Zenon DEF Ends, Sets
    <3> QED BY <2>1, <3>1, <3>6, <3>7
  <2> QED BY <2>2, <2>3
<1>8. KeepsTo(G, n, State, J)
  <2> SUFFICES ASSUME NEW k \in 1..n, NEW x \in State, <<k - 1, x>> \in J
               PROVE  G[<<k, x>>] \in State /\ <<k, G[<<k, x>>]>> \in J
    BY Zenon DEF KeepsTo
  <2> HIDE DEF J, B
  <2>1. G[<<k, x>>] = B(k, x)
    OBVIOUS
  <2> HIDE DEF G
  <2> QED BY <1>7, <2>1, Zenon
<1>9. <<n, h[n]>> \in J
  <2> HIDE DEF J, B
  <2>1. PICK g : IsRun(g, n, b, G, J) /\ \A k \in 0..n : g[k] \in State
    <3> HIDE DEF G
    <3> QED BY <1>2, <1>5, <1>6, <1>8, LoopRuns
  <2>2. g = [k \in 0..n |-> IF k = 0 THEN b ELSE B(k, g[k - 1])]
    <3> SUFFICES ASSUME NEW k \in 0..n, k # 0 PROVE G[<<k, g[k - 1]>>] = B(k, g[k - 1])
      BY <2>1, Zenon DEF IsRun
    <3>1. k \in 1..n /\ g[k - 1] \in State
      BY <1>2, <2>1
    <3> QED BY <3>1
  <2> HIDE DEF G
  <2>3. h = [k \in 0..n |-> IF k = 0 THEN b ELSE B(k, h[k - 1])]
    BY <2>2, Zenon DEF h, B
  <2>4. \A k \in 1..n : h[k] = B(k, h[k - 1])
    <3>1. \A k \in 1..n : k \in 0..n /\ k # 0
      BY <1>2
    <3> QED BY <2>3, <3>1, Zenon
  <2>5. h[0] = b
    <3>1. 0 \in 0..n
      BY <1>2
    <3> QED BY <2>3, <3>1, Zenon
  <2>6. \A k \in 1..n : <<k - 1, h[k - 1]>> \in J => <<k, h[k]>> \in J
    <3> SUFFICES ASSUME NEW k \in 1..n, <<k - 1, h[k - 1]>> \in J PROVE <<k, h[k]>> \in J
      OBVIOUS
    <3>1. h[k - 1] \in State
      BY DEF J
    <3> QED BY <1>7, <2>4, <3>1, Zenon
  <2> QED BY <1>2, <1>6, <2>5, <2>6, Invariant, Zenon
<1>10. Ends(s, h[n], Addr, D(n), Erased)
  BY <1>9
<1> QED BY <1>1, <1>4, <1>10, Zenon

-----------------------------------------------------------------------------
(* The requests.                                                           *)

\* The state a request starts from
Begin(d, m, on, f) ==
  [dev |-> IF on THEN d ELSE Idle(d), mgr |-> m, ok |-> TRUE, calls |-> 0, fault |-> f]

\* All is in order between two requests: what is held back belongs to the
\* load, and as long as nothing has failed, the manager, the driver and the
\* controller agree
Good(d, m, on, T, c) ==
  /\ d \in Device /\ m \in Manager
  /\ Closed(T) /\ Safe(Begin(d, m, on, 0), T)
  /\ c => Linked(Begin(d, m, on, 0))

(* The inductive invariant. *)
IInv ==
  /\ Good(dev, mgr, mode, touched, calm)
  /\ mode \in BOOLEAN /\ reply \in BOOLEAN /\ calm \in BOOLEAN

\* The controller of an idle device is prepared for nothing
Unprepared == [r \in Region |-> "None"]

(* A controller that comes up idle has the flash it had. *)
LEMMA IdleDevice ==
  ASSUME NEW d \in Device
  PROVE  /\ Idle(d) \in Device /\ Idle(d).flash = d.flash
         /\ Idle(d).operation = d.operation /\ Idle(d).unprepared = d.unprepared
         /\ Idle(d).prepared = Unprepared /\ Idle(Idle(d)) = Idle(d)
<1> DEFINE p == Unprepared
<1>1. p \in [Region -> Operation]
  BY DEF Unprepared, Operation
<1>2. Idle(d) = [d EXCEPT !.prepared = p]
  BY DEF Idle, Unprepared
<1>3. [[d EXCEPT !.prepared = p] EXCEPT !.prepared = p] = [d EXCEPT !.prepared = p]
  BY DEF Device
<1>4. Idle(Idle(d)) = [Idle(d) EXCEPT !.prepared = p]
  BY DEF Idle, Unprepared
<1> HIDE DEF p
<1> QED BY <1>1, <1>2, <1>3, <1>4 DEF Device, p

(* A request begins with the manager of the last one and no callback failed. *)
LEMMA Beginning ==
  ASSUME NEW d \in Device, NEW m \in Manager, NEW on \in BOOLEAN, NEW f \in Nat
  PROVE  LET s == Begin(d, m, on, f)
         IN  /\ s \in State /\ s.mgr = m /\ s.ok /\ Clean(s)
             /\ s.dev = (IF on THEN d ELSE Idle(d))
             /\ s.dev.flash = d.flash /\ s.dev.unprepared = d.unprepared
             /\ s.dev.operation = d.operation
<1> DEFINE e == IF on THEN d ELSE Idle(d)
           s == Begin(d, m, on, f)
<1>1. /\ e \in Device /\ e.flash = d.flash /\ e.unprepared = d.unprepared
      /\ e.operation = d.operation
  BY IdleDevice
<1>2. s = [dev |-> e, mgr |-> m, ok |-> TRUE, calls |-> 0, fault |-> f]
  BY DEF Begin
<1>3. e = IF on THEN d ELSE Idle(d)
  OBVIOUS
<1> HIDE DEF e, s
<1>4. s \in State /\ s.mgr = m /\ s.ok /\ s.dev = e /\ s.calls = 0
  BY <1>1, <1>2 DEF State
<1>5. Clean(s)
  BY <1>4 DEF Clean
<1> QED BY <1>1, <1>3, <1>4, <1>5, Zenon DEF s

\* What is said of a state is said of its device and its management
LEMMA SameParts ==
  ASSUME NEW s, NEW t, t.dev = s.dev, t.mgr = s.mgr
  PROVE  /\ View(t) = View(s) /\ (Linked(s) => Linked(t))
         /\ \A T : Safe(s, T) => Safe(t, T)
BY Zenon DEF View, Linked, Agrees, Matched, Safe

(* What is within a load is within a larger one. *)
LEMMA SafeMore ==
  ASSUME NEW s, NEW T, NEW U, T \subseteq U, Safe(s, T)
  PROVE  Safe(s, U)
BY DEF Safe, Fits

\* A buffer that holds nothing back is empty
LEMMA NotDirty ==
  ASSUME NEW s, NEW T, Safe(s, T), ~is_dirty(s.mgr.buffer)
  PROVE  s.mgr.buffer = EmptyBuffer
BY Buffers, Zenon DEF Safe, Fits

\* A request starts in order
LEMMA Started ==
  ASSUME IInv, NEW f \in Nat, NEW T, touched \subseteq T
  PROVE  LET s == Enter(f)
         IN  /\ s \in State /\ s.mgr = mgr /\ s.dev.flash = dev.flash /\ Clean(s)
             /\ Safe(s, T) /\ View(s) = Image
             /\ calm => Linked(s)
<1> DEFINE s == Enter(f)
           b == Begin(dev, mgr, mode, 0)
<1>1. s = Begin(dev, mgr, mode, f)
  BY Zenon DEF Enter, Begin
<1>2. dev \in Device /\ mgr \in Manager /\ mode \in BOOLEAN /\ 0 \in Nat
  BY DEF IInv, Good
<1> HIDE DEF s
<1>3. s \in State /\ s.mgr = mgr /\ s.dev.flash = dev.flash /\ Clean(s)
      /\ s.dev = (IF mode THEN dev ELSE Idle(dev))
  BY <1>1, <1>2, Beginning
<1>4. b.dev = (IF mode THEN dev ELSE Idle(dev)) /\ b.mgr = mgr
  BY <1>2, Beginning
<1>5. s.dev = b.dev /\ s.mgr = b.mgr
  BY <1>3, <1>4, Zenon
<1>6. Safe(b, touched) /\ (calm => Linked(b))
  BY Zenon DEF IInv, Good
<1> HIDE DEF b
<1>7. Safe(s, touched) /\ (calm => Linked(s))
  BY <1>5, <1>6, SameParts, Zenon
<1>8. Safe(s, T)
  BY <1>7, SafeMore
<1>9. View(s) = Image
  BY <1>3, Zenon DEF View, Image
<1> QED BY <1>3, <1>7, <1>8, <1>9 DEF s

\* A request that stays in flash mode ends in order
LEMMA StaysGood ==
  ASSUME NEW t \in State, NEW T, Closed(T), Safe(t, T), NEW c, c => Linked(t)
  PROVE  /\ Good(t.dev, t.mgr, TRUE, T, c)
         /\ Seen(t.dev.flash, t.mgr.buffer) = View(t)
<1> DEFINE b == Begin(t.dev, t.mgr, TRUE, 0)
<1>1. t.dev \in Device /\ t.mgr \in Manager
  BY DEF State
<1>2. b.dev = t.dev /\ b.mgr = t.mgr
  BY DEF Begin
<1> HIDE DEF b
<1>3. Safe(b, T) /\ (c => Linked(b))
  BY <1>2, SameParts, Zenon
<1> QED BY <1>1, <1>3, Zenon DEF Good, b, View

\* A request that leaves flash mode, with every region idle, ends in order
LEMMA LeavesGood ==
  ASSUME NEW d \in Device, NEW m \in Manager, NEW T, Closed(T), m.buffer = EmptyBuffer,
         NEW c, c => /\ \A r \in Region : d.operation[r] = "None"
                     /\ \A r \in Region : m.current[r] = "None"
                     /\ ~d.unprepared
  PROVE  Good(d, m, FALSE, T, c)
<1> DEFINE b == Begin(d, m, FALSE, 0)
<1>1. /\ b.dev = Idle(d) /\ b.mgr = m /\ b.dev.operation = d.operation
      /\ b.dev.unprepared = d.unprepared /\ b.dev.prepared = Unprepared
  <2>1. b.dev = Idle(d) /\ b.mgr = m
    BY DEF Begin
  <2> HIDE DEF b
  <2> QED BY <2>1, IdleDevice
<1> HIDE DEF b
<1>2. Safe(b, T)
  BY <1>1, Zenon DEF Safe
<1>3. ASSUME c PROVE Linked(b)
  <2>1. d.operation \in [Region -> Operation] /\ m.current \in [Region -> Operation]
    BY DEF Device, Manager
  <2>2. d.operation = Unprepared /\ m.current = Unprepared
    <3>1. d.operation = [r \in Region |-> d.operation[r]]
          /\ m.current = [r \in Region |-> m.current[r]]
      BY <2>1
    <3> QED BY <1>3, <3>1, Zenon DEF Unprepared
  <2>3. Agrees(b)
    BY <1>1, <1>3, <2>2, Zenon DEF Agrees, Matched
  <2>4. \A q \in Region : b.mgr.current[q] = "None"
    BY <1>1, <1>3, Zenon
  <2>5. ~is_dirty(b.mgr.buffer)
    BY <1>1, Buffers, Zenon
  <2> QED BY <2>3, <2>4, <2>5, Zenon DEF Linked
<1> QED BY <1>2, <1>3, Zenon DEF Good, b

\* What a request does, seen from outside: it sets cells or fails
Answers(cells, v) ==
  /\ reply' \in BOOLEAN
  /\ \A a \in Addr \ touched' : dev'.flash[a] = Image'[a]
  /\ ~reply' => \A a \in Addr \ touched' : Image'[a] = Image[a]
  /\ reply' => Image' = [a \in Addr |-> IF a \in cells THEN v ELSE Image[a]]

\* What the manager leaves to the next request
Leaves(s, t, T, cells, v) ==
  /\ s \in State /\ Closed(T) /\ Safe(s, T) /\ Sets(s, t, T, cells, v)
  /\ View(s) = Image /\ touched' = T /\ reply' = t.ok
  /\ Image' = View(t) /\ dev'.flash = t.dev.flash

(* A request that leaves the flash to GDB so is answered as FlashSpec has it. *)
LEMMA Answered ==
  ASSUME NEW s, NEW t, NEW T, NEW cells, NEW v, Leaves(s, t, T, cells, v)
  PROVE  Answers(cells, v)
<1>1. t \in State
  BY RunsOn, Zenon DEF Leaves, Sets
<1>2. reply' \in BOOLEAN
  BY <1>1 DEF Leaves, State
<1>3. \A a \in Addr \ T : View(s)[a] = s.dev.flash[a] /\ View(t)[a] = t.dev.flash[a]
  BY <1>1, SeenOutside, Zenon DEF Leaves, Sets
<1>4. \A a \in Addr \ T : t.dev.flash[a] = s.dev.flash[a]
  BY Zenon DEF Leaves, Sets, Spares
<1>5. \A a \in Addr \ touched' : dev'.flash[a] = Image'[a] /\ Image'[a] = Image[a]
  BY <1>3, <1>4, Zenon DEF Leaves
<1>6. ASSUME reply' PROVE Image' = [a \in Addr |-> IF a \in cells THEN v ELSE Image[a]]
  <2>1. \A a \in Addr : Image'[a] = IF a \in cells THEN v ELSE Image[a]
    BY <1>6, Zenon DEF Leaves, Sets
  <2>2. Image' = [a \in Addr |-> Image'[a]]
    <3>1. View(t) = [a \in Addr |-> View(t)[a]]
      BY DEF View, Seen
    <3> QED BY <3>1, Zenon DEF Leaves
  <2> QED BY <2>1, <2>2, Zenon
<1> QED BY <1>2, <1>5, <1>6, Zenon DEF Answers

(* A failed request is a Fail of FlashSpec. *)
LEMMA FailKept ==
  ASSUME NEW cells, NEW v, Answers(cells, v), ~reply', touched \subseteq touched'
  PROVE  Promise!Next
<1>1. reply' = FALSE
  BY DEF Answers
<1>2. Promise!Fail
  BY <1>1, Zenon DEF Answers, Promise!Fail, Promise!Lag
<1> QED BY <1>2, Zenon DEF Promise!Next

(* An erase or a write that succeeds is a Set of FlashSpec. *)
LEMMA SetKept ==
  ASSUME NEW cells, NEW v, Answers(cells, v), reply', touched' = Reach(touched \cup cells)
  PROVE  Promise!Set(cells, v)
<1>1. reply' = TRUE
  BY DEF Answers
<1>2. Promise!Reach(touched \cup cells) = Reach(touched \cup cells)
  BY Zenon DEF Promise!Reach, Reach
<1> QED BY <1>1, <1>2, Zenon DEF Answers, Promise!Set, Promise!Lag

\* A request that stays in flash mode
LEMMA Loaded ==
  ASSUME IInv, NEW f \in Nat, NEW T, Closed(T), touched \subseteq T,
         NEW t, NEW cells, NEW v, Drops(Enter(f), t, T, cells, v),
         Finish(t), mode' = TRUE, touched' = T
  PROVE  IInv' /\ Answers(cells, v)
<1> DEFINE s == Enter(f)
<1>1. /\ s \in State /\ s.mgr = mgr /\ s.dev.flash = dev.flash /\ Clean(s)
      /\ Safe(s, T) /\ View(s) = Image
      /\ calm => Linked(s)
  BY Started
<1> HIDE DEF s
<1>2. Drops(s, t, T, cells, v)
  BY Zenon DEF s
<1>3. t \in State /\ Safe(t, T)
  BY <1>1, <1>2, RunsOn, Zenon DEF Drops, Sets
<1>4. dev' = t.dev /\ mgr' = t.mgr /\ reply' = t.ok /\ calm' = (calm /\ Clean(t))
  BY Zenon DEF Finish, StaysCalm, Clean
<1>5. calm' => Linked(t)
  BY <1>1, <1>2, <1>4 DEF Drops
<1>6. Good(t.dev, t.mgr, TRUE, T, calm') /\ Seen(t.dev.flash, t.mgr.buffer) = View(t)
  BY <1>3, <1>5, StaysGood
<1>7. Image' = View(t)
  BY <1>4, <1>6, Zenon DEF Image
<1>8. Answers(cells, v)
  <2>1. Leaves(s, t, T, cells, v)
    BY <1>1, <1>2, <1>4, <1>7, Zenon DEF Leaves, Drops
  <2> QED BY <2>1, Answered
<1>9. IInv'
  <2>1. Good(dev', mgr', mode', touched', calm')
    BY <1>4, <1>6, Zenon
  <2>2. mode' \in BOOLEAN /\ reply' \in BOOLEAN /\ calm' \in BOOLEAN
    <3>1. calm \in BOOLEAN /\ t.ok \in BOOLEAN
      BY <1>3 DEF IInv, State
    <3>2. Clean(t) \in BOOLEAN
      BY DEF Clean
    <3> QED BY <1>4, <3>1, <3>2
  <2> QED BY <2>1, <2>2, Zenon DEF IInv
<1> QED BY <1>8, <1>9

(* vFlashErase keeps the invariant and the promise. *)
LEMMA EraseRequest ==
  ASSUME IInv, NEW f \in 0..MaxCalls, NEW addr \in Addr, NEW len \in EraseSizes,
         vFlashErase(addr, len, f)
  PROVE  IInv' /\ Promise!Next
<1> DEFINE cells == Covered(addr, len)
           T == Reach(touched \cup cells)
           s == Enter(f)
           t == erase(s, addr, len)
<1>1. addr \in Nat /\ len \in Nat \ {0} /\ f \in Nat
  BY AddrNat, Constants
<1>2. touched \subseteq Addr /\ cells \subseteq Addr
  BY Zenon DEF IInv, Good, Closed, vFlashErase
<1>3. cells = Low(addr)..(Top(addr, len) - 1) /\ Low(addr) \in cells /\ Top(addr, len) - 1 \in cells
  <2>1. /\ cells = Low(addr)..(Top(addr, len) - 1)
        /\ Low(addr) \in Nat /\ Top(addr, len) \in Nat
        /\ Low(addr) <= addr /\ addr + len <= Top(addr, len)
    BY <1>1, CoveredCells
  <2> HIDE DEF cells
  <2> QED BY <1>1, <2>1
<1> HIDE DEF cells
<1>4. Closed(T) /\ touched \subseteq T /\ cells \subseteq T
  <2> DEFINE X == touched \cup cells
  <2>1. X \subseteq Addr /\ touched \subseteq X /\ cells \subseteq X
    BY <1>2
  <2> HIDE DEF X
  <2>2. Reach(X) \subseteq Addr /\ Reach(Reach(X)) \subseteq Reach(X) /\ X \subseteq Reach(X)
    BY <2>1, ReachClosed
  <2> QED BY <2>1, <2>2 DEF Closed, X
<1> HIDE DEF T
<1>5. s \in State /\ s.mgr = mgr /\ Safe(s, T)
  BY <1>1, <1>4, Started
<1> HIDE DEF s
<1>6. s.mgr.buffer = EmptyBuffer
  <2>1. ~is_dirty(s.mgr.buffer)
    BY <1>5, Zenon DEF vFlashErase
  <2> QED BY <1>5, <2>1, NotDirty
<1>7. Drops(s, t, T, cells, Erased)
  BY <1>1, <1>4, <1>5, <1>6, EraseStep DEF cells
<1>8. Finish(t) /\ mode' = TRUE /\ touched' = T
  BY Zenon DEF vFlashErase, s, T, cells
<1> HIDE DEF t
<1>9. IInv' /\ Answers(cells, Erased)
  BY <1>1, <1>4, <1>7, <1>8, Loaded DEF s
<1>10. CASE ~reply'
  BY <1>4, <1>8, <1>9, <1>10, FailKept
<1>11. CASE reply'
  <2>1. Promise!Set(cells, Erased)
    BY <1>8, <1>9, <1>11, SetKept DEF T
  <2>2. Promise!Erase
    BY <1>2, <1>3, <2>1 DEF Promise!Erase
  <2> QED BY <1>9, <2>2, Zenon DEF Promise!Next
<1> QED BY <1>10, <1>11

(* vFlashWrite keeps the invariant and the promise. *)
LEMMA WriteRequest ==
  ASSUME IInv, NEW f \in 0..MaxCalls, NEW dest \in Addr, NEW n \in WriteSizes, NEW v \in Byte,
         vFlashWrite(dest, n, v, f)
  PROVE  IInv' /\ Promise!Next
<1> DEFINE cells == dest..(dest + n - 1)
           T == Reach(touched \cup cells)
           s == Enter(f)
           t == write(s, dest, n, v)
<1>1. dest \in Nat /\ n \in Nat \ {0} /\ f \in Nat
  BY AddrNat, Constants
<1>2. touched \subseteq Addr /\ \A a \in cells : a \in Addr /\ Image[a] = Erased
  BY Zenon DEF IInv, Good, Closed, vFlashWrite
<1>3. dest \in cells /\ dest + n - 1 \in cells
  BY <1>1
<1> HIDE DEF cells
<1>4. Closed(T) /\ touched \subseteq T /\ cells \subseteq T
  <2> DEFINE X == touched \cup cells
  <2>1. X \subseteq Addr /\ touched \subseteq X /\ cells \subseteq X
    BY <1>2
  <2> HIDE DEF X
  <2>2. Reach(X) \subseteq Addr /\ Reach(Reach(X)) \subseteq Reach(X) /\ X \subseteq Reach(X)
    BY <2>1, ReachClosed
  <2> QED BY <2>1, <2>2 DEF Closed, X
<1> HIDE DEF T
<1>5. s \in State /\ s.mgr = mgr /\ Safe(s, T) /\ View(s) = Image
  BY <1>1, <1>4, Started
<1> HIDE DEF s
<1>6. Writable(s, T, cells)
  BY <1>2, <1>4, <1>5 DEF Writable
<1>7. Drops(s, t, T, cells, v)
  BY <1>1, <1>4, <1>5, <1>6, WriteStep DEF cells
<1>8. Finish(t) /\ mode' = TRUE /\ touched' = T
  BY Zenon DEF vFlashWrite, s, T, cells
<1> HIDE DEF t
<1>9. IInv' /\ Answers(cells, v)
  BY <1>1, <1>4, <1>7, <1>8, Loaded DEF s
<1>10. CASE ~reply'
  BY <1>4, <1>8, <1>9, <1>10, FailKept
<1>11. CASE reply'
  <2>1. Promise!Set(cells, v)
    BY <1>8, <1>9, <1>11, SetKept DEF T
  <2> DEFINE e == dest + n - 1
  <2>2. dest \in Addr /\ e \in Addr /\ v \in Byte
    BY <1>2, <1>3
  <2>3. cells = dest..e
    BY Zenon DEF cells
  <2> HIDE DEF e
  <2>4. Promise!Write
    BY <1>2, <2>1, <2>2, <2>3, Zenon DEF Promise!Write
  <2> QED BY <1>9, <2>4, Zenon DEF Promise!Next
<1> QED BY <1>10, <1>11

(* A new manager holds nothing back and has no operation. *)
LEMMA NewManagerFacts ==
  /\ NewManager \in Manager /\ NewManager.buffer = EmptyBuffer
  /\ \A r \in Region : NewManager.current[r] = "None"
BY Buffers DEF NewManager, Manager, Operation

\* What a request leaves that leaves flash mode
LEMMA Left ==
  ASSUME IInv, NEW f \in Nat, NEW t, NEW cells, NEW T, NEW U, NEW v, touched \subseteq T,
         Ends(Enter(f), t, T, cells, v), Closed(U), NEW m \in Manager, m.buffer = EmptyBuffer,
         \A r \in Region : m.current[r] \in {"None", t.mgr.current[r]},
         dev' = Idle(t.dev), mgr' = m, mode' = FALSE, touched' = U,
         StaysCalm(t), reply' = t.ok
  PROVE  /\ IInv' /\ dev'.flash = t.dev.flash /\ Image' = View(t) /\ View(t) = t.dev.flash
         /\ reply' \in BOOLEAN
<1> DEFINE s == Enter(f)
<1>1. s \in State /\ (calm => Linked(s))
  BY Started
<1> HIDE DEF s
<1>2. Ends(s, t, T, cells, v)
  BY Zenon DEF s
<1>3. t \in State
  BY <1>1, <1>2, RunsOn, Zenon DEF Ends, Sets
<1>4. t.dev \in Device /\ t.ok \in BOOLEAN /\ t.mgr.buffer = EmptyBuffer
  BY <1>2, <1>3 DEF State, Ends
<1>5. /\ dev' \in Device /\ dev'.flash = t.dev.flash /\ dev'.operation = t.dev.operation
      /\ dev'.unprepared = t.dev.unprepared
  BY <1>4, IdleDevice
<1>6. calm' = (calm /\ Clean(t))
  BY Zenon DEF StaysCalm, Clean
<1>7. calm' => Agrees(t) /\ AllIdle(t)
  BY <1>1, <1>2, <1>6 DEF Ends
<1>8. ASSUME calm'
      PROVE  /\ \A r \in Region : dev'.operation[r] = "None"
             /\ \A r \in Region : m.current[r] = "None"
             /\ ~dev'.unprepared
  <2>1. Agrees(t) /\ AllIdle(t)
    BY <1>7, <1>8
  <2> QED BY <1>5, <2>1, Zenon DEF Agrees, AllIdle
<1>9. Good(dev', mgr', mode', touched', calm')
  <2> DEFINE d == dev'
             c == calm'
  <2>1. /\ d \in Device
        /\ c => /\ \A r \in Region : d.operation[r] = "None"
                /\ \A r \in Region : m.current[r] = "None"
                /\ ~d.unprepared
    BY <1>5, <1>8
  <2> HIDE DEF d, c
  <2>2. Good(d, m, FALSE, U, c)
    BY <2>1, LeavesGood
  <2> QED BY <2>2, Zenon DEF d, c
<1>10. mode' \in BOOLEAN /\ reply' \in BOOLEAN /\ calm' \in BOOLEAN
  <2>1. calm \in BOOLEAN /\ Clean(t) \in BOOLEAN
    BY DEF IInv, Clean
  <2> QED BY <1>4, <1>6, <2>1
<1>11. View(t) = t.dev.flash /\ Image' = View(t)
  <2>1. t.dev.flash \in [Addr -> Cell]
    BY <1>4 DEF Device
  <2>2. Seen(t.dev.flash, EmptyBuffer) = t.dev.flash
    BY <2>1, SeenEmpty
  <2> QED BY <1>4, <1>5, <2>2, Zenon DEF View, Image
<1> QED BY <1>5, <1>9, <1>10, <1>11, Zenon DEF IInv

(* vFlashDone keeps the invariant and the promise. *)
LEMMA DoneRequest ==
  ASSUME IInv, NEW f \in 0..MaxCalls, vFlashDone(f)
  PROVE  IInv' /\ Promise!Next
<1> DEFINE s == Enter(f)
           t == complete(s)
           m == NewManager
           U == IF t.ok THEN {} ELSE touched
<1>1. f \in Nat /\ Closed(touched)
  BY Constants DEF IInv, Good
<1>2. s \in State /\ Safe(s, touched) /\ View(s) = Image
  BY <1>1, Started
<1>3. Ends(s, t, touched, {}, Erased)
  <2> HIDE DEF s
  <2> QED BY <1>1, <1>2, CompleteStep
<1>4. /\ dev' = Idle(t.dev) /\ mgr' = m /\ mode' = FALSE /\ touched' = U
      /\ StaysCalm(t) /\ reply' = t.ok
  BY Zenon DEF vFlashDone
<1>5. m \in Manager /\ m.buffer = EmptyBuffer /\ \A r \in Region : m.current[r] \in {"None", t.mgr.current[r]}
  <2> HIDE DEF t
  <2> QED BY NewManagerFacts
<1> HIDE DEF t, m
<1>6. Closed(U)
  <2>1. Closed({})
    BY DEF Closed, Reach
  <2> QED BY <1>1, <2>1
<1> HIDE DEF U
<1>7. /\ IInv' /\ dev'.flash = t.dev.flash /\ Image' = View(t) /\ View(t) = t.dev.flash
      /\ reply' \in BOOLEAN
  BY <1>1, <1>3, <1>4, <1>5, <1>6, Left
<1> HIDE DEF s
<1>8. CASE ~t.ok
  <2>1. touched' = touched
    BY <1>4, <1>8 DEF U
  <2>2. Leaves(s, t, touched, {}, Erased)
    BY <1>1, <1>2, <1>3, <1>4, <1>7, <2>1, Zenon DEF Leaves, Ends
  <2>3. Answers({}, Erased)
    BY <2>2, Answered
  <2>4. ~reply'
    BY <1>4, <1>8, Zenon
  <2>5. touched \subseteq touched'
    BY <2>1
  <2> QED BY <1>7, <2>3, <2>4, <2>5, FailKept
<1>9. CASE t.ok
  <2>1. touched' = {}
    BY <1>4, <1>9 DEF U
  <2>2. reply' = TRUE
    BY <1>4, <1>7, <1>9
  <2>3. \A a \in Addr : View(t)[a] = View(s)[a]
    BY <1>3, <1>9 DEF Ends, Sets
  <2>4. View(t) = View(s)
    <3>1. View(t) = [a \in Addr |-> View(t)[a]] /\ View(s) = [a \in Addr |-> View(s)[a]]
      BY DEF View, Seen
    <3> QED BY <2>3, <3>1, Zenon
  <2>5. Promise!Done
    BY <1>2, <1>7, <2>1, <2>2, <2>4, Zenon DEF Promise!Done
  <2> QED BY <1>7, <2>5, Zenon DEF Promise!Next
<1> QED BY <1>8, <1>9

(* monitor mass_erase keeps the invariant and the promise. *)
LEMMA MassRequest ==
  ASSUME IInv, NEW f \in 0..MaxCalls, MassErase(f)
  PROVE  IInv' /\ Promise!Next
<1> DEFINE s == Enter(f)
           t == mass_erase_all(s)
           u == [t EXCEPT !.dev = Idle(@)]
           m == t.mgr
<1>1. f \in Nat /\ Closed(touched) /\ touched \subseteq Addr
  BY Constants DEF IInv, Good, Closed
<1>2. s \in State /\ Safe(s, touched) /\ View(s) = Image /\ Safe(s, Addr)
  BY <1>1, Started
<1>3. Ends(s, t, Addr, Addr, Erased)
  <2> HIDE DEF s
  <2> QED BY <1>1, <1>2, MassEraseStep
<1>4. t \in State
  <2> HIDE DEF s, t
  <2> QED BY <1>2, <1>3, RunsOn, Zenon DEF Ends, Sets
<1>5. Finish(u) /\ mode' = FALSE /\ touched' = Addr
  BY Zenon DEF MassErase
<1> HIDE DEF t
<1>6. /\ u.dev = Idle(t.dev) /\ u.mgr = t.mgr /\ u.ok = t.ok /\ u.calls = t.calls
      /\ u.fault = t.fault
  BY <1>4 DEF State
<1> HIDE DEF u
<1>7. dev' = Idle(t.dev) /\ mgr' = m /\ StaysCalm(t) /\ reply' = t.ok
  BY <1>5, <1>6, Zenon DEF Finish, StaysCalm
<1>8. m \in Manager /\ m.buffer = EmptyBuffer
      /\ \A r \in Region : m.current[r] \in {"None", t.mgr.current[r]}
  BY <1>3, <1>4 DEF State, Ends
<1> HIDE DEF m
<1>9. /\ IInv' /\ dev'.flash = t.dev.flash /\ Image' = View(t) /\ View(t) = t.dev.flash
      /\ reply' \in BOOLEAN
  BY <1>1, <1>3, <1>5, <1>7, <1>8, AddrClosed, Left
<1> HIDE DEF s
<1>10. Answers(Addr, Erased)
  <2>1. Leaves(s, t, Addr, Addr, Erased)
    BY <1>2, <1>3, <1>5, <1>7, <1>9, AddrClosed, Zenon DEF Leaves, Ends
  <2> QED BY <2>1, Answered
<1>11. CASE ~reply'
  <2>1. touched \subseteq touched'
    BY <1>1, <1>5
  <2> QED BY <1>9, <1>10, <1>11, <2>1, FailKept
<1>12. CASE reply'
  <2>1. Reach(touched \cup Addr) = Addr
    <3>1. touched \cup Addr = Addr
      BY <1>1
    <3>2. Reach(Addr) \subseteq Addr /\ Addr \subseteq Reach(Addr)
      BY ReachClosed
    <3> QED BY <3>1, <3>2
  <2>2. Promise!Set(Addr, Erased)
    BY <1>5, <1>10, <1>12, <2>1, SetKept
  <2>3. Promise!MassErase
    BY <2>2, Zenon DEF Promise!MassErase
  <2> QED BY <1>9, <2>3, Zenon DEF Promise!Next
<1> QED BY <1>11, <1>12

(* A detach keeps the invariant and the promise. *)
LEMMA CleanupStep ==
  ASSUME IInv, flash_cleanup
  PROVE  IInv' /\ Promise!Next
<1> DEFINE s == Enter(0)
           b == Begin(dev, mgr, mode, 0)
<1>1. dev \in Device /\ mgr \in Manager /\ mode \in BOOLEAN /\ calm \in BOOLEAN /\ Closed(touched)
  BY DEF IInv, Good
<1>2. /\ s \in State /\ s.mgr = mgr /\ s.dev.flash = dev.flash
      /\ Safe(s, touched) /\ View(s) = Image
  <2>1. 0 \in Nat
    OBVIOUS
  <2> QED BY <2>1, Started
<1> HIDE DEF s
<1>3. /\ dev' = (IF mode THEN Idle(dev) ELSE dev)
      /\ mgr' = NewManager /\ mode' = FALSE /\ reply' = FALSE
      /\ calm' = (calm /\ ~mode) /\ touched' = touched
  BY Zenon DEF flash_cleanup
<1>4. dev' \in Device /\ dev'.flash = dev.flash
  <2>1. Idle(dev) \in Device /\ Idle(dev).flash = dev.flash
    BY <1>1, IdleDevice
  <2> QED BY <1>1, <1>3, <2>1
<1>5. NewManager \in Manager /\ NewManager.buffer = EmptyBuffer
      /\ \A r \in Region : NewManager.current[r] = "None"
  BY NewManagerFacts
<1>6. ASSUME calm'
      PROVE  (\A r \in Region : dev'.operation[r] = "None") /\ ~dev'.unprepared
  <2>1. calm /\ ~mode /\ dev' = dev
    BY <1>1, <1>3, <1>6
  <2>2. Linked(b)
    BY <2>1, Zenon DEF IInv, Good
  <2>3. b.dev = Idle(dev)
    BY <2>1 DEF Begin
  <2>4. b.dev.operation = dev.operation /\ b.dev.unprepared = dev.unprepared
        /\ b.dev.prepared = Unprepared
    <3> HIDE DEF b
    <3> QED BY <1>1, <2>3, IdleDevice
  <2> HIDE DEF b
  <2>5. dev.operation = Unprepared /\ ~dev.unprepared
    BY <2>2, <2>4, Zenon DEF Linked, Agrees, Matched
  <2> QED BY <2>1, <2>5 DEF Unprepared
<1>7. Good(dev', NewManager, FALSE, touched, calm')
  <2> DEFINE d == dev'
             c == calm'
             m == NewManager
  <2>1. /\ d \in Device /\ m \in Manager /\ m.buffer = EmptyBuffer
        /\ c => /\ \A r \in Region : d.operation[r] = "None"
                /\ \A r \in Region : m.current[r] = "None"
                /\ ~d.unprepared
    BY <1>4, <1>5, <1>6
  <2> HIDE DEF d, c, m
  <2>2. Good(d, m, FALSE, touched, c)
    BY <1>1, <2>1, LeavesGood
  <2> QED BY <2>2, Zenon DEF d, c, m
<1>8. IInv'
  <2>1. calm' \in BOOLEAN
    BY <1>1, <1>3
  <2> QED BY <1>3, <1>7, <2>1, Zenon DEF IInv
<1>9. Image' = dev.flash
  <2>1. dev.flash \in [Addr -> Cell]
    BY <1>1 DEF Device
  <2>2. Seen(dev.flash, EmptyBuffer) = dev.flash
    BY <2>1, SeenEmpty
  <2> QED BY <1>3, <1>4, <1>5, <2>2, Zenon DEF Image
<1>10. \A a \in Addr \ touched : Image[a] = dev.flash[a]
  BY <1>1, <1>2, SeenOutside, Zenon
<1>11. Promise!Fail
  BY <1>3, <1>4, <1>9, <1>10 DEF Promise!Fail, Promise!Lag
<1> QED BY <1>8, <1>11, Zenon DEF Promise!Next

-----------------------------------------------------------------------------
(* The theorems.                                                           *)

(* The system starts in order, and as FlashSpec does. *)
LEMMA InitOk == Init => IInv /\ Promise!Init
<1> SUFFICES ASSUME Init PROVE IInv /\ Promise!Init
  OBVIOUS
<1> DEFINE flash == [a \in Addr |-> Erased]
           idle  == [r \in Region |-> "None"]
<1>1. dev = [flash |-> flash, operation |-> idle, prepared |-> idle, unprepared |-> FALSE]
  BY Zenon DEF Init
<1>2. flash \in [Addr -> Cell] /\ flash \in [Addr -> {Erased} \cup Byte] /\ idle \in [Region -> Operation]
  BY DEF Cell, Operation
<1>3. \A r \in Region : idle[r] = "None"
  OBVIOUS
<1> HIDE DEF flash, idle
<1>4. /\ dev \in Device /\ dev.flash = flash /\ dev.operation = idle
      /\ ~dev.unprepared
  BY <1>1, <1>2 DEF Device
<1>5. mgr = NewManager /\ mode = FALSE /\ reply = TRUE /\ touched = {} /\ calm = TRUE
  BY DEF Init
<1>6. Closed({})
  BY DEF Closed, Reach
<1>7. Good(dev, NewManager, FALSE, {}, TRUE)
  <2> DEFINE m == NewManager
             c == TRUE
  <2>1. /\ m \in Manager /\ m.buffer = EmptyBuffer
        /\ c => /\ \A r \in Region : dev.operation[r] = "None"
                /\ \A r \in Region : m.current[r] = "None"
                /\ ~dev.unprepared
    BY <1>3, <1>4, NewManagerFacts
  <2> HIDE DEF m, c
  <2>2. Good(dev, m, FALSE, {}, c)
    BY <1>4, <1>6, <2>1, LeavesGood
  <2> QED BY <2>2, Zenon DEF m, c
<1>8. IInv
  BY <1>5, <1>7 DEF IInv
<1>9. Image = flash
  <2>1. Seen(flash, EmptyBuffer) = flash
    BY <1>2, SeenEmpty
  <2> QED BY <1>4, <1>5, <2>1, NewManagerFacts, Zenon DEF Image
<1>10. Promise!Init
  BY <1>2, <1>4, <1>5, <1>9 DEF Promise!Init
<1> QED BY <1>8, <1>10

(* Every step keeps the invariant and is a step of FlashSpec, or none. *)
LEMMA NextOk == IInv /\ [Next]_vars => IInv' /\ [Promise!Next]_(Promise!vars)
<1> SUFFICES ASSUME IInv, [Next]_vars PROVE IInv' /\ [Promise!Next]_(Promise!vars)
  OBVIOUS
<1>1. CASE UNCHANGED vars
  <2>1. /\ dev' = dev /\ mgr' = mgr /\ mode' = mode /\ reply' = reply
        /\ touched' = touched /\ calm' = calm
    BY <1>1 DEF vars
  <2>2. IInv'
    BY <2>1, Zenon DEF IInv
  <2>3. Image' = Image
    BY <2>1, Zenon DEF Image
  <2>4. UNCHANGED Promise!vars
    BY <2>1, <2>3 DEF Promise!vars
  <2> QED BY <2>2, <2>4
<1>2. ASSUME NEW f \in 0..MaxCalls, NEW a \in Addr, NEW n \in EraseSizes, vFlashErase(a, n, f)
      PROVE  IInv' /\ Promise!Next
  BY <1>2, EraseRequest
<1>3. ASSUME NEW f \in 0..MaxCalls, NEW a \in Addr, NEW n \in WriteSizes, NEW v \in Byte,
             vFlashWrite(a, n, v, f)
      PROVE  IInv' /\ Promise!Next
  BY <1>3, WriteRequest
<1>4. ASSUME NEW f \in 0..MaxCalls, vFlashDone(f) PROVE IInv' /\ Promise!Next
  BY <1>4, DoneRequest
<1>5. ASSUME NEW f \in 0..MaxCalls, MassErase(f) PROVE IInv' /\ Promise!Next
  BY <1>5, MassRequest
<1>6. CASE flash_cleanup
  BY <1>6, CleanupStep
<1>7. CASE Next
  BY <1>2, <1>3, <1>4, <1>5, <1>6, <1>7, Zenon DEF Next
<1> QED BY <1>1, <1>7

(* At every moment what is held back lies within the load, over erased cells, and until a
   callback fails the manager, the driver and the controller agree. *)
THEOREM InOrder == Spec => []IInv
<1>1. Init => IInv
  BY InitOk
<1>2. IInv /\ [Next]_vars => IInv'
  BY NextOk
<1> QED BY <1>1, <1>2, PTL DEF Spec

(* The manager and the driver keep to their types. *)
THEOREM TypeCorrect == Spec => []TypeOK
<1>1. IInv => TypeOK
  <2> SUFFICES ASSUME IInv PROVE TypeOK
    OBVIOUS
  <2> DEFINE b == mgr.buffer
             s == Enter(0)
  <2>1. dev \in Device /\ mgr \in Manager /\ touched \subseteq Addr
        /\ mode \in BOOLEAN /\ reply \in BOOLEAN /\ calm \in BOOLEAN
    BY DEF IInv, Good, Closed
  <2>2. s.mgr = mgr /\ Safe(s, touched)
    <3>1. 0 \in Nat
      OBVIOUS
    <3> QED BY <3>1, Started
  <2> HIDE DEF s
  <2>3. b \in Buffer
    <3>1. b \in Sector
      BY <2>1 DEF Manager
    <3>2. CASE b = EmptyBuffer
      BY <3>2 DEF EmptyBuffer, Buffer
    <3>3. CASE b # EmptyBuffer
      <4>1. Holds(b) /\ b.low \in Addr /\ b.high - 1 \in Addr
        BY <2>1, <2>2, <3>3, Zenon DEF Safe, Fits
      <4>2. /\ b.base \in Nat /\ b.base % BUF = 0 /\ b.base <= b.low /\ b.low < b.high
            /\ b.high <= b.base + BUF /\ b.low \in Int /\ b.high \in Int
        BY <3>1, <4>1 DEF Holds, Sector
      <4>3. PICK r \in Region : b.low \in Cells(r)
        BY <4>1 DEF Addr
      <4>4. b.low - (b.low % BUF) = b.base
        <5> DEFINE f == b.low - (b.low % BUF)
        <5>1. BUF \in Nat \ {0} /\ b.low \in Int /\ b.base \in Int
          BY <4>2, Constants
        <5>2. f \in Int /\ f % BUF = 0 /\ f <= b.low
          BY <5>1, Floor
        <5>3. b.base <= f
          <6>1. \A m \in Int : m % BUF = 0 /\ m <= b.low => m <= b.low - (b.low % BUF)
            BY <5>1, Floor
          <6> QED BY <4>2, <5>1, <6>1, Zenon DEF f
        <5>4. b.low < b.base => b.low - (b.low % BUF) + BUF <= b.base
          BY <4>2
        <5>5. f <= b.base
          <6>1. (b.base + BUF) % BUF = 0
            <7>1. BUF % BUF = 0
              <8>1. BUF * 1 = BUF /\ 1 \in Int
                BY <5>1
              <8> QED BY <5>1, <8>1, Multiple
            <7> QED BY <4>2, <5>1, <7>1, SumOfMultiples
          <6>2. b.low < b.base + BUF /\ b.base + BUF \in Int
            BY <4>2, <5>1
          <6>3. \A m \in Int : m % BUF = 0 /\ b.low < m => b.low - (b.low % BUF) + BUF <= m
            BY <5>1, Floor
          <6>4. f + BUF <= b.base + BUF
            BY <6>1, <6>2, <6>3
          <6> HIDE DEF f
          <6> QED BY <5>1, <5>2, <6>4
        <5> HIDE DEF f
        <5>6. f = b.base
          BY <5>1, <5>2, <5>3, <5>5
        <5> QED BY <5>6 DEF f
      <4>5. b.base \in Addr
        <5>1. BUF \in {BLOCK, BUF}
          OBVIOUS
        <5>2. b.low - (b.low % BUF) \in Cells(r) /\ Cells(r) \subseteq Addr
          BY <4>3, <5>1, Layout
        <5> QED BY <4>4, <5>2
      <4>6. b.high = (b.high - 1) + 1
        BY <4>2
      <4>7. b.high \in {a + 1 : a \in Addr}
        BY <4>1, <4>6
      <4>8. b = [base |-> b.base, low |-> b.low, high |-> b.high, data |-> b.data]
            /\ b.data \in [0..(BUF - 1) -> Byte \cup {Erased}]
        BY <3>1 DEF Sector, Bytes
      <4> HIDE DEF b
      <4> QED BY <4>1, <4>5, <4>7, <4>8 DEF Buffer
    <3> QED BY <3>2, <3>3
  <2>4. mgr \in [current : [Region -> Operation], active : Region \cup {NoRegion}, buffer : Buffer]
    BY <2>1, <2>3 DEF Manager
  <2> QED BY <2>1, <2>4 DEF TypeOK, Device
<1> QED BY <1>1, InOrder, PTL

\* The callbacks run on a controller that is prepared for them
THEOREM CallbacksPrepared == Spec => []CallbacksArePrepared
<1>1. IInv => CallbacksArePrepared
  <2> SUFFICES ASSUME IInv, calm PROVE ~dev.unprepared
    BY DEF CallbacksArePrepared
  <2> DEFINE b == Begin(dev, mgr, mode, 0)
  <2>1. Linked(b)
    BY Zenon DEF IInv, Good
  <2>2. dev \in Device /\ mgr \in Manager /\ mode \in BOOLEAN /\ 0 \in Nat
    BY DEF IInv, Good
  <2>3. b.dev.unprepared = dev.unprepared
    BY <2>2, Beginning
  <2> HIDE DEF b
  <2> QED BY <2>1, <2>3, Zenon DEF Linked, Agrees
<1> QED BY <1>1, InOrder, PTL

\* The requests keep the promise
THEOREM PromiseKept == Spec => FlashPromise
<1>1. Init => IInv /\ Promise!Init
  BY InitOk
<1>2. IInv /\ [Next]_vars => IInv' /\ [Promise!Next]_(Promise!vars)
  BY NextOk
<1> QED BY <1>1, <1>2, InOrder, PTL DEF Spec, FlashPromise, Promise!Spec
=============================================================================
