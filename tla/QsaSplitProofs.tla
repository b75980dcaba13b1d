--------------------------- MODULE QsaSplitProofs ---------------------------
(***************************************************************************)
(* The split kernel implements QsaAttention for every set of shapes, every *)
(* order of its programs and every state of the scratch, as long as the    *)
(* arrival counters were zero when the first call began.                   *)
(***************************************************************************)
EXTENDS QsaSplit, FiniteSetTheorems, TLAPS

USE DEF Contract

-----------------------------------------------------------------------------
(* The arithmetic of the tiles *)

\* Integer division, as the kernel uses it to count tiles and blocks.
LEMMA Quotient ==
  ASSUME NEW a \in Nat, NEW b \in Nat \ {0}
  PROVE  a \div b \in Nat /\ b * (a \div b) <= a /\ a < b * (a \div b) + b
  OBVIOUS

\* Multiplying by a block size keeps the order.
LEMMA Scaled ==
  ASSUME NEW a \in Nat, NEW b \in Nat, NEW k \in Nat, a <= b
  PROVE  a * k \in Nat /\ b * k \in Nat /\ a * k <= b * k
  OBVIOUS

Counts == {1, 2, 4, 8}

\* The bounds of consecutive splits never go back, and end at the last tile.
LEMMA BoundsGrow ==
  ASSUME NEW T \in Nat, NEW n \in Counts, NEW i \in 0 .. n, NEW j \in 0 .. n, i <= j
  PROVE  /\ (T * i) \div n \in Nat /\ (T * j) \div n \in Nat
         /\ (T * i) \div n <= (T * j) \div n
         /\ (T * i) \div n <= T
         /\ i < n /\ T # 0 => (T * i) \div n < T
  <1>1. T * i \in Nat /\ T * j \in Nat /\ T * n \in Nat /\ T * i <= T * j /\ T * j <= T * n
    BY DEF Counts
  <1>2. i < n /\ T # 0 => T * i < T * n
    BY DEF Counts
  <1>3. CASE n = 1 BY <1>1, <1>2, <1>3
  <1>4. CASE n = 2 BY <1>1, <1>2, <1>4
  <1>5. CASE n = 4 BY <1>1, <1>2, <1>5
  <1>6. CASE n = 8 BY <1>1, <1>2, <1>6
  <1> QED BY <1>3, <1>4, <1>5, <1>6 DEF Counts

\* Every tile is in some split.
LEMMA TileIsSplit ==
  ASSUME NEW T \in Nat, NEW n \in Counts, NEW t \in 0 .. T - 1
  PROVE  \E i \in 0 .. n - 1 : (T * i) \div n <= t /\ t < (T * (i + 1)) \div n
  <1>1. CASE n = 1 BY <1>1
  <1>2. CASE n = 2
    <2>1. CASE t < (T * 1) \div 2 BY <1>2, <2>1
    <2>2. CASE ~(t < (T * 1) \div 2) BY <1>2, <2>2
    <2> QED BY <2>1, <2>2
  <1>3. CASE n = 4
    <2> DEFINE b(i) == (T * i) \div 4
    <2>1. b(0) = 0 /\ b(4) = T OBVIOUS
    <2>2. (b(0) <= t /\ t < b(1)) \/ (b(1) <= t /\ t < b(2)) \/ (b(2) <= t /\ t < b(3))
            \/ (b(3) <= t /\ t < b(4))
      OBVIOUS
    <2> QED BY <1>3, <2>2
  <1>4. CASE n = 8
    <2> DEFINE b(i) == (T * i) \div 8
    <2>1. b(0) = 0 /\ b(8) = T OBVIOUS
    <2>2. \/ (b(0) <= t /\ t < b(1)) \/ (b(1) <= t /\ t < b(2))
          \/ (b(2) <= t /\ t < b(3)) \/ (b(3) <= t /\ t < b(4))
          \/ (b(4) <= t /\ t < b(5)) \/ (b(5) <= t /\ t < b(6))
          \/ (b(6) <= t /\ t < b(7)) \/ (b(7) <= t /\ t < b(8))
      OBVIOUS
    <2> QED BY <1>4, <2>2
  <1> QED BY <1>1, <1>2, <1>3, <1>4 DEF Counts

-----------------------------------------------------------------------------
(* The rows of the splits *)

\* What the geometry is made of.
LEMMA Sizes ==
  ASSUME NEW c \in Shapes, NEW s \in 0 .. c.batch - 1
  PROVE  /\ Block(c) \in Nat \ {0} /\ NSplits(c, s) \in Counts
         /\ c.cu[s] \in Nat /\ c.cu[s + 1] \in Nat /\ c.cu[s] <= c.cu[s + 1]
         /\ Tiles(c, s) \in Nat
         /\ c.cu[s + 1] - c.cu[s] <= Tiles(c, s) * Block(c)
         /\ Tiles(c, s) # 0 => (Tiles(c, s) - 1) * Block(c) < c.cu[s + 1] - c.cu[s]
<1>1. Block(c) \in Nat \ {0}
  BY SizeAssumption DEF Block
<1>2. NSplits(c, s) \in Counts
  BY DEF NSplits, Counts
<1>3. c.cu[s] \in Nat /\ c.cu[s + 1] \in Nat /\ c.cu[s] <= c.cu[s + 1]
  <2>1. /\ c.batch \in Nat \ {0} /\ c.cu \in [0 .. c.batch -> Nat]
        /\ \A x \in 0 .. c.batch - 1 : c.cu[x] <= c.cu[x + 1]
    BY ShapeAssumption
  <2>2. s \in 0 .. c.batch /\ s + 1 \in 0 .. c.batch
    BY <2>1
  <2> QED BY <2>1, <2>2
<1> DEFINE len == c.cu[s + 1] - c.cu[s]
           b == Block(c)
           T == Tiles(c, s)
<1>4. len \in Nat /\ len + b - 1 \in Nat /\ T = (len + b - 1) \div b
  BY <1>1, <1>3 DEF Tiles
<1> HIDE DEF len, b, T
<1>5. T \in Nat /\ b * T <= len + b - 1 /\ len + b - 1 < b * T + b
  BY <1>1, <1>4, Quotient DEF b
<1>6. b * T = T * b /\ (T - 1) * b = b * T - b /\ b \in Nat /\ b * T \in Nat
  BY <1>1, <1>5 DEF b
<1>7. len <= T * b /\ (T # 0 => (T - 1) * b < len)
  BY <1>4, <1>5, <1>6
<1> QED BY <1>1, <1>2, <1>3, <1>5, <1>7 DEF len, b, T

\* A split begins where its first tile does, and not after it ends.
LEMMA Bounds ==
  ASSUME NEW c \in Shapes, NEW s \in 0 .. c.batch - 1, NEW i \in 0 .. NSplits(c, s) - 1
  PROVE  /\ KvStart(c, s, i) \in Nat /\ KvStop(c, s, i) \in Nat
         /\ KvStart(c, s, i) <= KvStop(c, s, i)
         /\ c.cu[s] <= KvStart(c, s, i) /\ KvStop(c, s, i) <= c.cu[s + 1]
         /\ TileLo(c, s, i) \in Nat /\ TileLo(c, s, i + 1) \in Nat
<1> DEFINE b == Block(c)
           T == Tiles(c, s)
           n == NSplits(c, s)
           lo == TileLo(c, s, i)
           hi == TileLo(c, s, i + 1)
<1>1. /\ b \in Nat \ {0} /\ n \in Counts /\ T \in Nat
      /\ c.cu[s] \in Nat /\ c.cu[s + 1] \in Nat /\ c.cu[s] <= c.cu[s + 1]
      /\ T # 0 => (T - 1) * b < c.cu[s + 1] - c.cu[s]
  BY Sizes
<1>2. i \in 0 .. n /\ i + 1 \in 0 .. n /\ i < n /\ i <= i + 1
  BY <1>1 DEF Counts
<1>3. lo = (T * i) \div n /\ hi = (T * (i + 1)) \div n
  BY DEF TileLo
<1> HIDE DEF b, T, n, lo, hi
<1>4. lo \in Nat /\ hi \in Nat /\ lo <= hi /\ lo <= T /\ (T # 0 => lo < T)
  BY <1>1, <1>2, <1>3, BoundsGrow
<1>5. lo * b \in Nat /\ hi * b \in Nat /\ lo * b <= hi * b
  BY <1>1, <1>4, Scaled
<1>6. lo * b <= c.cu[s + 1] - c.cu[s]
  <2>1. CASE T = 0
    <3>1. lo = 0 BY <1>4, <2>1
    <3> QED BY <1>1, <3>1
  <2>2. CASE T # 0
    <3>1. T - 1 \in Nat /\ lo <= T - 1 BY <1>1, <1>4, <2>2
    <3>2. lo * b <= (T - 1) * b /\ (T - 1) * b \in Nat BY <1>1, <1>4, <3>1, Scaled
    <3> QED BY <1>1, <1>5, <2>2, <3>2
  <2> QED BY <2>1, <2>2
<1>7. /\ KvStart(c, s, i) = c.cu[s] + lo * b
      /\ KvStop(c, s, i) = Least(c.cu[s] + hi * b, c.cu[s + 1])
  BY DEF KvStart, KvStop, b, lo, hi
<1>8. KvStop(c, s, i) \in {c.cu[s] + hi * b, c.cu[s + 1]} /\ KvStop(c, s, i) <= c.cu[s + 1]
  BY <1>1, <1>5, <1>7 DEF Least
<1> QED BY <1>1, <1>4, <1>5, <1>6, <1>7, <1>8 DEF lo, hi

\* The rows a program visits are those from its first tile to its last.
LEMMA VisitedIsRange ==
  ASSUME NEW c \in Shapes, NEW s \in 0 .. c.batch - 1, NEW i \in 0 .. NSplits(c, s) - 1
  PROVE  Visited(c, s, i) = KvStart(c, s, i) .. KvStop(c, s, i) - 1
<1>1. /\ Block(c) \in Nat \ {0} /\ Tiles(c, s) \in Nat /\ NSplits(c, s) \in Counts
      /\ c.cu[s] \in Nat /\ c.cu[s + 1] \in Nat /\ c.cu[s] <= c.cu[s + 1]
  BY Sizes
<1>2. KvStart(c, s, i) <= KvStop(c, s, i) /\ KvStart(c, s, i) \in Nat /\ KvStop(c, s, i) \in Nat
  BY Bounds
<1> DEFINE b == Block(c)
           d == KvStop(c, s, i) - KvStart(c, s, i)
           q == d \div b
<1>3. q \in Nat /\ b * q <= d /\ d < b * q + b
  <2>1. d \in Nat
    BY <1>2
  <2> HIDE DEF b, d
  <2> QED BY <1>1, <2>1, Quotient DEF b
<1>4. q * b = b * q /\ b * q \in Nat
  BY <1>1, <1>3
<1> HIDE DEF q
<1> QED BY <1>1, <1>2, <1>3, <1>4 DEF Visited, q

\* The splits of a sequence partition its rows.
LEMMA SplitsPartition ==
  ASSUME NEW c \in Shapes, NEW s \in 0 .. c.batch - 1
  PROVE  /\ UNION {Visited(c, s, i) : i \in 0 .. NSplits(c, s) - 1} = c.cu[s] .. c.cu[s + 1] - 1
         /\ \A i, j \in 0 .. NSplits(c, s) - 1 :
              i # j => Visited(c, s, i) \cap Visited(c, s, j) = {}
<1> DEFINE b == Block(c)
           T == Tiles(c, s)
           n == NSplits(c, s)
           lo(i) == TileLo(c, s, i)
           V(i) == Visited(c, s, i)
<1>1. /\ b \in Nat \ {0} /\ n \in Counts /\ T \in Nat
      /\ c.cu[s] \in Nat /\ c.cu[s + 1] \in Nat /\ c.cu[s] <= c.cu[s + 1]
      /\ c.cu[s + 1] - c.cu[s] <= T * b
  BY Sizes
<1>2. \A i \in 0 .. n - 1 :
        /\ V(i) = KvStart(c, s, i) .. KvStop(c, s, i) - 1
        /\ KvStart(c, s, i) \in Nat /\ KvStop(c, s, i) \in Nat
        /\ c.cu[s] <= KvStart(c, s, i) /\ KvStop(c, s, i) <= c.cu[s + 1]
        /\ lo(i) \in Nat /\ lo(i + 1) \in Nat
  BY VisitedIsRange, Bounds
<1>3. ASSUME NEW r \in c.cu[s] .. c.cu[s + 1] - 1 PROVE \E i \in 0 .. n - 1 : r \in V(i)
  <2> DEFINE d == r - c.cu[s]
             t == d \div b
  <2>1. d \in Nat /\ d < c.cu[s + 1] - c.cu[s]
    BY <1>1
  <2> HIDE DEF b, T, n, d, t
  <2>2. t \in Nat /\ b * t <= d /\ d < b * t + b
    BY <1>1, <2>1, Quotient DEF t
  <2>3. t \in 0 .. T - 1
    <3>1. b * t < T * b
      BY <1>1, <2>1, <2>2
    <3>2. T <= t => T * b <= t * b
      BY <1>1, <2>2, Scaled
    <3>3. t * b = b * t
      BY <1>1, <2>2
    <3> QED BY <1>1, <2>2, <3>1, <3>2, <3>3
  <2>4. PICK i \in 0 .. n - 1 : (T * i) \div n <= t /\ t < (T * (i + 1)) \div n
    BY <1>1, <2>3, TileIsSplit
  <2>5. lo(i) <= t /\ t + 1 <= lo(i + 1) /\ lo(i) \in Nat /\ lo(i + 1) \in Nat
    BY <1>2, <2>2, <2>4 DEF TileLo, T, n
  <2> HIDE DEF lo
  <2>6. lo(i) * b <= t * b /\ (t + 1) * b <= lo(i + 1) * b
    BY <1>1, <2>2, <2>5, Scaled
  <2>7. t * b = b * t /\ (t + 1) * b = b * t + b
    BY <1>1, <2>2
  <2>8. lo(i) * b <= d /\ d < lo(i + 1) * b /\ lo(i) * b \in Nat /\ lo(i + 1) * b \in Nat
    BY <1>1, <2>1, <2>2, <2>5, <2>6, <2>7
  <2>9. /\ KvStart(c, s, i) = c.cu[s] + lo(i) * b
        /\ KvStop(c, s, i) = Least(c.cu[s] + lo(i + 1) * b, c.cu[s + 1])
    BY DEF KvStart, KvStop, b, lo
  <2>10. KvStart(c, s, i) <= r /\ r < KvStop(c, s, i)
    BY <1>1, <2>8, <2>9 DEF d, Least
  <2> QED BY <1>1, <1>2, <2>10 DEF n
<1>4. ASSUME NEW i \in 0 .. n - 1, NEW j \in 0 .. n - 1, i < j PROVE V(i) \cap V(j) = {}
  <2>1. i + 1 \in 0 .. n /\ j \in 0 .. n /\ i + 1 <= j
    BY <1>1, <1>4 DEF Counts
  <2>2. lo(i + 1) = (T * (i + 1)) \div n /\ lo(j) = (T * j) \div n
    BY DEF TileLo
  <2> HIDE DEF b, T, n, V
  <2>3. lo(i + 1) <= lo(j) /\ lo(i + 1) \in Nat /\ lo(j) \in Nat
    BY <1>1, <2>1, <2>2, BoundsGrow
  <2> HIDE DEF lo
  <2>4. lo(i + 1) * b <= lo(j) * b /\ lo(i + 1) * b \in Nat /\ lo(j) * b \in Nat
    BY <1>1, <2>3, Scaled
  <2>5. /\ KvStart(c, s, j) = c.cu[s] + lo(j) * b
        /\ KvStop(c, s, i) = Least(c.cu[s] + lo(i + 1) * b, c.cu[s + 1])
    BY DEF KvStart, KvStop, b, lo
  <2>6. KvStop(c, s, i) <= KvStart(c, s, j)
    BY <1>1, <2>4, <2>5 DEF Least
  <2> QED BY <1>2, <2>6 DEF n
<1>5. \A i, j \in 0 .. n - 1 : i # j => V(i) \cap V(j) = {}
  <2>1. \A i, j \in 0 .. n - 1 : i # j => i < j \/ j < i
    BY <1>1 DEF Counts
  <2> HIDE DEF V, n
  <2> QED BY <1>4, <2>1
<1>6. ASSUME NEW i \in 0 .. n - 1, NEW r \in V(i) PROVE r \in c.cu[s] .. c.cu[s + 1] - 1
  <2> HIDE DEF b, T, n, lo, V
  <2>1. /\ r \in KvStart(c, s, i) .. KvStop(c, s, i) - 1
        /\ KvStart(c, s, i) \in Nat /\ KvStop(c, s, i) \in Nat
        /\ c.cu[s] <= KvStart(c, s, i) /\ KvStop(c, s, i) <= c.cu[s + 1]
    BY <1>2, <1>6
  <2>2. c.cu[s] \in Nat /\ c.cu[s + 1] \in Nat
    BY <1>1
  <2> HIDE <1>1, <1>2
  <2> QED BY <2>1, <2>2
<1> HIDE DEF V
<1> QED BY <1>3, <1>5, <1>6 DEF V, n

-----------------------------------------------------------------------------
(* The inductive invariant *)

Seqs == 0 .. call.batch - 1
Heads == 0 .. call.kvHeads - 1
N(s) == NSplits(call, s)
At(s, h, i) == pc[[seq |-> s, head |-> h, split |-> i]]
Rows(s, h, i) == [tag : {tag}, head : {h}, row : Visited(call, s, i)]
Arrived(s, h) == {i \in 0 .. N(s) - 1 : At(s, h, i) \in {"merge", "reset", "done"}}
Finished(s, h) == \A i \in 0 .. N(s) - 1 : At(s, h, i) = "done"
Open(s, h) == \E i \in 0 .. N(s) - 1 : At(s, h, i) \in {"scan", "arrive", "merge"}

\* The programs of one sequence and kv head: who merges has seen the others leave, the
\* counter counts the arrivals until it is reset, and the rows are unwritten until then.
Unused(s, h) == \A i \in Splits : i >= N(s) => At(s, h, i) = "done"
Single(s, h) == N(s) = 1 => At(s, h, 0) \in {"scan", "done"}
Stored(s, h) ==
  N(s) # 1 =>
    \A i \in 0 .. N(s) - 1 :
      At(s, h, i) # "scan" => partial[SlotAt(call, s, h)][i] = Rows(s, h, i)
OneMerger(s, h) ==
  \A i, j \in 0 .. N(s) - 1 :
    At(s, h, i) \in {"merge", "reset"} /\ j # i => At(s, h, j) = "done"
Counted(s, h) ==
  counter[SlotAt(call, s, h)] = IF Finished(s, h) THEN 0 ELSE Cardinality(Arrived(s, h))
Written(s, h) ==
  \A o \in Group(s, h) : out[o] = IF Open(s, h) THEN None ELSE A!Attended(o)

GroupOK(s, h) ==
  /\ Unused(s, h) /\ Single(s, h) /\ Stored(s, h)
  /\ OneMerger(s, h) /\ Counted(s, h) /\ Written(s, h)

FreeSlots ==
  \A k \in Slots :
    (~CanUse(call) \/ \A s \in Seqs, h \in Heads : SlotAt(call, s, h) # k) => counter[k] = 0

FallbackOK ==
  \A o \in A!Outputs :
    /\ At(o.seq, o.head, 0) \in {"scan", "done"}
    /\ out[o] = IF At(o.seq, o.head, 0) = "scan" THEN None ELSE A!Attended(o)

Inv ==
  /\ TypeOK
  /\ FreeSlots
  /\ CanUse(call) => \A s \in Seqs, h \in Heads : GroupOK(s, h)
  /\ ~CanUse(call) => FallbackOK

-----------------------------------------------------------------------------
(* Lemmas about a call *)

\* A call's shape, its splits and its slots.
LEMMA Shape ==
  ASSUME call \in Shapes, NEW s \in Seqs
  PROVE  /\ N(s) \in Counts /\ 0 .. N(s) - 1 \subseteq Splits
         /\ s \in 0 .. call.batch - 1 /\ s \in Nat
         /\ call.batch \in Nat \ {0} /\ call.kvHeads \in Nat \ {0}
<1>1. s \in 0 .. call.batch - 1 /\ call.batch \in Nat \ {0} /\ call.kvHeads \in Nat \ {0}
  BY ShapeAssumption DEF Seqs
<1>2. N(s) \in Counts
  BY <1>1, Sizes DEF N
<1> QED BY <1>1, <1>2 DEF Counts, Splits, MAX_SPLITS

\* Two groups have two slots, and the scratch has them.
LEMMA OwnSlot ==
  ASSUME call \in Shapes, CanUse(call), NEW s \in Seqs, NEW h \in Heads,
         NEW s2 \in Seqs, NEW h2 \in Heads
  PROVE  /\ SlotAt(call, s, h) \in Slots
         /\ SlotAt(call, s, h) = SlotAt(call, s2, h2) => s = s2 /\ h = h2
<1> DEFINE k == call.kvHeads
           m == call.batch
<1>1. /\ m \in Nat \ {0} /\ k \in Nat \ {0} /\ m <= MaxBatch /\ k <= MaxKvHeads
      /\ MaxBatch \in Nat /\ MaxKvHeads \in Nat
  BY ShapeAssumption, SizeAssumption DEF CanUse
<1>2. s \in 0 .. m - 1 /\ s2 \in 0 .. m - 1 /\ h \in 0 .. k - 1 /\ h2 \in 0 .. k - 1
  BY DEF Seqs, Heads
<1>3. SlotAt(call, s, h) = s * k + h /\ SlotAt(call, s2, h2) = s2 * k + h2
  BY DEF SlotAt
<1> HIDE DEF k, m
<1>4. s * k + h \in Nat /\ s * k + h < m * k
  <2>1. s * k <= (m - 1) * k /\ s * k \in Nat /\ (m - 1) * k \in Nat
    <3>1. s \in Nat /\ m - 1 \in Nat /\ s <= m - 1 /\ k \in Nat BY <1>1, <1>2
    <3> QED BY <3>1, Scaled
  <2>2. (m - 1) * k = m * k - k /\ m * k \in Nat BY <1>1
  <2> QED BY <1>1, <1>2, <2>1, <2>2
<1>5. m * k <= MaxBatch * MaxKvHeads
  <2>1. m * k <= MaxBatch * k /\ m * k \in Nat /\ MaxBatch * k \in Nat BY <1>1, Scaled
  <2>2. k * MaxBatch <= MaxKvHeads * MaxBatch /\ k * MaxBatch \in Nat
          /\ MaxKvHeads * MaxBatch \in Nat
    BY <1>1, Scaled
  <2>3. k * MaxBatch = MaxBatch * k /\ MaxKvHeads * MaxBatch = MaxBatch * MaxKvHeads BY <1>1
  <2> QED BY <2>1, <2>2, <2>3
<1>6. s * k + h \in 0 .. MaxBatch * MaxKvHeads - 1
  <2>1. m * k \in Nat /\ MaxBatch * MaxKvHeads \in Nat BY <1>1
  <2> QED BY <1>4, <1>5, <2>1
<1>7. ASSUME s < s2 PROVE s * k + h # s2 * k + h2
  <2>1. (s + 1) * k <= s2 * k /\ s2 * k \in Nat /\ (s + 1) * k \in Nat
    <3>1. s + 1 \in Nat /\ s2 \in Nat /\ k \in Nat /\ s + 1 <= s2 BY <1>1, <1>2, <1>7
    <3> QED BY <3>1, Scaled
  <2>2. (s + 1) * k = s * k + k /\ s * k \in Nat BY <1>1, <1>2
  <2> QED BY <1>1, <1>2, <2>1, <2>2
<1>8. ASSUME s2 < s PROVE s * k + h # s2 * k + h2
  <2>1. (s2 + 1) * k <= s * k /\ s * k \in Nat /\ (s2 + 1) * k \in Nat
    <3>1. s2 + 1 \in Nat /\ s \in Nat /\ k \in Nat /\ s2 + 1 <= s BY <1>1, <1>2, <1>8
    <3> QED BY <3>1, Scaled
  <2>2. (s2 + 1) * k = s2 * k + k /\ s2 * k \in Nat BY <1>1, <1>2
  <2> QED BY <1>1, <1>2, <2>1, <2>2
<1>9. s = s2 /\ s * k + h = s2 * k + h2 => h = h2
  <2>1. s * k \in Nat BY <1>1, <1>2
  <2> QED BY <1>2, <2>1
<1>10. s = s2 \/ s < s2 \/ s2 < s
  BY <1>1, <1>2
<1> QED BY <1>3, <1>6, <1>7, <1>8, <1>9, <1>10 DEF Slots

\* The partials of a group add up to what its output rows attend to.
LEMMA RowsSum ==
  ASSUME call \in Shapes, NEW s \in Seqs, NEW h
  PROVE  /\ UNION {Rows(s, h, i) : i \in 0 .. N(s) - 1}
              = [tag : {tag}, head : {h}, row : call.cu[s] .. call.cu[s + 1] - 1]
         /\ \A i, j \in 0 .. N(s) - 1 : i # j => Rows(s, h, i) \cap Rows(s, h, j) = {}
<1> DEFINE V(i) == Visited(call, s, i)
           all == call.cu[s] .. call.cu[s + 1] - 1
<1>1. /\ UNION {V(i) : i \in 0 .. N(s) - 1} = all
      /\ \A i, j \in 0 .. N(s) - 1 : i # j => V(i) \cap V(j) = {}
  BY SplitsPartition DEF N, Seqs
<1>2. \A i : Rows(s, h, i) = [tag : {tag}, head : {h}, row : V(i)]
  BY DEF Rows
<1> HIDE DEF V, all
<1>3. ASSUME NEW x \in [tag : {tag}, head : {h}, row : all]
      PROVE  \E i \in 0 .. N(s) - 1 : x \in Rows(s, h, i)
  <2>1. PICK i \in 0 .. N(s) - 1 : x.row \in V(i) BY <1>1
  <2> QED BY <1>2, <2>1
<1>4. ASSUME NEW i \in 0 .. N(s) - 1, NEW x \in Rows(s, h, i)
      PROVE  x \in [tag : {tag}, head : {h}, row : all]
  <2>1. x \in [tag : {tag}, head : {h}, row : V(i)] BY <1>2
  <2>2. V(i) \subseteq all BY <1>1
  <2> QED BY <2>1, <2>2
<1>5. ASSUME NEW i \in 0 .. N(s) - 1, NEW j \in 0 .. N(s) - 1, i # j
      PROVE  Rows(s, h, i) \cap Rows(s, h, j) = {}
  <2>1. ASSUME NEW x \in Rows(s, h, i), x \in Rows(s, h, j) PROVE FALSE
    <3>1. x \in [tag : {tag}, head : {h}, row : V(i)] BY <1>2
    <3>2. x \in [tag : {tag}, head : {h}, row : V(j)] BY <1>2, <2>1
    <3>3. x.row \in V(i) \cap V(j) BY <3>1, <3>2
    <3> QED BY <1>1, <1>5, <3>3
  <2> QED BY <2>1
<1>6. UNION {Rows(s, h, i) : i \in 0 .. N(s) - 1} = [tag : {tag}, head : {h}, row : all]
  <2> HIDE DEF Rows
  <2> QED BY <1>3, <1>4
<1> QED BY <1>5, <1>6 DEF all

\* Every output row belongs to the group of its sequence and kv head, and to no other.
LEMMA Groups ==
  ASSUME call \in Shapes
  PROVE  /\ \A o \in A!Outputs : /\ o.seq \in Seqs
                                 /\ o.head \div A!QueriesPerKv \in Heads
                                 /\ o \in Group(o.seq, o.head \div A!QueriesPerKv)
         /\ \A s \in Seqs, h \in Heads :
              /\ Group(s, h) # {}
              /\ \A o \in Group(s, h) :
                   A!Attended(o)
                     = [tag : {tag}, head : {h}, row : call.cu[s] .. call.cu[s + 1] - 1]
<1> DEFINE q == call.qHeads
           k == call.kvHeads
           Q == A!QueriesPerKv
<1>1. q \in Nat \ {0} /\ k \in Nat \ {0} /\ q % k = 0 /\ Q = q \div k
  BY ShapeAssumption DEF A!QueriesPerKv
<1> HIDE DEF q, k, Q
<1>2. Q \in Nat \ {0} /\ q = k * Q
  <2>1. Q \in Nat /\ k * Q <= q /\ q < k * Q + k BY <1>1, Quotient
  <2>2. q % k = q - k * Q BY <1>1
  <2>3. q = k * Q BY <1>1, <2>1, <2>2
  <2> QED BY <1>1, <2>1, <2>3
<1>3. ASSUME NEW o \in A!Outputs
      PROVE  o.seq \in Seqs /\ o.head \div Q \in Heads /\ o \in Group(o.seq, o.head \div Q)
  <2>1. o.seq \in Seqs /\ o.head \in 0 .. q - 1
    BY DEF A!Outputs, Seqs, q
  <2> DEFINE d == o.head
             x == d \div Q
  <2>2. d \in Nat /\ d < k * Q BY <1>1, <1>2, <2>1
  <2> HIDE DEF d
  <2>3. x \in Nat /\ Q * x <= d BY <1>2, <2>2, Quotient
  <2> HIDE DEF x
  <2>4. x < k
    <3>1. k <= x => k * Q <= x * Q /\ k * Q \in Nat /\ x * Q \in Nat
      BY <1>1, <1>2, <2>3, Scaled
    <3>2. x * Q = Q * x /\ Q * x \in Nat /\ k * Q \in Nat BY <1>1, <1>2, <2>3
    <3> QED BY <1>1, <2>2, <2>3, <3>1, <3>2
  <2>5. x \in Heads BY <1>1, <2>3, <2>4 DEF Heads, k
  <2> QED BY <2>1, <2>5 DEF d, x, Group, Q
<1>4. ASSUME NEW s \in Seqs, NEW h \in Heads PROVE Group(s, h) # {}
  <2> DEFINE o == [seq |-> s, head |-> h * Q]
  <2>1. h \in Nat /\ h + 1 <= k /\ h \in 0 .. k - 1 BY <1>1 DEF Heads, k
  <2>2. h * Q \in Nat /\ (h + 1) * Q <= k * Q /\ (h + 1) * Q = h * Q + Q
    BY <1>1, <1>2, <2>1, Scaled
  <2>3. h * Q \in 0 .. q - 1
    BY <1>1, <1>2, <2>2
  <2>4. o \in A!Outputs
    BY <2>3 DEF A!Outputs, Seqs, q
  <2>5. (h * Q) \div Q = h
    BY <1>2, <2>1
  <2> QED BY <2>4, <2>5 DEF Group, Q
<1>5. ASSUME NEW s \in Seqs, NEW h \in Heads, NEW o \in Group(s, h)
      PROVE  A!Attended(o)
               = [tag : {tag}, head : {h}, row : call.cu[s] .. call.cu[s + 1] - 1]
  BY DEF Group, A!Attended, A!Span
<1> QED BY <1>3, <1>4, <1>5 DEF Q

-----------------------------------------------------------------------------
(* The steps *)

\* What a program's step does to the places of the others.
LEMMA Moves ==
  ASSUME TypeOK, CanUse(call), NEW s \in Seqs, NEW h \in Heads, NEW i \in Splits, NEW label,
         Goto([seq |-> s, head |-> h, split |-> i], label), call' = call
  PROVE  /\ At(s, h, i)' = label
         /\ \A s2 \in Seqs, h2 \in Heads, j \in Splits :
              <<s2, h2, j>> # <<s, h, i>> => At(s2, h2, j)' = At(s2, h2, j)
<1> DEFINE p == [seq |-> s, head |-> h, split |-> i]
<1>1. DOMAIN pc = [seq : Seqs, head : Heads, split : Splits]
  BY DEF TypeOK, Programs, Seqs, Heads
<1>2. pc' = [pc EXCEPT ![p] = label]
  BY DEF Goto
<1>3. p \in DOMAIN pc
  BY <1>1
<1>4. ASSUME NEW s2 \in Seqs, NEW h2 \in Heads, NEW j \in Splits, <<s2, h2, j>> # <<s, h, i>>
      PROVE  At(s2, h2, j)' = At(s2, h2, j)
  <2> DEFINE p2 == [seq |-> s2, head |-> h2, split |-> j]
  <2>1. p2 # p /\ p2 \in DOMAIN pc
    BY <1>1, <1>4
  <2>2. pc'[p2] = pc[p2]
    BY <1>2, <2>1
  <2> QED BY <2>2 DEF At
<1> QED BY <1>2, <1>3, <1>4 DEF At

\* A group that no step touches stays as it is.
LEMMA Frame ==
  ASSUME call \in Shapes, call' = call, tag' = tag, NEW s \in Seqs, NEW h \in Heads, GroupOK(s, h),
         \A i \in Splits : At(s, h, i)' = At(s, h, i),
         partial'[SlotAt(call, s, h)] = partial[SlotAt(call, s, h)],
         counter'[SlotAt(call, s, h)] = counter[SlotAt(call, s, h)],
         \A o \in Group(s, h) : out'[o] = out[o]
  PROVE  GroupOK(s, h)'
<1>1. N(s) \in Counts /\ 0 .. N(s) - 1 \subseteq Splits /\ N(s)' = N(s)
  BY Shape DEF N
<1>2. /\ Finished(s, h)' = Finished(s, h) /\ Arrived(s, h)' = Arrived(s, h)
      /\ Open(s, h)' = Open(s, h)
  <2>1. Finished(s, h)' <=> Finished(s, h) BY <1>1 DEF Finished
  <2>2. Open(s, h)' <=> Open(s, h) BY <1>1 DEF Open
  <2>3. Arrived(s, h)' = Arrived(s, h) BY <1>1 DEF Arrived
  <2> QED BY <2>1, <2>2, <2>3 DEF Finished, Open
<1>3. Unused(s, h)'
  BY <1>1 DEF GroupOK, Unused
<1>4. Single(s, h)'
  BY <1>1 DEF GroupOK, Single, Counts, Splits, MAX_SPLITS
<1>5. Stored(s, h)'
  <2>1. \A i : Rows(s, h, i)' = Rows(s, h, i) BY DEF Rows
  <2> QED BY <1>1, <2>1 DEF GroupOK, Stored, SlotAt
<1>6. OneMerger(s, h)'
  BY <1>1 DEF GroupOK, OneMerger
<1>7. Counted(s, h)'
  BY <1>2 DEF GroupOK, Counted, SlotAt
<1>8. Written(s, h)'
  <2>1. Group(s, h)' = Group(s, h) BY DEF Group, A!Outputs, A!QueriesPerKv
  <2>2. \A o : A!Attended(o)' = A!Attended(o)
    BY DEF A!Attended, A!Span, A!QueriesPerKv
  <2> QED BY <1>2, <2>1, <2>2 DEF GroupOK, Written
<1> QED BY <1>3, <1>4, <1>5, <1>6, <1>7, <1>8 DEF GroupOK

\* The programs of a KDA launch.
LEMMA KdaProgram ==
  ASSUME TypeOK, CanUse(call), NEW p \in DOMAIN pc
  PROVE  /\ p.seq \in Seqs /\ p.head \in Heads /\ p.split \in Splits
         /\ p = [seq |-> p.seq, head |-> p.head, split |-> p.split]
         /\ pc[p] = At(p.seq, p.head, p.split)
         /\ Slot(p) = SlotAt(call, p.seq, p.head)
<1>1. p \in [seq : Seqs, head : Heads, split : Splits]
  BY DEF TypeOK, Programs, Seqs, Heads
<1>2. p = [seq |-> p.seq, head |-> p.head, split |-> p.split]
  BY <1>1
<1> QED BY <1>1, <1>2 DEF At, Slot

\* A program that is not done is one of the splits in use.
LEMMA InUse ==
  ASSUME TypeOK, NEW s \in Seqs, NEW h \in Heads, NEW i \in Splits, GroupOK(s, h),
         At(s, h, i) # "done"
  PROVE  /\ N(s) \in Counts /\ 0 .. N(s) - 1 \subseteq Splits /\ i \in 0 .. N(s) - 1
         /\ N(s) = 1 => i = 0
<1>1. N(s) \in Counts /\ 0 .. N(s) - 1 \subseteq Splits
  BY Shape DEF TypeOK
<1>2. ~(i >= N(s))
  BY DEF GroupOK, Unused
<1>3. i \in 0 .. N(s) - 1
  BY <1>1, <1>2 DEF Counts, Splits
<1> QED BY <1>1, <1>3 DEF Counts

\* The group of a KDA program that steps, and what the step leaves to show of it.
LEMMA Others ==
  ASSUME Inv, CanUse(call), call' = call, tag' = tag,
         NEW s \in Seqs, NEW h \in Heads, NEW i \in Splits, NEW label,
         Goto([seq |-> s, head |-> h, split |-> i], label),
         \A k \in Slots : k # SlotAt(call, s, h) => partial'[k] = partial[k],
         \A k \in Slots : k # SlotAt(call, s, h) => counter'[k] = counter[k],
         \A o \in A!Outputs : o \notin Group(s, h) => out'[o] = out[o]
  PROVE  /\ FreeSlots'
         /\ \A s2 \in Seqs, h2 \in Heads : <<s2, h2>> # <<s, h>> => GroupOK(s2, h2)'
<1>1. call \in Shapes /\ TypeOK
  BY DEF Inv, TypeOK
<1>2. FreeSlots'
  <2>1. SlotAt(call, s, h) \in Slots
    BY <1>1, OwnSlot
  <2>2. Seqs' = Seqs /\ Heads' = Heads /\ \A s2, h2 : SlotAt(call', s2, h2) = SlotAt(call, s2, h2)
    BY DEF Seqs, Heads
  <2>3. FreeSlots
    BY DEF Inv
  <2> QED BY <2>1, <2>2, <2>3 DEF FreeSlots
<1>3. ASSUME NEW s2 \in Seqs, NEW h2 \in Heads, <<s2, h2>> # <<s, h>> PROVE GroupOK(s2, h2)'
  <2>1. GroupOK(s2, h2)
    BY DEF Inv
  <2>2. SlotAt(call, s2, h2) \in Slots /\ SlotAt(call, s2, h2) # SlotAt(call, s, h)
    BY <1>1, <1>3, OwnSlot
  <2>3. \A j \in Splits : At(s2, h2, j)' = At(s2, h2, j)
    BY <1>1, <1>3, Moves
  <2>4. \A o \in Group(s2, h2) : o \in A!Outputs /\ o \notin Group(s, h)
    BY <1>3 DEF Group
  <2> QED BY <1>1, <2>1, <2>2, <2>3, <2>4, Frame
<1> QED BY <1>2, <1>3

\* The group of the program that steps: what its own places become.
LEMMA Mates ==
  ASSUME TypeOK, CanUse(call), call' = call, NEW s \in Seqs, NEW h \in Heads, NEW i \in 0 .. N(s) - 1,
         NEW label, Goto([seq |-> s, head |-> h, split |-> i], label)
  PROVE  /\ N(s)' = N(s) /\ N(s) \in Counts /\ 0 .. N(s) - 1 \subseteq Splits
         /\ At(s, h, i)' = label
         /\ \A j \in Splits : j # i => At(s, h, j)' = At(s, h, j)
         /\ Group(s, h)' = Group(s, h) /\ SlotAt(call, s, h)' = SlotAt(call, s, h)
         /\ SlotAt(call, s, h) \in Slots
<1>1. N(s) \in Counts /\ 0 .. N(s) - 1 \subseteq Splits /\ call \in Shapes
  BY Shape DEF TypeOK
<1>2. N(s)' = N(s) /\ Group(s, h)' = Group(s, h) /\ SlotAt(call, s, h)' = SlotAt(call, s, h)
  BY DEF N, Group, A!Outputs, A!QueriesPerKv, SlotAt
<1>3. SlotAt(call, s, h) \in Slots
  BY <1>1, OwnSlot
<1>4. i \in Splits
  BY <1>1
<1>5. \A j \in Splits : j # i => <<s, h, j>> # <<s, h, i>>
  OBVIOUS
<1> QED BY <1>1, <1>2, <1>3, <1>4, <1>5, Moves

\* Attended rows do not depend on anything but the call.
LEMMA SameAttended ==
  ASSUME call' = call, tag' = tag
  PROVE  /\ \A o : A!Attended(o)' = A!Attended(o)
         /\ \A s, h, i : Rows(s, h, i)' = Rows(s, h, i)
         /\ A!Outputs' = A!Outputs
  BY DEF A!Attended, A!Span, A!QueriesPerKv, Rows, A!Outputs

\* A single program writes its group's rows and is done.
LEMMA AloneKeeps ==
  ASSUME Inv, CanUse(call), NEW s \in Seqs, NEW h \in Heads, NEW i \in Splits,
         Alone([seq |-> s, head |-> h, split |-> i])
  PROVE  /\ GroupOK(s, h)' /\ A!Attend(Group(s, h))
         /\ out' = [o \in A!Outputs |-> IF o \in Group(s, h) THEN A!Attended(o) ELSE out[o]]
<1> DEFINE p == [seq |-> s, head |-> h, split |-> i]
<1>1. /\ TypeOK /\ GroupOK(s, h) /\ call \in Shapes /\ call' = call /\ tag' = tag
      /\ partial' = partial /\ counter' = counter
      /\ At(s, h, i) = "scan" /\ N(s) = 1
  BY DEF Inv, TypeOK, Alone, At, N
<1>2. i = 0 /\ i \in 0 .. N(s) - 1 /\ 0 .. N(s) - 1 = {0}
  BY <1>1, InUse
<1>3. /\ N(s)' = N(s) /\ At(s, h, i)' = "done"
      /\ \A j \in Splits : j # i => At(s, h, j)' = At(s, h, j)
      /\ Group(s, h)' = Group(s, h) /\ SlotAt(call, s, h)' = SlotAt(call, s, h)
  BY <1>1, <1>2, Mates DEF Alone
<1>4. Unused(s, h)' /\ Single(s, h)' /\ Stored(s, h)' /\ OneMerger(s, h)'
  BY <1>1, <1>2, <1>3 DEF GroupOK, Unused, Single, Stored, OneMerger
<1>5. counter[SlotAt(call, s, h)] = 0
  <2>1. Arrived(s, h) = {} /\ ~Finished(s, h)
    BY <1>1, <1>2 DEF Arrived, Finished
  <2> QED BY <1>1, <2>1, FS_EmptySet DEF GroupOK, Counted
<1>6. Counted(s, h)'
  <2>1. Finished(s, h)'
    BY <1>1, <1>2, <1>3 DEF Finished
  <2> QED BY <1>1, <1>3, <1>5, <2>1 DEF Counted
<1>7. \A o \in Group(s, h) : Accumulated(p) = A!Attended(o)
  <2>1. Accumulated(p) = Rows(s, h, i)
    BY DEF Accumulated, Rows
  <2>2. Rows(s, h, i) = UNION {Rows(s, h, j) : j \in 0 .. N(s) - 1}
    BY <1>2
  <2> QED BY <1>1, <2>1, <2>2, RowsSum, Groups
<1>8. out' = [o \in A!Outputs |-> IF o \in Group(s, h) THEN A!Attended(o) ELSE out[o]]
  <2>1. out' = [o \in A!Outputs |-> IF o \in Group(s, h) THEN Accumulated(p) ELSE out[o]]
    BY DEF Alone, Write
  <2> QED BY <1>7, <2>1
<1>9. \A o \in Group(s, h) : out[o] = None
  <2>1. Open(s, h)
    BY <1>1, <1>2 DEF Open
  <2> QED BY <1>1, <2>1 DEF GroupOK, Written
<1>10. Written(s, h)'
  <2>1. ~Open(s, h)'
    BY <1>1, <1>2, <1>3 DEF Open
  <2>2. \A o \in Group(s, h) : out'[o] = A!Attended(o)
    BY <1>8 DEF Group
  <2> QED BY <1>1, <1>3, <2>1, <2>2, SameAttended DEF Written
<1>11. A!Attend(Group(s, h))
  <2>1. Group(s, h) # {} BY <1>1, Groups
  <2> QED BY <1>1, <1>8, <1>9, <2>1 DEF A!Attend
<1> QED BY <1>4, <1>6, <1>8, <1>10, <1>11 DEF GroupOK

\* A program stores its partial before it arrives.
LEMMA ScanKeeps ==
  ASSUME Inv, CanUse(call), NEW s \in Seqs, NEW h \in Heads, NEW i \in Splits,
         Scan([seq |-> s, head |-> h, split |-> i])
  PROVE  GroupOK(s, h)'
<1> DEFINE p == [seq |-> s, head |-> h, split |-> i]
           k == SlotAt(call, s, h)
<1>1. /\ TypeOK /\ GroupOK(s, h) /\ call \in Shapes /\ call' = call /\ tag' = tag
      /\ out' = out /\ counter' = counter /\ At(s, h, i) = "scan" /\ N(s) # 1
  BY DEF Inv, TypeOK, Scan, At, N
<1>2. i \in 0 .. N(s) - 1
  BY <1>1, InUse
<1>3. /\ N(s)' = N(s) /\ At(s, h, i)' = "arrive" /\ 0 .. N(s) - 1 \subseteq Splits
      /\ \A j \in Splits : j # i => At(s, h, j)' = At(s, h, j)
      /\ Group(s, h)' = Group(s, h) /\ SlotAt(call, s, h)' = k /\ k \in Slots
      /\ N(s) \in Counts
  BY <1>1, <1>2, Mates DEF Scan
<1>4. Unused(s, h)' /\ Single(s, h)' /\ OneMerger(s, h)'
  <2>1. Unused(s, h)'
    BY <1>1, <1>2, <1>3 DEF GroupOK, Unused, Counts
  <2>2. Single(s, h)'
    BY <1>1, <1>3 DEF Single
  <2>3. OneMerger(s, h)'
    BY <1>1, <1>2, <1>3 DEF GroupOK, OneMerger
  <2> QED BY <2>1, <2>2, <2>3
<1>5. Stored(s, h)'
  <2>1. partial' = [partial EXCEPT ![k] = [@ EXCEPT ![i] = Rows(s, h, i)]]
    BY DEF Scan, Slot, Accumulated, Rows
  <2>2. DOMAIN partial = Slots /\ DOMAIN partial[k] = Splits
    BY <1>1, <1>3 DEF TypeOK
  <2>3. /\ partial'[k][i] = Rows(s, h, i)
        /\ \A j \in Splits : j # i => partial'[k][j] = partial[k][j]
    BY <1>2, <1>3, <2>1, <2>2
  <2> QED BY <1>1, <1>2, <1>3, <2>3, SameAttended DEF GroupOK, Stored
<1>6. /\ ~Finished(s, h) /\ ~Finished(s, h)' /\ Arrived(s, h)' = Arrived(s, h)
      /\ Open(s, h) /\ Open(s, h)'
  <2>1. ~Finished(s, h) /\ ~Finished(s, h)'
    BY <1>1, <1>2, <1>3 DEF Finished
  <2>2. Open(s, h) /\ Open(s, h)'
    BY <1>1, <1>2, <1>3 DEF Open
  <2>3. Arrived(s, h)' = Arrived(s, h)
    BY <1>1, <1>2, <1>3 DEF Arrived
  <2> QED BY <2>1, <2>2, <2>3
<1>7. Counted(s, h)'
  BY <1>1, <1>3, <1>6 DEF GroupOK, Counted
<1>8. Written(s, h)'
  BY <1>1, <1>3, <1>6, SameAttended DEF GroupOK, Written
<1> QED BY <1>4, <1>5, <1>7, <1>8 DEF GroupOK

\* The last to arrive merges; the counter it meets is one short of the splits.
LEMMA ArriveKeeps ==
  ASSUME Inv, CanUse(call), NEW s \in Seqs, NEW h \in Heads, NEW i \in Splits,
         Arrive([seq |-> s, head |-> h, split |-> i])
  PROVE  GroupOK(s, h)' /\ counter'[SlotAt(call, s, h)] \in 0 .. MAX_SPLITS
<1> DEFINE p == [seq |-> s, head |-> h, split |-> i]
           k == SlotAt(call, s, h)
           last == counter[k] = N(s) - 1
<1>1. /\ TypeOK /\ GroupOK(s, h) /\ call \in Shapes /\ call' = call /\ tag' = tag
      /\ out' = out /\ partial' = partial /\ At(s, h, i) = "arrive"
      /\ Goto(p, IF last THEN "merge" ELSE "done")
      /\ counter' = [counter EXCEPT ![k] = @ + 1]
  BY DEF Inv, TypeOK, Arrive, At, N, LastArrival, Slot
<1>2. i \in 0 .. N(s) - 1 /\ (N(s) = 1 => i = 0)
  BY <1>1, InUse
<1>3. /\ N(s)' = N(s) /\ At(s, h, i)' = (IF last THEN "merge" ELSE "done")
      /\ 0 .. N(s) - 1 \subseteq Splits
      /\ \A j \in Splits : j # i => At(s, h, j)' = At(s, h, j)
      /\ Group(s, h)' = Group(s, h) /\ SlotAt(call, s, h)' = k /\ k \in Slots
      /\ N(s) \in Counts
  BY <1>1, <1>2, Mates
<1>4. N(s) # 1
  BY <1>1, <1>2 DEF GroupOK, Single
<1>5. \A j \in 0 .. N(s) - 1 : At(s, h, j) \notin {"merge", "reset"}
  BY <1>1, <1>2 DEF GroupOK, OneMerger
<1>6. /\ ~Finished(s, h) /\ Open(s, h) /\ i \notin Arrived(s, h)
      /\ Arrived(s, h) \subseteq 0 .. N(s) - 1
  BY <1>1, <1>2 DEF Finished, Open, Arrived
<1>7. Arrived(s, h)' = Arrived(s, h) \cup {i}
  BY <1>2, <1>3 DEF Arrived
<1>8. /\ IsFiniteSet(Arrived(s, h)) /\ IsFiniteSet(Arrived(s, h)')
      /\ Cardinality(Arrived(s, h)) \in Nat
      /\ Cardinality(Arrived(s, h)') = Cardinality(Arrived(s, h)) + 1
      /\ Cardinality(Arrived(s, h)') <= N(s)
      /\ (Cardinality(Arrived(s, h)') = N(s) => Arrived(s, h)' = 0 .. N(s) - 1)
  <2>1. N(s) \in Nat /\ N(s) >= 1
    BY <1>3 DEF Counts
  <2>2. IsFiniteSet(0 .. N(s) - 1) /\ Cardinality(0 .. N(s) - 1) = N(s)
    BY <2>1, FS_Interval
  <2>3. Arrived(s, h)' \in SUBSET (0 .. N(s) - 1)
    BY <1>2, <1>6, <1>7
  <2>4. IsFiniteSet(Arrived(s, h)) /\ Cardinality(Arrived(s, h)) \in Nat
    BY <1>6, <2>2, FS_Subset, FS_CardinalityType
  <2>5. Cardinality(Arrived(s, h) \cup {i}) = Cardinality(Arrived(s, h)) + 1
    BY <1>6, <2>4, FS_AddElement
  <2>6. /\ IsFiniteSet(Arrived(s, h)') /\ Cardinality(Arrived(s, h)') <= Cardinality(0 .. N(s) - 1)
        /\ (Cardinality(0 .. N(s) - 1) = Cardinality(Arrived(s, h)') => 0 .. N(s) - 1 = Arrived(s, h)')
    BY <2>2, <2>3, FS_Subset
  <2> QED BY <1>7, <2>2, <2>4, <2>5, <2>6
<1>9. /\ counter[k] = Cardinality(Arrived(s, h)) /\ counter'[k] = Cardinality(Arrived(s, h)')
      /\ counter'[k] \in 0 .. MAX_SPLITS
  <2>1. counter[k] = Cardinality(Arrived(s, h))
    BY <1>1, <1>6 DEF GroupOK, Counted
  <2>2. counter'[k] = counter[k] + 1
    BY <1>1, <1>3 DEF TypeOK
  <2> QED BY <1>3, <1>8, <2>1, <2>2 DEF Counts, MAX_SPLITS
<1>10. last <=> Arrived(s, h)' = 0 .. N(s) - 1
  <2>1. N(s) \in Nat /\ N(s) >= 1
    BY <1>3 DEF Counts
  <2>2. Cardinality(0 .. N(s) - 1) = N(s)
    BY <2>1, FS_Interval
  <2> QED BY <1>8, <1>9, <2>1, <2>2
<1>11. Unused(s, h)' /\ Single(s, h)' /\ Stored(s, h)'
  <2>1. Unused(s, h)'
    BY <1>1, <1>2, <1>3 DEF GroupOK, Unused, Counts
  <2>2. Single(s, h)'
    BY <1>3, <1>4 DEF Single
  <2>3. Stored(s, h)'
    BY <1>1, <1>2, <1>3, SameAttended DEF GroupOK, Stored
  <2> QED BY <2>1, <2>2, <2>3
<1>12. OneMerger(s, h)'
  <2>1. ASSUME NEW a \in 0 .. N(s) - 1, NEW b \in 0 .. N(s) - 1, b # a,
               At(s, h, a)' \in {"merge", "reset"}
        PROVE  At(s, h, b)' = "done"
    <3>1. a = i /\ last
      BY <1>3, <1>5, <2>1
    <3>2. b \in Arrived(s, h)
      BY <1>7, <1>10, <2>1, <3>1
    <3>3. At(s, h, b) = "done"
      BY <1>5, <3>2 DEF Arrived
    <3> QED BY <1>3, <2>1, <3>1, <3>3
  <2> QED BY <1>3, <2>1 DEF OneMerger
<1>13. ~Finished(s, h)' /\ Open(s, h)'
  <2>1. CASE last
    <3>1. At(s, h, i)' = "merge"
      BY <1>3, <2>1
    <3>2. ~Finished(s, h)'
      BY <1>2, <1>3, <3>1 DEF Finished
    <3>3. Open(s, h)'
      BY <1>2, <1>3, <3>1 DEF Open
    <3> QED BY <3>2, <3>3
  <2>2. CASE ~last
    <3>1. PICK j \in 0 .. N(s) - 1 : j \notin Arrived(s, h)'
      BY <1>2, <1>6, <1>7, <1>10, <2>2
    <3>2. j # i /\ At(s, h, j)' = At(s, h, j) /\ j \in Splits
      BY <1>3, <1>7, <3>1
    <3>3. At(s, h, j) \in {"scan", "arrive"}
      <4>1. At(s, h, j) \in {"scan", "arrive", "merge", "reset", "done"}
        BY <1>1, <3>2 DEF TypeOK, Programs, At, Seqs, Heads
      <4> QED BY <1>7, <3>1, <4>1 DEF Arrived
    <3>4. ~Finished(s, h)'
      BY <1>3, <3>1, <3>2, <3>3 DEF Finished
    <3>5. Open(s, h)'
      BY <1>3, <3>1, <3>2, <3>3 DEF Open
    <3> QED BY <3>4, <3>5
  <2> QED BY <2>1, <2>2
<1>14. Counted(s, h)'
  BY <1>3, <1>9, <1>13 DEF Counted
<1>15. Written(s, h)'
  BY <1>1, <1>3, <1>6, <1>13, SameAttended DEF GroupOK, Written
<1> QED BY <1>9, <1>11, <1>12, <1>14, <1>15 DEF GroupOK

\* The merge finds every partial of this launch, and writes the whole sum.
LEMMA MergeKeeps ==
  ASSUME Inv, CanUse(call), NEW s \in Seqs, NEW h \in Heads, NEW i \in Splits,
         Merge([seq |-> s, head |-> h, split |-> i])
  PROVE  /\ GroupOK(s, h)' /\ A!Attend(Group(s, h))
         /\ out' = [o \in A!Outputs |-> IF o \in Group(s, h) THEN A!Attended(o) ELSE out[o]]
<1> DEFINE p == [seq |-> s, head |-> h, split |-> i]
           k == SlotAt(call, s, h)
<1>1. /\ TypeOK /\ GroupOK(s, h) /\ call \in Shapes /\ call' = call /\ tag' = tag
      /\ partial' = partial /\ counter' = counter /\ At(s, h, i) = "merge" /\ Goto(p, "reset")
      /\ out' = [o \in A!Outputs |-> IF o \in Group(s, h) THEN Merged(p) ELSE out[o]]
  BY DEF Inv, TypeOK, Merge, Write, At
<1>2. i \in 0 .. N(s) - 1 /\ (N(s) = 1 => i = 0)
  BY <1>1, InUse
<1>3. /\ N(s)' = N(s) /\ At(s, h, i)' = "reset" /\ 0 .. N(s) - 1 \subseteq Splits
      /\ \A j \in Splits : j # i => At(s, h, j)' = At(s, h, j)
      /\ Group(s, h)' = Group(s, h) /\ SlotAt(call, s, h)' = k /\ k \in Slots
      /\ N(s) \in Counts
  BY <1>1, <1>2, Mates
<1>4. N(s) # 1
  BY <1>1, <1>2 DEF GroupOK, Single
<1>5. \A j \in 0 .. N(s) - 1 : j # i => At(s, h, j) = "done"
  BY <1>1, <1>2 DEF GroupOK, OneMerger
<1>6. \A j \in 0 .. N(s) - 1 : partial[k][j] = Rows(s, h, j)
  BY <1>1, <1>4, <1>5 DEF GroupOK, Stored
<1>7. \A o \in Group(s, h) : Merged(p) = A!Attended(o)
  <2>1. Slot(p) = k /\ MergedSplits(p) = 0 .. N(s) - 1
    BY DEF Slot, MergedSplits, N
  <2>2. {partial[k][j] : j \in 0 .. N(s) - 1} = {Rows(s, h, j) : j \in 0 .. N(s) - 1}
    BY <1>6
  <2>3. \A a, b \in 0 .. N(s) - 1 : a # b => partial[k][a] \cap partial[k][b] = {}
    BY <1>1, <1>6, RowsSum
  <2>4. Merged(p) = UNION {partial[k][j] : j \in 0 .. N(s) - 1}
    <3> HIDE DEF p, k
    <3>1. \A a, b \in MergedSplits(p) :
            a # b => partial[Slot(p)][a] \cap partial[Slot(p)][b] = {}
      BY <2>1, <2>3
    <3>2. Merged(p) = UNION {partial[Slot(p)][j] : j \in MergedSplits(p)}
      BY <3>1, Zenon DEF Merged
    <3> QED BY <2>1, <3>2
  <2>5. Merged(p) = UNION {Rows(s, h, j) : j \in 0 .. N(s) - 1}
    BY <2>2, <2>4, Zenon
  <2>6. Merged(p) = [tag : {tag}, head : {h}, row : call.cu[s] .. call.cu[s + 1] - 1]
    BY <1>1, <2>5, RowsSum, Zenon
  <2> QED BY <1>1, <2>6, Groups
<1>8. out' = [o \in A!Outputs |-> IF o \in Group(s, h) THEN A!Attended(o) ELSE out[o]]
  BY <1>1, <1>7
<1>9. \A o \in Group(s, h) : out[o] = None
  <2>1. Open(s, h)
    BY <1>1, <1>2 DEF Open
  <2> QED BY <1>1, <2>1 DEF GroupOK, Written
<1>10. /\ ~Open(s, h)' /\ ~Finished(s, h) /\ ~Finished(s, h)'
       /\ Arrived(s, h)' = Arrived(s, h)
  <2>1. ~Open(s, h)'
    BY <1>3, <1>5 DEF Open
  <2>2. ~Finished(s, h) /\ ~Finished(s, h)'
    BY <1>1, <1>2, <1>3 DEF Finished
  <2>3. Arrived(s, h)' = Arrived(s, h)
    BY <1>1, <1>2, <1>3 DEF Arrived
  <2> QED BY <2>1, <2>2, <2>3
<1>11. Unused(s, h)' /\ Single(s, h)' /\ Stored(s, h)' /\ OneMerger(s, h)'
  <2>1. Unused(s, h)'
    BY <1>1, <1>2, <1>3 DEF GroupOK, Unused, Counts
  <2>2. Single(s, h)'
    BY <1>3, <1>4 DEF Single
  <2>3. Stored(s, h)'
    BY <1>1, <1>3, <1>6, SameAttended DEF Stored
  <2>4. OneMerger(s, h)'
    BY <1>3, <1>5 DEF OneMerger
  <2> QED BY <2>1, <2>2, <2>3, <2>4
<1>12. Counted(s, h)'
  BY <1>1, <1>3, <1>10 DEF GroupOK, Counted
<1>13. Written(s, h)'
  <2>1. \A o \in Group(s, h) : out'[o] = A!Attended(o)
    BY <1>8 DEF Group
  <2> QED BY <1>1, <1>3, <1>10, <2>1, SameAttended DEF Written
<1>14. A!Attend(Group(s, h))
  <2>1. Group(s, h) # {} BY <1>1, Groups
  <2> QED BY <1>1, <1>8, <1>9, <2>1 DEF A!Attend
<1> QED BY <1>8, <1>11, <1>12, <1>13, <1>14 DEF GroupOK

\* The merger leaves the counter as it found the scratch.
LEMMA ResetKeeps ==
  ASSUME Inv, CanUse(call), NEW s \in Seqs, NEW h \in Heads, NEW i \in Splits,
         Reset([seq |-> s, head |-> h, split |-> i])
  PROVE  GroupOK(s, h)'
<1> DEFINE p == [seq |-> s, head |-> h, split |-> i]
           k == SlotAt(call, s, h)
<1>1. /\ TypeOK /\ GroupOK(s, h) /\ call \in Shapes /\ call' = call /\ tag' = tag
      /\ partial' = partial /\ out' = out /\ At(s, h, i) = "reset" /\ Goto(p, "done")
      /\ counter' = [counter EXCEPT ![k] = 0]
  BY DEF Inv, TypeOK, Reset, ResetTo, At, Slot
<1>2. i \in 0 .. N(s) - 1 /\ (N(s) = 1 => i = 0)
  BY <1>1, InUse
<1>3. /\ N(s)' = N(s) /\ At(s, h, i)' = "done" /\ 0 .. N(s) - 1 \subseteq Splits
      /\ \A j \in Splits : j # i => At(s, h, j)' = At(s, h, j)
      /\ Group(s, h)' = Group(s, h) /\ SlotAt(call, s, h)' = k /\ k \in Slots
      /\ N(s) \in Counts
  BY <1>1, <1>2, Mates
<1>4. N(s) # 1
  BY <1>1, <1>2 DEF GroupOK, Single
<1>5. \A j \in 0 .. N(s) - 1 : At(s, h, j)' = "done"
  <2>1. \A j \in 0 .. N(s) - 1 : j # i => At(s, h, j) = "done"
    BY <1>1, <1>2 DEF GroupOK, OneMerger
  <2> QED BY <1>3, <2>1
<1>6. ~Open(s, h) /\ ~Open(s, h)' /\ Finished(s, h)'
  <2>1. ~Open(s, h)
    <3>1. \A j \in 0 .. N(s) - 1 : j # i => At(s, h, j) = "done"
      BY <1>1, <1>2 DEF GroupOK, OneMerger
    <3> QED BY <1>1, <3>1 DEF Open
  <2>2. ~Open(s, h)'
    BY <1>3, <1>5 DEF Open
  <2>3. Finished(s, h)'
    BY <1>3, <1>5 DEF Finished
  <2> QED BY <2>1, <2>2, <2>3
<1>7. Unused(s, h)' /\ Single(s, h)' /\ Stored(s, h)' /\ OneMerger(s, h)'
  <2>1. Unused(s, h)'
    BY <1>1, <1>2, <1>3 DEF GroupOK, Unused, Counts
  <2>2. Single(s, h)'
    BY <1>3, <1>4 DEF Single
  <2>3. Stored(s, h)'
    BY <1>1, <1>2, <1>3, SameAttended DEF GroupOK, Stored
  <2>4. OneMerger(s, h)'
    BY <1>3, <1>5 DEF OneMerger
  <2> QED BY <2>1, <2>2, <2>3, <2>4
<1>8. Counted(s, h)'
  <2>1. counter'[k] = 0
    BY <1>1, <1>3 DEF TypeOK
  <2> QED BY <1>3, <1>6, <2>1 DEF Counted
<1>9. Written(s, h)'
  BY <1>1, <1>3, <1>6, SameAttended DEF GroupOK, Written
<1> QED BY <1>7, <1>8, <1>9 DEF GroupOK

\* The fallback writes its row once.
LEMMA VarlenKeeps ==
  ASSUME Inv, ~CanUse(call), NEW p \in DOMAIN pc, Varlen(p)
  PROVE  /\ FallbackOK' /\ A!Attend({[seq |-> p.seq, head |-> p.head]})
         /\ out' = [o \in A!Outputs |-> IF o \in {[seq |-> p.seq, head |-> p.head]}
                                         THEN A!Attended(o) ELSE out[o]]
<1> DEFINE w == [seq |-> p.seq, head |-> p.head]
<1>1. /\ TypeOK /\ FallbackOK /\ call \in Shapes /\ call' = call /\ tag' = tag
      /\ pc[p] = "scan" /\ pc' = [pc EXCEPT ![p] = "done"]
  BY DEF Inv, TypeOK, Varlen, Goto
<1>2. p \in [seq : 0 .. call.batch - 1, head : 0 .. call.qHeads - 1, split : {0}]
  BY <1>1 DEF TypeOK, Programs
<1>3. w \in A!Outputs /\ p = [seq |-> w.seq, head |-> w.head, split |-> 0]
  <2>1. p = [seq |-> p.seq, head |-> p.head, split |-> 0] BY <1>2
  <2>2. w.seq = p.seq /\ w.head = p.head OBVIOUS
  <2> QED BY <1>2, <2>1, <2>2 DEF A!Outputs
<1>4. out' = [o \in A!Outputs |-> IF o \in {w} THEN A!Attended(o) ELSE out[o]]
  <2> DEFINE R == [tag : {tag}, head : {p.head \div A!QueriesPerKv},
                   row : call.cu[p.seq] .. call.cu[p.seq + 1] - 1]
  <2>1. R = A!Attended(w)
    BY DEF A!Attended, A!Span
  <2>2. out' = [o \in A!Outputs |-> IF o \in {w} THEN R ELSE out[o]]
    BY DEF Varlen, Write
  <2> HIDE DEF R, w
  <2> QED BY <2>1, <2>2
<1>5. out[w] = None /\ At(w.seq, w.head, 0) = "scan"
  <2>1. At(w.seq, w.head, 0) = "scan"
    BY <1>1, <1>3 DEF At
  <2> QED BY <1>1, <1>3, <2>1 DEF FallbackOK
<1>6. ASSUME NEW o \in A!Outputs
      PROVE  /\ At(o.seq, o.head, 0)' = IF o = w THEN "done" ELSE At(o.seq, o.head, 0)
             /\ out'[o] = IF o = w THEN A!Attended(o) ELSE out[o]
  <2> DEFINE r == [seq |-> o.seq, head |-> o.head, split |-> 0]
  <2>1. r \in DOMAIN pc
    BY <1>1, <1>2 DEF TypeOK, Programs, A!Outputs
  <2>2. r = p <=> o = w
    <3>1. o = [seq |-> o.seq, head |-> o.head] BY DEF A!Outputs
    <3> QED BY <1>3, <3>1
  <2>3. pc'[r] = IF o = w THEN "done" ELSE pc[r]
    BY <1>1, <2>1, <2>2
  <2> QED BY <1>4, <2>3 DEF At
<1>7. FallbackOK'
  <2>1. A!Outputs' = A!Outputs /\ \A o : A!Attended(o)' = A!Attended(o)
    BY <1>1, SameAttended
  <2> QED BY <1>1, <1>6, <2>1 DEF FallbackOK
<1>8. A!Attend({w})
  BY <1>1, <1>3, <1>4, <1>5 DEF A!Attend
<1> QED BY <1>4, <1>7, <1>8

\* A call that has just begun, on counters that are all zero.
Launched ==
  /\ call \in Shapes /\ tag \in 0 .. Calls - 1 /\ out = [o \in A!Outputs |-> None]
  /\ pc = Launch(call) /\ counter \in [Slots -> 0 .. MAX_SPLITS]
  /\ \A k \in Slots : counter[k] = 0
  /\ DOMAIN partial = Slots /\ \A k \in Slots : DOMAIN partial[k] = Splits

\* A call begins as the invariant asks.
LEMMA LaunchOK == Launched => Inv
<1> SUFFICES ASSUME Launched PROVE Inv
  OBVIOUS
<1> USE DEF Launched
<1>1. TypeOK
  BY DEF TypeOK, Launch
<1>2. FreeSlots
  BY DEF FreeSlots
<1>3. ASSUME CanUse(call), NEW s \in Seqs, NEW h \in Heads PROVE GroupOK(s, h)
  <2>1. N(s) \in Counts /\ 0 .. N(s) - 1 \subseteq Splits
    BY Shape
  <2>2. ASSUME NEW i \in Splits PROVE At(s, h, i) = IF i >= N(s) THEN "done" ELSE "scan"
    <3> DEFINE p == [seq |-> s, head |-> h, split |-> i]
    <3>1. p \in Programs(call) BY <1>3 DEF Programs, Seqs, Heads
    <3>2. p.seq = s /\ p.split = i OBVIOUS
    <3> HIDE DEF p
    <3>3. pc[p] = IF p.split >= NSplits(call, p.seq) THEN "done" ELSE "scan"
      BY <1>3, <3>1 DEF Launch
    <3> QED BY <3>2, <3>3 DEF At, N, p
  <2>3. \A i \in 0 .. N(s) - 1 : At(s, h, i) = "scan"
    BY <2>1, <2>2 DEF Counts
  <2>4. 0 \in 0 .. N(s) - 1
    BY <2>1 DEF Counts
  <2>5. Unused(s, h) /\ Single(s, h) /\ Stored(s, h) /\ OneMerger(s, h)
    BY <2>1, <2>2, <2>3, <2>4 DEF Unused, Single, Stored, OneMerger
  <2>6. Open(s, h) /\ ~Finished(s, h) /\ Arrived(s, h) = {}
    <3>1. Arrived(s, h) = {} BY <2>3 DEF Arrived
    <3>2. ~Finished(s, h) BY <2>3, <2>4 DEF Finished
    <3>3. Open(s, h) BY <2>3, <2>4 DEF Open
    <3> QED BY <3>1, <3>2, <3>3
  <2>7. Counted(s, h)
    BY <1>3, <2>6, OwnSlot, FS_EmptySet DEF Counted
  <2>8. Written(s, h)
    BY <2>6 DEF Written, Group
  <2> QED BY <2>5, <2>7, <2>8 DEF GroupOK
<1>4. ASSUME ~CanUse(call) PROVE FallbackOK
  <2>1. \A o \in A!Outputs : [seq |-> o.seq, head |-> o.head, split |-> 0] \in Programs(call)
    BY <1>4 DEF A!Outputs, Programs
  <2>2. \A o \in A!Outputs : At(o.seq, o.head, 0) = "scan"
    BY <1>4, <2>1 DEF At, Launch
  <2> QED BY <2>2 DEF FallbackOK
<1> QED BY <1>1, <1>2, <1>3, <1>4 DEF Inv

\* When all programs are done every row is written and every counter is zero.
LEMMA AllDone ==
  ASSUME Inv, \A p \in DOMAIN pc : pc[p] = "done"
  PROVE  /\ \A k \in Slots : counter[k] = 0
         /\ \A o \in A!Outputs : out[o] # None
<1>1. TypeOK /\ call \in Shapes /\ tag \in 0 .. Calls - 1 /\ FreeSlots
  BY DEF Inv, TypeOK
<1>2. ASSUME CanUse(call), NEW s \in Seqs, NEW h \in Heads
      PROVE  /\ Finished(s, h) /\ ~Open(s, h) /\ counter[SlotAt(call, s, h)] = 0
             /\ \A o \in Group(s, h) : out[o] = A!Attended(o)
  <2>1. GroupOK(s, h) /\ N(s) \in Counts /\ 0 .. N(s) - 1 \subseteq Splits
    BY <1>1, <1>2, Shape DEF Inv
  <2>2. \A i \in 0 .. N(s) - 1 : At(s, h, i) = "done"
    BY <1>1, <1>2, <2>1 DEF At, TypeOK, Programs, Seqs, Heads
  <2>3. Finished(s, h)
    BY <2>2 DEF Finished
  <2>4. ~Open(s, h)
    BY <2>2 DEF Open
  <2> QED BY <2>1, <2>3, <2>4 DEF GroupOK, Counted, Written
<1>3. \A k \in Slots : counter[k] = 0
  BY <1>1, <1>2 DEF FreeSlots
<1>4. ASSUME NEW o \in A!Outputs PROVE out[o] # None
  <2>1. out[o] = A!Attended(o)
    <3>1. CASE CanUse(call) BY <1>1, <1>2, <3>1, Groups
    <3>2. CASE ~CanUse(call)
      <4>1. [seq |-> o.seq, head |-> o.head, split |-> 0] \in DOMAIN pc
        BY <1>1, <3>2 DEF TypeOK, Programs, A!Outputs
      <4>2. At(o.seq, o.head, 0) = "done"
        BY <4>1 DEF At
      <4> QED BY <3>2, <4>2 DEF Inv, FallbackOK
    <3> QED BY <3>1, <3>2
  <2>2. o.seq \in Seqs /\ o.head \div A!QueriesPerKv \in Heads
    BY <1>1, Groups
  <2>3. None # [tag : {tag}, head : {o.head \div A!QueriesPerKv},
                row : call.cu[o.seq] .. call.cu[o.seq + 1] - 1]
    BY <1>1, <2>2, NoneAssumption DEF Seqs, Heads
  <2> QED BY <2>1, <2>3 DEF A!Attended, A!Span
<1> QED BY <1>3, <1>4

-----------------------------------------------------------------------------
(* The theorems *)

\* Each step of the kernels keeps the invariant, and is a step of QsaAttention or none.
LEMMA StepKeeps ==
  ASSUME Inv, [Next]_vars
  PROVE  Inv' /\ [A!Next]_<<call, tag, out>>
<1>1. TypeOK /\ call \in Shapes
  BY DEF Inv, TypeOK
<1>2. CASE UNCHANGED vars
  <2>1. call' = call /\ tag' = tag /\ out' = out /\ pc' = pc /\ partial' = partial
          /\ counter' = counter
    BY <1>2 DEF vars
  <2>2. TypeOK'
    BY <1>1, <2>1 DEF TypeOK, A!Outputs
  <2>3. FreeSlots'
    BY <2>1 DEF Inv, FreeSlots, Seqs, Heads
  <2>4. ASSUME CanUse(call), NEW s \in Seqs, NEW h \in Heads PROVE GroupOK(s, h)'
    <3>1. GroupOK(s, h) BY <2>4 DEF Inv
    <3>2. \A i \in Splits : At(s, h, i)' = At(s, h, i) BY <2>1 DEF At
    <3> QED BY <1>1, <2>1, <3>1, <3>2, Frame
  <2>5. ~CanUse(call) => FallbackOK'
    <3>1. \A o : A!Attended(o)' = A!Attended(o) /\ At(o.seq, o.head, 0)' = At(o.seq, o.head, 0)
      BY <2>1, SameAttended DEF At
    <3> QED BY <2>1, <3>1, SameAttended DEF Inv, FallbackOK
  <2> QED BY <2>1, <2>2, <2>3, <2>4, <2>5 DEF Inv, Seqs, Heads
<1>3. CASE Call
  <2>1. /\ \A k \in Slots : counter[k] = 0
        /\ \A o \in A!Outputs : out[o] # None
    BY <1>3, AllDone DEF Call
  <2>2. /\ call' \in Shapes /\ tag' \in 0 .. Calls - 1 /\ tag' = tag + 1 /\ tag + 1 < Calls
        /\ out' = [o \in A!Outputs' |-> None]
        /\ pc' = Launch(call') /\ partial' = partial /\ counter' = counter
    BY <1>1, <1>3, SizeAssumption DEF Call, TypeOK
  <2>3. A!Next
    BY <2>1, <2>2 DEF A!Next, A!Call
  <2>4. Inv'
    <3>1. Launched'
      BY <1>1, <2>1, <2>2 DEF TypeOK, Launched
    <3> QED BY <3>1, LaunchOK, PTL
  <2> QED BY <2>3, <2>4
<1>4. ASSUME NEW p \in DOMAIN pc,
             Varlen(p) \/ Alone(p) \/ Scan(p) \/ Arrive(p) \/ Merge(p) \/ Reset(p)
      PROVE  Inv' /\ [A!Next]_<<call, tag, out>>
  <2>1. call' = call /\ tag' = tag
    BY <1>4 DEF Varlen, Alone, Scan, Arrive, Merge, Reset
  <2>2. CASE CanUse(call)
    <3> DEFINE s == p.seq
               h == p.head
               i == p.split
    <3>1. /\ s \in Seqs /\ h \in Heads /\ i \in Splits /\ p = [seq |-> s, head |-> h, split |-> i]
          /\ Slot(p) = SlotAt(call, s, h) /\ SlotAt(call, s, h) \in Slots /\ GroupOK(s, h)
      BY <1>1, <2>2, KdaProgram, OwnSlot DEF Inv
    <3>2. ~Varlen(p)
      BY <2>2 DEF Varlen
    <3>3. /\ \E label \in {"scan", "arrive", "merge", "reset", "done"} : Goto(p, label)
          /\ \A k \in Slots : k # SlotAt(call, s, h) => partial'[k] = partial[k]
          /\ \A k \in Slots : k # SlotAt(call, s, h) => counter'[k] = counter[k]
          /\ \A o \in A!Outputs : o \notin Group(s, h) => out'[o] = out[o]
          /\ DOMAIN partial' = Slots /\ \A k \in Slots : DOMAIN partial'[k] = Splits
          /\ DOMAIN counter' = Slots /\ DOMAIN out' = A!Outputs
          /\ Arrive(p) \/ Reset(p) \/ counter' = counter
      <4>1. CASE Alone(p)
        BY <1>1, <4>1 DEF Alone, Write, TypeOK
      <4>2. CASE Scan(p)
        BY <1>1, <3>1, <4>2 DEF Scan, TypeOK
      <4>3. CASE Arrive(p)
        BY <1>1, <3>1, <4>3 DEF Arrive, TypeOK
      <4>4. CASE Merge(p)
        BY <1>1, <4>4 DEF Merge, Write, TypeOK
      <4>5. CASE Reset(p)
        BY <1>1, <3>1, <4>5 DEF Reset, TypeOK
      <4> QED BY <1>4, <3>2, <4>1, <4>2, <4>3, <4>4, <4>5
    <3> HIDE DEF s, h, i
    <3>4. GroupOK(s, h)' /\ [A!Next]_<<call, tag, out>>
      <4>1. CASE Alone(p)
        <5>1. GroupOK(s, h)' /\ A!Attend(Group(s, h))
          BY <2>2, <3>1, <4>1, AloneKeeps
        <5> QED BY <5>1 DEF A!Next, Group
      <4>2. CASE Scan(p)
        BY <2>2, <3>1, <4>2, ScanKeeps DEF Scan
      <4>3. CASE Arrive(p)
        BY <2>2, <3>1, <4>3, ArriveKeeps DEF Arrive
      <4>4. CASE Merge(p)
        <5>1. GroupOK(s, h)' /\ A!Attend(Group(s, h))
          BY <2>2, <3>1, <4>4, MergeKeeps
        <5> QED BY <5>1 DEF A!Next, Group
      <4>5. CASE Reset(p)
        BY <2>2, <3>1, <4>5, ResetKeeps DEF Reset
      <4> QED BY <1>4, <3>2, <4>1, <4>2, <4>3, <4>4, <4>5
    <3>5. counter' \in [Slots -> 0 .. MAX_SPLITS]
      <4>1. counter'[SlotAt(call, s, h)] \in 0 .. MAX_SPLITS
        <5>1. CASE Arrive(p) BY <2>2, <3>1, <5>1, ArriveKeeps
        <5>2. CASE Reset(p) BY <1>1, <3>1, <5>2 DEF Reset, ResetTo, TypeOK, MAX_SPLITS
        <5>3. CASE counter' = counter BY <1>1, <3>1, <5>3 DEF TypeOK
        <5> QED BY <3>3, <5>1, <5>2, <5>3
      <4> DEFINE k0 == SlotAt(call, s, h)
      <4> HIDE DEF k0
      <4>2. ASSUME NEW k \in Slots PROVE counter'[k] \in 0 .. MAX_SPLITS
        BY <1>1, <3>3, <4>1 DEF TypeOK
      <4>3. counter' = [k \in Slots |-> counter'[k]]
        <5>1. CASE Arrive(p) BY <1>1, <5>1 DEF Arrive, TypeOK
        <5>2. CASE Reset(p) BY <1>1, <5>2 DEF Reset, TypeOK
        <5>3. CASE counter' = counter BY <1>1, <5>3 DEF TypeOK
        <5> QED BY <3>3, <5>1, <5>2, <5>3
      <4> QED BY <4>2, <4>3
    <3>6. TypeOK'
      <4>1. pc' \in [Programs(call) -> {"scan", "arrive", "merge", "reset", "done"}]
        BY <1>1, <3>3 DEF Goto, TypeOK
      <4> QED BY <1>1, <2>1, <3>3, <3>5, <4>1 DEF TypeOK, A!Outputs
    <3>7. PICK label \in {"scan", "arrive", "merge", "reset", "done"} : Goto(p, label)
      BY <3>3
    <3>8. /\ FreeSlots'
          /\ \A s2 \in Seqs, h2 \in Heads : <<s2, h2>> # <<s, h>> => GroupOK(s2, h2)'
      BY <2>1, <2>2, <3>1, <3>3, <3>7, Others
    <3>9. \A s2 \in Seqs', h2 \in Heads' : GroupOK(s2, h2)'
      <4>1. Seqs' = Seqs /\ Heads' = Heads BY <2>1 DEF Seqs, Heads
      <4>2. ASSUME NEW s2 \in Seqs, NEW h2 \in Heads PROVE GroupOK(s2, h2)'
        <5>1. CASE s2 = s /\ h2 = h BY <3>4, <5>1
        <5>2. CASE <<s2, h2>> # <<s, h>> BY <3>8, <5>2
        <5> QED BY <5>1, <5>2
      <4> QED BY <4>1, <4>2
    <3> QED BY <2>1, <2>2, <3>4, <3>6, <3>8, <3>9 DEF Inv
  <2>3. CASE ~CanUse(call)
    <3>1. Varlen(p)
      <4>1. ~Alone(p) /\ ~Scan(p)
        BY <2>3 DEF Alone, Scan
      <4>2. p = [seq |-> p.seq, head |-> p.head, split |-> 0]
              /\ [seq |-> p.seq, head |-> p.head] \in A!Outputs
        <5>1. p \in [seq : 0 .. call.batch - 1, head : 0 .. call.qHeads - 1, split : {0}]
          BY <1>1, <2>3 DEF TypeOK, Programs
        <5>2. p = [seq |-> p.seq, head |-> p.head, split |-> 0] BY <5>1
        <5> QED BY <5>1, <5>2 DEF A!Outputs
      <4>3. pc[p] \in {"scan", "done"}
        <5> DEFINE o == [seq |-> p.seq, head |-> p.head]
        <5>1. At(o.seq, o.head, 0) \in {"scan", "done"}
          BY <2>3, <4>2 DEF Inv, FallbackOK
        <5> QED BY <4>2, <5>1 DEF At
      <4> QED BY <1>4, <4>1, <4>3 DEF Arrive, Merge, Reset
    <3>2. FallbackOK' /\ A!Attend({[seq |-> p.seq, head |-> p.head]})
      BY <2>3, <3>1, VarlenKeeps
    <3>3. A!Next
      <4>1. [seq |-> p.seq, head |-> p.head] \in A!Outputs
        BY <1>1, <2>3 DEF TypeOK, Programs, A!Outputs
      <4> QED BY <3>2, <4>1 DEF A!Next
    <3>4. TypeOK'
      <4>1. /\ counter' = counter /\ partial' = partial
            /\ pc' \in [Programs(call) -> {"scan", "arrive", "merge", "reset", "done"}]
            /\ DOMAIN out' = A!Outputs
        BY <1>1, <3>1 DEF Varlen, Goto, Write, TypeOK
      <4> QED BY <1>1, <2>1, <4>1 DEF TypeOK, A!Outputs
    <3>5. FreeSlots'
      BY <2>1, <2>3, <3>1 DEF Inv, FreeSlots, Varlen
    <3> QED BY <2>1, <2>3, <3>2, <3>3, <3>4, <3>5 DEF Inv
  <2> QED BY <2>2, <2>3
<1> QED BY <1>2, <1>3, <1>4 DEF Next

\* The invariant holds when the first call begins.
LEMMA InitKeeps == Init => Inv /\ A!Init
<1> SUFFICES ASSUME Init PROVE Inv /\ A!Init
  OBVIOUS
<1>1. 0 \in 0 .. Calls - 1
  BY SizeAssumption
<1>2. /\ call \in Shapes /\ tag = 0 /\ out = [o \in A!Outputs |-> None] /\ pc = Launch(call)
      /\ partial = [k \in Slots |-> [i \in Splits |-> {Garbage}]]
      /\ counter = [k \in Slots |-> 0]
  BY DEF Init
<1>3. Launched
  BY <1>1, <1>2 DEF Launched, MAX_SPLITS
<1> QED BY <1>2, <1>3, LaunchOK DEF A!Init

\* Every reachable state of the kernels satisfies the invariant.
THEOREM Invariance == Spec => []Inv
<1>1. Init => Inv
  BY InitKeeps
<1>2. Inv /\ [Next]_vars => Inv'
  BY StepKeeps
<1> QED BY <1>1, <1>2, PTL DEF Spec

\* Type correctness: no counter leaves its range and the scratch keeps its shape.
THEOREM TypeCorrect == Spec => []TypeOK
<1>1. Inv => TypeOK
  BY DEF Inv
<1> QED BY <1>1, Invariance, PTL

\* A call that ends leaves every arrival counter at zero, whatever its shape and the order
\* in which its programs ran.
THEOREM CountersAreRestored == Spec => []CountersRestored
<1>1. Inv => CountersRestored
  BY AllDone DEF CountersRestored
<1> QED BY <1>1, Invariance, PTL

\* The split kernel and the fallback implement QsaAttention: each output row is written
\* once per call, from all of its selected rows, each once, and from nothing else.
THEOREM Implements == Spec => Attention
<1>1. Init => A!Init
  BY InitKeeps
<1>2. Inv /\ [Next]_vars => [A!Next]_<<call, tag, out>>
  BY StepKeeps
<1> QED BY <1>1, <1>2, Invariance, PTL DEF Spec, Attention, A!Spec
=============================================================================
