-------------------------- MODULE Challenge_proofs --------------------------
(***************************************************************************)
(* Theorems about a challenge: the size of its shard, for every tier,      *)
(* budget, fraction and granularity; the Merkle trees it is judged with,   *)
(* for every number of leaves and whatever proof is presented; and the     *)
(* challenge itself, for shards of every size, every number of flawed rows *)
(* and all options.                                                        *)
(***************************************************************************)
EXTENDS RowChallenge, ShardSizing, FiniteSetTheorems, SequenceTheorems, NaturalOrder, TLAPS

-----------------------------------------------------------------------------
(* The size of a shard *)

\* The time of a shard is a natural number.
LEMMA CubeInNat == \A a \in Nat : Cube(a) \in Nat
BY DEF Cube

\* A larger shard takes no less.
LEMMA CubeOrder ==
    ASSUME NEW a \in Nat, NEW b \in Nat, a <= b
    PROVE  Cube(a) <= Cube(b)
<1>1. a * a <= b * b
      OBVIOUS
<1>2. a * a \in Nat /\ b * b \in Nat
      OBVIOUS
<1>3. (a * a) * a <= (b * b) * b
  <2>1. \A x, y \in Nat : x <= y => x * a <= y * a
        OBVIOUS
  <2>2. \A x \in Nat : x * a <= x * b
        OBVIOUS
  <2>3. (a * a) * a <= (b * b) * a
        BY <1>1, <1>2, <2>1
  <2>4. (b * b) * a <= (b * b) * b
        BY <1>2, <2>2
  <2>5. (a * a) * a \in Nat /\ (b * b) * a \in Nat /\ (b * b) * b \in Nat
        OBVIOUS
  <2> QED
        BY <2>3, <2>4, <2>5
<1> QED
      BY <1>3 DEF Cube

\* A shard of size a takes at least a, so the sizes sought are bounded.
LEMMA CubeAtLeast ==
    ASSUME NEW a \in Nat
    PROVE  a <= Cube(a)
<1>1. CASE a = 0
      BY <1>1 DEF Cube
<1>2. CASE a # 0
  <2>1. a <= a * a
        BY <1>2
  <2>2. a * a <= (a * a) * a
        BY <1>2
  <2> QED
        BY <2>1, <2>2 DEF Cube
<1> QED
      BY <1>1, <1>2

\* minShardN() is a size at which the overhead is within its fraction, and the
\* smallest one if there is any overhead.
LEMMA FloorIsLeast ==
    ASSUME NEW overhead \in Nat, NEW num \in Nat \ {0}, NEW den \in Nat, num < den
    PROVE  LET floorN == MinShardN(overhead, num, den)
           IN  /\ floorN \in Nat
               /\ overhead * (den - num) <= Cube(floorN) * num
               /\ overhead # 0 => \A m \in Nat :
                    overhead * (den - num) <= Cube(m) * num => floorN <= m
<1> DEFINE need == overhead * (den - num)
           S == {m \in 0 .. need : need <= Cube(m) * num}
<1>1. need \in Nat
      OBVIOUS
<1>2. CASE overhead = 0
      BY <1>2 DEF MinShardN, Cube
<1>3. CASE overhead # 0
  <2>1. S \in SUBSET Nat
        BY <1>1
  <2>2. need \in S
    <3>1. need <= Cube(need)
          BY <1>1, CubeAtLeast
    <3>2. \A c \in Nat : c <= c * num
          OBVIOUS
    <3>3. Cube(need) \in Nat /\ Cube(need) <= Cube(need) * num
          BY <1>1, <3>2, CubeInNat
    <3>4. Cube(need) * num \in Nat
          BY <3>3
    <3> HIDE DEF need
    <3> QED
          BY <1>1, <3>1, <3>3, <3>4
  <2>3. PICK m \in S : \A j \in S : m <= j
        BY <2>1, <2>2, LeastExists
  <2>4. Least(S) \in S /\ \A j \in S : Least(S) <= j
        BY <2>3 DEF Least
  <2>5. MinShardN(overhead, num, den) = Least(S)
        BY <1>3 DEF MinShardN
  <2>6. /\ Least(S) \in Nat /\ Least(S) <= need
        /\ need <= Cube(Least(S)) * num
    <3>1. \A l \in S : l \in Nat /\ l <= need /\ need <= Cube(l) * num
      <4> HIDE DEF need
      <4> QED
          BY <1>1
    <3> HIDE DEF need, S
    <3> QED
        BY <2>4, <3>1
  <2>7. ASSUME NEW j \in Nat, need <= Cube(j) * num
        PROVE  Least(S) <= j
    <3>1. CASE j <= need
      <4>1. j \in S
        <5> HIDE DEF need
        <5> QED
            BY <1>1, <2>7, <3>1
      <4> QED
          BY <2>4, <4>1
    <3>2. CASE ~(j <= need)
      <4> HIDE DEF need, S
      <4> QED
          BY <1>1, <2>6, <2>7, <3>2
    <3> QED
        BY <3>1, <3>2
  <2> HIDE DEF S
  <2> QED
      BY <2>5, <2>6, <2>7
<1> QED
      BY <1>2, <1>3

\* shardNForWallTime() is a size that the budget allows, and the largest one, if
\* the budget allows more than the dispatch itself.
LEMMA BudgetIsGreatest ==
    ASSUME NEW overhead \in Nat, NEW budget \in Nat
    PROVE  LET budgetN == ShardNForWallTime(overhead, budget)
           IN  /\ budgetN \in Nat
               /\ overhead < budget => Wall(overhead, budgetN) <= budget
               /\ \A m \in Nat : Wall(overhead, m) <= budget => m <= budgetN
<1>1. CASE budget <= overhead
  <2>1. ASSUME NEW m \in Nat, Wall(overhead, m) <= budget
        PROVE  m <= 0
    <3>1. Cube(m) \in Nat /\ m <= Cube(m)
          BY CubeInNat, CubeAtLeast
    <3>2. overhead + Cube(m) <= budget
          BY <2>1 DEF Wall
    <3> QED
          BY <1>1, <3>1, <3>2
  <2> QED
        BY <1>1, <2>1 DEF ShardNForWallTime
<1>2. CASE overhead < budget
  <2> DEFINE left == budget - overhead
             S == {m \in 0 .. left : Cube(m) <= left}
  <2>1. left \in Nat /\ S \in SUBSET Nat
        BY <1>2
  <2>2. 0 \in S
        BY <2>1 DEF Cube
  <2>3. PICK m \in S : \A j \in S : j <= m
    <3>1. \A j \in S : j <= left
          BY <2>1
    <3> HIDE DEF S, left
    <3> QED
          BY <2>1, <2>2, <3>1, GreatestExists
  <2>4. Greatest(S) \in S /\ \A j \in S : j <= Greatest(S)
        BY <2>3 DEF Greatest
  <2>5. ShardNForWallTime(overhead, budget) = Greatest(S)
        BY <1>2 DEF ShardNForWallTime
  <2>6. Wall(overhead, Greatest(S)) <= budget
    <3>1. Cube(Greatest(S)) <= left /\ Cube(Greatest(S)) \in Nat
          BY <2>1, <2>4, CubeInNat
    <3> QED
          BY <1>2, <3>1 DEF Wall
  <2>7. ASSUME NEW j \in Nat, Wall(overhead, j) <= budget
        PROVE  j <= Greatest(S)
    <3>1. Cube(j) \in Nat /\ j <= Cube(j)
          BY CubeInNat, CubeAtLeast
    <3>2. Cube(j) <= left
          BY <1>2, <2>7, <3>1 DEF Wall
    <3>3. j \in S
          BY <2>1, <3>1, <3>2
    <3> QED
          BY <2>4, <3>3
  <2> QED
        BY <2>1, <2>4, <2>5, <2>6, <2>7
<1> QED
      BY <1>1, <1>2

\* Rounding rounds down, from one granule upwards.
LEMMA RoundDownType ==
    ASSUME NEW size \in Nat, NEW granularity \in Nat \ {0}
    PROVE  /\ RoundDown(size, granularity) \in Nat
           /\ granularity <= size => RoundDown(size, granularity) <= size
<1>1. size \div granularity \in Nat /\ (size \div granularity) * granularity <= size
      OBVIOUS
<1> QED
      BY <1>1 DEF RoundDown

\* "Round to a workgroup-friendly multiple, but never below the floor"
\* (tiers.js:175): whatever the budget, the overhead of the shard that is chosen
\* is within its fraction of the wall time.
THEOREM OverheadIsAmortised ==
    ASSUME NEW overhead \in Nat, NEW budget \in Nat, NEW num \in Nat \ {0},
           NEW den \in Nat, num < den, NEW granularity \in Nat \ {0}
    PROVE  LET chosen == ChooseShardSize(overhead, budget, num, den, granularity)
           IN  overhead * den <= Wall(overhead, chosen.n) * num
<1> DEFINE floorN == MinShardN(overhead, num, den)
           size == ChooseShardSize(overhead, budget, num, den, granularity).n
<1>1. floorN \in Nat /\ overhead * (den - num) <= Cube(floorN) * num
      BY FloorIsLeast
<1>2. size \in Nat /\ floorN <= size
  <2>1. ShardNForWallTime(overhead, budget) \in Nat
        BY BudgetIsGreatest
  <2>2. RoundDown(ShardNForWallTime(overhead, budget), granularity) \in Nat
        BY <2>1, RoundDownType
  <2> QED
        BY <1>1, <2>1, <2>2 DEF ChooseShardSize
<1>3. Cube(floorN) \in Nat /\ Cube(size) \in Nat /\ Cube(floorN) <= Cube(size)
      BY <1>1, <1>2, CubeInNat, CubeOrder
<1> HIDE DEF size, floorN
<1>4. Cube(floorN) * num <= Cube(size) * num
  <2>1. \A x, y \in Nat : x <= y => x * num <= y * num
        OBVIOUS
  <2> QED
        BY <1>3, <2>1
<1>5. overhead * den = overhead * (den - num) + overhead * num
      OBVIOUS
<1>6. (overhead + Cube(size)) * num = overhead * num + Cube(size) * num
      BY <1>3
<1>7. /\ overhead * (den - num) \in Nat /\ overhead * num \in Nat
      /\ Cube(size) * num \in Nat /\ Cube(floorN) * num \in Nat
      BY <1>3
<1> QED
      BY <1>1, <1>4, <1>5, <1>6, <1>7 DEF Wall, size

\* "The caller is told" when the budget is overrun (tiers.js:152-154), provided
\* that the budget allows one granule: without a report the shard fits.
THEOREM SilentShardsFit ==
    ASSUME NEW overhead \in Nat, NEW budget \in Nat, NEW num \in Nat \ {0},
           NEW den \in Nat, num < den, NEW granularity \in Nat \ {0},
           Wall(overhead, granularity) <= budget
    PROVE  LET chosen == ChooseShardSize(overhead, budget, num, den, granularity)
           IN  chosen.budgetExceeded \/ Wall(overhead, chosen.n) <= budget
<1> DEFINE floorN == MinShardN(overhead, num, den)
           budgetN == ShardNForWallTime(overhead, budget)
           chosen == ChooseShardSize(overhead, budget, num, den, granularity)
<1>1. floorN \in Nat
      BY FloorIsLeast
<1>2. /\ budgetN \in Nat /\ granularity <= budgetN
      /\ overhead < budget => Wall(overhead, budgetN) <= budget
      BY BudgetIsGreatest
<1>3. overhead < budget
  <2>1. Cube(granularity) \in Nat /\ granularity <= Cube(granularity)
        BY CubeInNat, CubeAtLeast
  <2> QED
        BY <2>1 DEF Wall
<1>4. CASE budgetN < floorN
      BY <1>4 DEF ChooseShardSize
<1>5. CASE ~(budgetN < floorN)
  <2>1. /\ RoundDown(budgetN, granularity) \in Nat
        /\ RoundDown(budgetN, granularity) <= budgetN
        BY <1>2, RoundDownType
  <2>2. chosen.n \in Nat /\ chosen.n <= budgetN
        BY <1>1, <1>2, <1>5, <2>1 DEF ChooseShardSize
  <2>3. Cube(chosen.n) <= Cube(budgetN) /\ Cube(chosen.n) \in Nat /\ Cube(budgetN) \in Nat
        BY <1>2, <2>2, CubeOrder, CubeInNat
  <2>4. overhead + Cube(budgetN) <= budget
        BY <1>2, <1>3 DEF Wall
  <2> QED
        BY <2>3, <2>4 DEF Wall
<1> QED
      BY <1>4, <1>5

\* And a report is never a false alarm: no size keeps both the budget and the
\* fraction.
THEOREM ReportsAreTrue ==
    ASSUME NEW overhead \in Nat \ {0}, NEW budget \in Nat, NEW num \in Nat \ {0},
           NEW den \in Nat, num < den, NEW granularity \in Nat \ {0},
           ChooseShardSize(overhead, budget, num, den, granularity).budgetExceeded
    PROVE  \A m \in Nat :
              ~(Wall(overhead, m) <= budget /\ overhead * den <= Wall(overhead, m) * num)
<1> SUFFICES ASSUME NEW m \in Nat, Wall(overhead, m) <= budget,
                    overhead * den <= Wall(overhead, m) * num
             PROVE  FALSE
    OBVIOUS
<1> DEFINE floorN == MinShardN(overhead, num, den)
           budgetN == ShardNForWallTime(overhead, budget)
<1>1. budgetN < floorN
      BY DEF ChooseShardSize
<1>2. budgetN \in Nat /\ m <= budgetN
      BY BudgetIsGreatest
<1>3. overhead * (den - num) <= Cube(m) * num
  <2>1. Cube(m) \in Nat
        BY CubeInNat
  <2>2. (overhead + Cube(m)) * num = overhead * num + Cube(m) * num
        BY <2>1
  <2>3. overhead * den = overhead * (den - num) + overhead * num
        OBVIOUS
  <2>4. /\ overhead * (den - num) \in Nat /\ overhead * num \in Nat
        /\ Cube(m) * num \in Nat
        BY <2>1
  <2> QED
        BY <2>2, <2>3, <2>4 DEF Wall
<1>4. floorN \in Nat /\ floorN <= m
      BY <1>3, FloorIsLeast
<1> QED
      BY <1>1, <1>2, <1>4

-----------------------------------------------------------------------------
(* What the recursive definitions compute *)

\* A function on 1 .. k is a sequence of length k.
LEMMA LengthOf ==
    ASSUME NEW k \in Nat, NEW f, f = [j \in 1 .. k |-> f[j]]
    PROVE  Len(f) = k
<1> DEFINE Values == {f[j] : j \in 1 .. k}
<1>1. f \in [1 .. k -> Values]
      OBVIOUS
<1>2. f \in Seq(Values)
      BY <1>1, SeqDef
<1>3. Len(f) \in Nat /\ DOMAIN f = 1 .. Len(f)
      BY <1>2, LenProperties
<1>4. DOMAIN f = 1 .. k
      BY <1>1
<1> HIDE DEF Values
<1> QED
      BY <1>3, <1>4

\* Each of the three recursive functions exists: the least bound without one
\* would follow a bound with one, which extends to it.  The layers of a tree:
LEMMA StackExists ==
    ASSUME NEW leaves, Len(leaves) \in Nat
    PROVE  /\ Stack(leaves)[0] = leaves
           /\ \A h \in 1 .. Len(leaves) :
                 Stack(leaves)[h] = LayerAbove(Stack(leaves)[h - 1])
<1> DEFINE Made(m, f) == f = [h \in 0 .. m |-> IF h = 0 THEN leaves
                                               ELSE LayerAbove(f[h - 1])]
           Missing == {m \in Nat : ~\E f : Made(m, f)}
<1>1. Missing = {}
  <2>1. SUFFICES ASSUME Missing # {} PROVE FALSE
        OBVIOUS
  <2>2. PICK m \in Missing : \A j \in Missing : m <= j
        BY <2>1, LeastExists
  <2>3. m # 0
    <3>1. Made(0, [h \in 0 .. 0 |-> leaves])
          OBVIOUS
    <3> QED
          BY <2>2, <3>1
  <2>4. m - 1 \in Nat /\ m \in Nat
        BY <2>2, <2>3
  <2>5. \E f : Made(m - 1, f)
    <3>1. m - 1 \notin Missing
      <4> HIDE DEF Missing
      <4> QED
          BY <2>2, <2>4
    <3> HIDE DEF Made
    <3> QED
          BY <2>4, <3>1
  <2>6. PICK f : Made(m - 1, f)
        BY <2>5
  <2> DEFINE g == [h \in 0 .. m |-> IF h < m THEN f[h] ELSE LayerAbove(f[m - 1])]
  <2>7. ASSUME NEW h \in 0 .. m
        PROVE  g[h] = IF h = 0 THEN leaves ELSE LayerAbove(g[h - 1])
    <3>1. CASE h = m
          BY <2>3, <2>4, <3>1
    <3>2. CASE h < m /\ h # 0
          BY <2>4, <2>6, <3>2
    <3>3. CASE h < m /\ h = 0
          BY <2>4, <2>6, <3>3
    <3> QED
          BY <2>4, <3>1, <3>2, <3>3
  <2>8. Made(m, g)
        BY <2>7
  <2> QED
        BY <2>2, <2>8
<1>2. \E f : Made(Len(leaves), f)
  <2> HIDE DEF Made
  <2> QED
      BY <1>1
<1>3. Stack(leaves) = CHOOSE f : Made(Len(leaves), f)
      BY DEF Stack
<1>4. Made(Len(leaves), Stack(leaves))
  <2> HIDE DEF Made
  <2> QED
      BY <1>2, <1>3
<1> DEFINE s == Stack(leaves)
<1> HIDE DEF s
<1> QED
      BY <1>4 DEF s

\* The path from a leaf:
LEMMA PathExists ==
    ASSUME NEW layers, Len(layers) \in Nat, NEW index
    PROVE  /\ Path(layers, index)[0] = index
           /\ \A l \in 1 .. Len(layers) :
                 Path(layers, index)[l] = Path(layers, index)[l - 1] \div 2
<1> DEFINE Made(m, f) == f = [l \in 0 .. m |-> IF l = 0 THEN index ELSE f[l - 1] \div 2]
           Missing == {m \in Nat : ~\E f : Made(m, f)}
<1>1. Missing = {}
  <2>1. SUFFICES ASSUME Missing # {} PROVE FALSE
        OBVIOUS
  <2>2. PICK m \in Missing : \A j \in Missing : m <= j
        BY <2>1, LeastExists
  <2>3. m # 0
    <3>1. Made(0, [l \in 0 .. 0 |-> index])
          OBVIOUS
    <3> QED
          BY <2>2, <3>1
  <2>4. m - 1 \in Nat /\ m \in Nat
        BY <2>2, <2>3
  <2>5. \E f : Made(m - 1, f)
    <3>1. m - 1 \notin Missing
      <4> HIDE DEF Missing
      <4> QED
          BY <2>2, <2>4
    <3> HIDE DEF Made
    <3> QED
          BY <2>4, <3>1
  <2>6. PICK f : Made(m - 1, f)
        BY <2>5
  <2> DEFINE g == [l \in 0 .. m |-> IF l < m THEN f[l] ELSE f[m - 1] \div 2]
  <2>7. ASSUME NEW l \in 0 .. m
        PROVE  g[l] = IF l = 0 THEN index ELSE g[l - 1] \div 2
    <3>1. CASE l = m
          BY <2>3, <2>4, <3>1
    <3>2. CASE l < m /\ l # 0
          BY <2>4, <2>6, <3>2
    <3>3. CASE l < m /\ l = 0
          BY <2>4, <2>6, <3>3
    <3> QED
          BY <2>4, <3>1, <3>2, <3>3
  <2>8. Made(m, g)
        BY <2>7
  <2> QED
        BY <2>2, <2>8
<1>2. \E f : Made(Len(layers), f)
  <2> HIDE DEF Made
  <2> QED
      BY <1>1
<1>3. Path(layers, index) = CHOOSE f : Made(Len(layers), f)
      BY DEF Path
<1>4. Made(Len(layers), Path(layers, index))
  <2> HIDE DEF Made
  <2> QED
      BY <1>2, <1>3
<1> DEFINE s == Path(layers, index)
<1> HIDE DEF s
<1> QED
      BY <1>4 DEF s

\* What one step of a proof makes of a digest.
Step(step, below) ==
    IF step.isRight THEN Sha256(below, step.hash) ELSE Sha256(step.hash, below)

\* And what a verification computes:
LEMMA ClimbExists ==
    ASSUME NEW leaf, NEW proof, Len(proof) \in Nat
    PROVE  /\ Climb(leaf, proof)[0] = leaf
           /\ \A p \in 1 .. Len(proof) :
                 Climb(leaf, proof)[p] = Step(proof[p], Climb(leaf, proof)[p - 1])
<1> DEFINE Made(m, f) == f = [p \in 0 .. m |-> IF p = 0 THEN leaf
                                               ELSE Step(proof[p], f[p - 1])]
           Missing == {m \in Nat : ~\E f : Made(m, f)}
<1>1. Missing = {}
  <2>1. SUFFICES ASSUME Missing # {} PROVE FALSE
        OBVIOUS
  <2>2. PICK m \in Missing : \A j \in Missing : m <= j
        BY <2>1, LeastExists
  <2>3. m # 0
    <3>1. Made(0, [p \in 0 .. 0 |-> leaf])
          OBVIOUS
    <3> QED
          BY <2>2, <3>1
  <2>4. m - 1 \in Nat /\ m \in Nat
        BY <2>2, <2>3
  <2>5. \E f : Made(m - 1, f)
    <3>1. m - 1 \notin Missing
      <4> HIDE DEF Missing
      <4> QED
          BY <2>2, <2>4
    <3> HIDE DEF Made
    <3> QED
          BY <2>4, <3>1
  <2>6. PICK f : Made(m - 1, f)
        BY <2>5
  <2> DEFINE g == [p \in 0 .. m |-> IF p < m THEN f[p] ELSE Step(proof[m], f[m - 1])]
  <2>7. ASSUME NEW p \in 0 .. m
        PROVE  g[p] = IF p = 0 THEN leaf ELSE Step(proof[p], g[p - 1])
    <3>1. CASE p = m
          BY <2>3, <2>4, <3>1
    <3>2. CASE p < m /\ p # 0
          BY <2>4, <2>6, <3>2
    <3>3. CASE p < m /\ p = 0
          BY <2>4, <2>6, <3>3
    <3> QED
          BY <2>4, <3>1, <3>2, <3>3
  <2>8. Made(m, g)
        BY <2>7
  <2> QED
        BY <2>2, <2>8
<1>2. \E f : Made(Len(proof), f)
  <2> HIDE DEF Made
  <2> QED
      BY <1>1
<1>3. Climb(leaf, proof) = CHOOSE f : Made(Len(proof), f)
      BY DEF Climb, Step
<1>4. Made(Len(proof), Climb(leaf, proof))
  <2> HIDE DEF Made
  <2> QED
      BY <1>2, <1>3
<1> DEFINE s == Climb(leaf, proof)
<1> HIDE DEF s
<1> QED
      BY <1>4 DEF s

-----------------------------------------------------------------------------
(* Trees *)

\* What the theorems about trees use of one.
IsTree(layers, leaves) ==
    /\ Len(layers) \in Nat \ {0}
    /\ layers[1] = leaves
    /\ \A h \in 1 .. Len(layers) : Len(layers[h]) \in Nat \ {0}
    /\ \A h \in 1 .. Len(layers) - 1 : layers[h + 1] = LayerAbove(layers[h])
    /\ Len(layers[Len(layers)]) = 1

\* A layer has half the nodes of the one below, rounded up.
LEMMA LayerAboveLength ==
    ASSUME NEW layer, Len(layer) \in Nat
    PROVE  Len(LayerAbove(layer)) = (Len(layer) + 1) \div 2
<1>1. (Len(layer) + 1) \div 2 \in Nat
      OBVIOUS
<1>2. LayerAbove(layer) = [j \in 1 .. (Len(layer) + 1) \div 2 |-> LayerAbove(layer)[j]]
      BY DEF LayerAbove
<1> QED
      BY <1>1, <1>2, LengthOf

\* So the layers shrink, and reach the root.
LEMMA StackShrinks ==
    ASSUME NEW leaves, Len(leaves) \in Nat \ {0}
    PROVE  \A h \in 0 .. Len(leaves) :
              LET width == Len(Stack(leaves)[h])
              IN  width \in Nat \ {0} /\ (width = 1 \/ width <= Len(leaves) - h)
<1> DEFINE W(h) == Len(Stack(leaves)[h])
           Good(h) == W(h) \in Nat \ {0} /\ (W(h) = 1 \/ W(h) <= Len(leaves) - h)
           Bad == {h \in 0 .. Len(leaves) : ~Good(h)}
<1>1. SUFFICES ASSUME Bad # {} PROVE FALSE
      OBVIOUS
<1>2. Bad \in SUBSET Nat
      OBVIOUS
<1>3. PICK h \in Bad : \A j \in Bad : h <= j
      BY <1>1, <1>2, LeastExists
<1>4. h \in 0 .. Len(leaves) /\ ~Good(h)
      BY <1>3
<1>5. CASE h = 0
      BY <1>4, <1>5, StackExists
<1>6. CASE h # 0
  <2>1. h - 1 \in 0 .. Len(leaves) /\ h \in 1 .. Len(leaves)
        BY <1>4, <1>6
  <2>2. Good(h - 1)
    <3>1. h - 1 \notin Bad
      <4> HIDE DEF Bad
      <4> QED
          BY <1>3, <2>1
    <3> QED
          BY <2>1, <3>1
  <2>3. W(h) = (W(h - 1) + 1) \div 2
        BY <2>1, <2>2, StackExists, LayerAboveLength
  <2> HIDE DEF W
  <2> QED
      BY <1>4, <2>1, <2>2, <2>3
<1> QED
      BY <1>5, <1>6

\* buildMerkleTree() makes a tree of any leaves.
LEMMA LayersMakeTree ==
    ASSUME NEW leaves, Len(leaves) \in Nat \ {0}
    PROVE  IsTree(Layers(leaves), leaves)
<1> DEFINE layer == Stack(leaves)
           Tops == {h \in 0 .. Len(leaves) : Len(layer[h]) = 1}
           top == Min(Tops)
           t == Layers(leaves)
<1>1. /\ layer[0] = leaves
      /\ \A h \in 1 .. Len(leaves) : layer[h] = LayerAbove(layer[h - 1])
      BY StackExists
<1>2. \A h \in 0 .. Len(leaves) :
         Len(layer[h]) \in Nat \ {0} /\ (Len(layer[h]) = 1 \/ Len(layer[h]) <= Len(leaves) - h)
      BY StackShrinks
<1>3. top \in 0 .. Len(leaves) /\ Len(layer[top]) = 1
  <2> HIDE DEF layer
  <2>1. Len(leaves) \in Tops
        BY <1>2
  <2>2. Tops \in SUBSET Nat
        OBVIOUS
  <2>3. \E m \in Tops : \A j \in Tops : m <= j
        BY <2>1, <2>2, LeastExists
  <2>4. top \in Tops
    <3> HIDE DEF Tops
    <3> QED
        BY <2>3 DEF Min
  <2> QED
      BY <2>4
<1>4. t = [h \in 1 .. top + 1 |-> layer[h - 1]]
      BY DEF Layers
<1> HIDE DEF layer, top, t, Tops
<1>5. top + 1 \in Nat /\ top \in Nat
      BY <1>3
<1>6. Len(t) = top + 1
  <2>1. t = [h \in 1 .. top + 1 |-> t[h]]
        BY <1>4
  <2> QED
      BY <1>5, <2>1, LengthOf
<1>7. \A h \in 1 .. top + 1 : t[h] = layer[h - 1] /\ h - 1 \in 0 .. Len(leaves)
      BY <1>3, <1>4, <1>5
<1>8. \A h \in 1 .. top : t[h + 1] = LayerAbove(t[h])
  <2> TAKE h \in 1 .. top
  <2>1. h + 1 \in 1 .. top + 1 /\ h \in 1 .. top + 1 /\ h \in 1 .. Len(leaves)
        BY <1>3, <1>5
  <2>2. t[h + 1] = layer[h] /\ t[h] = layer[h - 1]
        BY <1>7, <2>1
  <2> QED
      BY <1>1, <2>1, <2>2
<1>9. /\ t[1] = leaves
      /\ \A h \in 1 .. top + 1 : Len(t[h]) \in Nat \ {0}
      /\ Len(t[top + 1]) = 1
      BY <1>1, <1>2, <1>3, <1>5, <1>7
<1>10. IsTree(t, leaves)
      BY <1>5, <1>6, <1>8, <1>9 DEF IsTree
<1> QED
      BY <1>10 DEF t

\* A proof has a step for each layer below the root.
LEMMA ProofLength ==
    ASSUME NEW layers, NEW leaves, IsTree(layers, leaves), NEW index
    PROVE  Len(ProveInclusion(layers, index)) = Len(layers) - 1
<1>1. Len(layers) - 1 \in Nat
      BY DEF IsTree
<1>2. ProveInclusion(layers, index) =
        [l \in 1 .. Len(layers) - 1 |-> ProveInclusion(layers, index)[l]]
      BY DEF ProveInclusion
<1> QED
      BY <1>1, <1>2, LengthOf

-----------------------------------------------------------------------------
(* A proof takes its own leaf to the root *)

\* The smaller of two numbers.
LEMMA SmallerOf ==
    ASSUME NEW a \in Int, NEW b \in Int
    PROVE  Min({a, b}) = IF a <= b THEN a ELSE b
<1> DEFINE m == IF a <= b THEN a ELSE b
<1>1. m \in {a, b} /\ \A y \in {a, b} : m <= y
      OBVIOUS
<1>2. \A x \in {a, b} : (\A y \in {a, b} : x <= y) => x = m
      OBVIOUS
<1> HIDE DEF m
<1>3. Min({a, b}) = m
      BY <1>1, <1>2 DEF Min
<1> QED
      BY <1>3 DEF m

\* A node and its sibling are hashed into the node above, at even places, at odd
\* ones, and at the right edge of an odd layer.
LEMMA OneUp ==
    ASSUME NEW layer, Len(layer) \in Nat \ {0}, NEW at \in 0 .. Len(layer) - 1
    PROVE  /\ at \div 2 \in 0 .. Len(LayerAbove(layer)) - 1
           /\ LayerAbove(layer)[(at \div 2) + 1] = Step(Sibling(layer, at), layer[at + 1])
<1> DEFINE w == Len(layer)
           up == (at \div 2) + 1
<1>1. at \div 2 \in Nat /\ up \in 1 .. (w + 1) \div 2
      OBVIOUS
<1>2. Len(LayerAbove(layer)) = (w + 1) \div 2
      BY LayerAboveLength
<1>3. LayerAbove(layer)[up] = Sha256(layer[2 * up - 1], layer[Min({2 * up, w})])
      BY <1>1 DEF LayerAbove
<1>4. CASE at % 2 = 1
  <2>1. 2 * up - 1 = at /\ 2 * up = at + 1
        BY <1>4
  <2>2. Min({2 * up, w}) = at + 1
        BY <2>1, SmallerOf
  <2>3. Step(Sibling(layer, at), layer[at + 1]) = Sha256(layer[at], layer[at + 1])
        BY <1>4 DEF Step, Sibling
  <2> HIDE DEF up
  <2> QED
        BY <1>1, <1>2, <1>3, <2>1, <2>2, <2>3 DEF up
<1>5. CASE at % 2 = 0
  <2>1. 2 * up - 1 = at + 1 /\ 2 * up = at + 2
        BY <1>5
  <2>2. Step(Sibling(layer, at), layer[at + 1]) =
           Sha256(layer[at + 1], layer[Min({at + 2, w})])
        BY <1>5 DEF Step, Sibling
  <2>3. LayerAbove(layer)[up] = Sha256(layer[at + 1], layer[Min({at + 2, w})])
    <3> HIDE DEF up
    <3> QED
        BY <1>3, <2>1
  <2>4. at \div 2 \in 0 .. Len(LayerAbove(layer)) - 1
        BY <1>1, <1>2
  <2> QED
        BY <2>2, <2>3, <2>4
<1>6. at % 2 \in {0, 1}
      OBVIOUS
<1> QED
      BY <1>4, <1>5, <1>6

\* The step of a proof at a layer.
LEMMA ProofStep ==
    ASSUME NEW layers, NEW index, Len(layers) \in Nat, NEW l \in 1 .. Len(layers) - 1
    PROVE  ProveInclusion(layers, index)[l] =
              Sibling(layers[l], Path(layers, index)[l - 1])
BY DEF ProveInclusion

\* The path stays inside the tree, and verification follows it.
LEMMA ClimbFollowsPath ==
    ASSUME NEW layers, NEW leaves, IsTree(layers, leaves),
           NEW index \in 0 .. Len(leaves) - 1
    PROVE  LET at == Path(layers, index)
               current == Climb(leaves[index + 1], ProveInclusion(layers, index))
           IN  \A l \in 0 .. Len(layers) - 1 :
                  /\ at[l] \in 0 .. Len(layers[l + 1]) - 1
                  /\ current[l] = layers[l + 1][at[l] + 1]
<1> DEFINE proof == ProveInclusion(layers, index)
           at == Path(layers, index)
           current == Climb(leaves[index + 1], proof)
           Good(l) == /\ at[l] \in 0 .. Len(layers[l + 1]) - 1
                      /\ current[l] = layers[l + 1][at[l] + 1]
           Bad == {l \in 0 .. Len(layers) - 1 : ~Good(l)}
<1>1. /\ Len(layers) \in Nat \ {0} /\ layers[1] = leaves
      /\ \A h \in 1 .. Len(layers) : Len(layers[h]) \in Nat \ {0}
      /\ \A h \in 1 .. Len(layers) - 1 : layers[h + 1] = LayerAbove(layers[h])
      BY DEF IsTree
<1>2. Len(proof) = Len(layers) - 1
      BY ProofLength
<1>3. /\ at[0] = index
      /\ \A l \in 1 .. Len(layers) : at[l] = at[l - 1] \div 2
      BY <1>1, PathExists
<1>4. /\ current[0] = leaves[index + 1]
      /\ \A l \in 1 .. Len(layers) - 1 : current[l] = Step(proof[l], current[l - 1])
  <2>1. Len(proof) \in Nat
        BY <1>1, <1>2
  <2> HIDE DEF proof
  <2> QED
      BY <1>2, <2>1, ClimbExists
<1>5. \A l \in 1 .. Len(layers) - 1 : proof[l] = Sibling(layers[l], at[l - 1])
      BY <1>1, ProofStep
<1> HIDE DEF proof, at, current
<1>6. Bad = {}
  <2> SUFFICES ASSUME Bad # {} PROVE FALSE
      OBVIOUS
  <2>1. Bad \in SUBSET Nat
        BY <1>1
  <2>2. PICK l \in Bad : \A j \in Bad : l <= j
        BY <2>1, LeastExists
  <2>3. l \in 0 .. Len(layers) - 1 /\ ~Good(l)
        BY <2>2
  <2>4. Good(0)
        BY <1>1, <1>3, <1>4
  <2>5. l # 0
        BY <2>3, <2>4
  <2>6. /\ l \in 1 .. Len(layers) - 1 /\ l - 1 \in 0 .. Len(layers) - 1
        /\ l \in 1 .. Len(layers) /\ (l - 1) + 1 = l /\ l \in Nat
        BY <1>1, <2>3, <2>5
  <2>7. Good(l - 1)
    <3>1. l - 1 \notin Bad
      <4> HIDE DEF Bad
      <4> QED
          BY <2>2, <2>6
    <3> HIDE DEF Good
    <3> QED
        BY <2>6, <3>1
  <2>8. /\ at[l - 1] \in 0 .. Len(layers[l]) - 1
        /\ current[l - 1] = layers[l][at[l - 1] + 1]
        BY <2>6, <2>7
  <2>9. /\ at[l] = at[l - 1] \div 2
        /\ current[l] = Step(Sibling(layers[l], at[l - 1]), current[l - 1])
        /\ layers[l + 1] = LayerAbove(layers[l])
        /\ Len(layers[l]) \in Nat \ {0}
        BY <1>1, <1>3, <1>4, <1>5, <2>6
  <2>10. Good(l)
        BY <2>8, <2>9, OneUp
  <2> QED
        BY <2>3, <2>10
<1> QED
      BY <1>6 DEF proof, at, current

\* Trees of every number of leaves, odd layers included: the proof of a leaf
\* verifies (merkle.js:221-253).
THEOREM ProofsVerify ==
    ASSUME NEW layers, NEW leaves, IsTree(layers, leaves),
           NEW index \in 0 .. Len(leaves) - 1
    PROVE  VerifyInclusion(leaves[index + 1], ProveInclusion(layers, index), Root(layers))
<1> DEFINE top == Len(layers) - 1
           at == Path(layers, index)
           current == Climb(leaves[index + 1], ProveInclusion(layers, index))
<1>1. /\ top \in 0 .. Len(layers) - 1 /\ top + 1 = Len(layers)
      /\ Len(layers[Len(layers)]) = 1
      BY DEF IsTree
<1>2. \A l \in 0 .. Len(layers) - 1 :
         at[l] \in 0 .. Len(layers[l + 1]) - 1 /\ current[l] = layers[l + 1][at[l] + 1]
      BY ClimbFollowsPath
<1>3. Len(ProveInclusion(layers, index)) = top
      BY ProofLength
<1> HIDE DEF at, top, current
<1>4. /\ at[top] = 0
      /\ current[top] = layers[Len(layers)][1]
  <2>1. at[top] \in 0 .. Len(layers[top + 1]) - 1 /\ current[top] = layers[top + 1][at[top] + 1]
        BY <1>1, <1>2
  <2>2. at[top] \in 0 .. 1 - 1
        BY <1>1, <2>1
  <2>3. at[top] = 0
        BY <2>2
  <2> QED
        BY <1>1, <2>1, <2>3
<1> QED
      BY <1>3, <1>4 DEF VerifyInclusion, Root, current

-----------------------------------------------------------------------------
(* And nothing else *)

\* No two digests make the same one with the same step.
LEMMA StepInjective ==
    ASSUME NEW step, NEW x, NEW y, Step(step, x) = Step(step, y)
    PROVE  x = y
BY DEF Step, Sha256

\* One proof takes one leaf to a root, whatever the proof is.
LEMMA OneLeafPerProof ==
    ASSUME NEW a, NEW b, NEW proof, Len(proof) \in Nat, NEW root,
           VerifyInclusion(a, proof, root), VerifyInclusion(b, proof, root)
    PROVE  a = b
<1> DEFINE len == Len(proof)
           f == Climb(a, proof)
           g == Climb(b, proof)
           Apart == {d \in 0 .. len : f[len - d] # g[len - d]}
<1>1. /\ f[0] = a /\ \A p \in 1 .. len : f[p] = Step(proof[p], f[p - 1])
      BY ClimbExists
<1>2. /\ g[0] = b /\ \A p \in 1 .. len : g[p] = Step(proof[p], g[p - 1])
      BY ClimbExists
<1>3. f[len] = g[len] /\ len \in Nat
      BY DEF VerifyInclusion
<1> HIDE DEF f, g, len
<1>4. Apart = {}
  <2> SUFFICES ASSUME Apart # {} PROVE FALSE
      OBVIOUS
  <2>1. Apart \in SUBSET Nat
        OBVIOUS
  <2>2. PICK d \in Apart : \A j \in Apart : d <= j
        BY <2>1, LeastExists
  <2>3. d \in 0 .. len /\ f[len - d] # g[len - d]
        BY <2>2
  <2>4. d # 0
    <3>1. len - 0 = len
          BY <1>3
    <3> QED
          BY <1>3, <2>3, <3>1
  <2>5. d - 1 \in 0 .. len /\ len - (d - 1) \in 1 .. len /\ (len - (d - 1)) - 1 = len - d
        BY <1>3, <2>3, <2>4
  <2>6. f[len - (d - 1)] = g[len - (d - 1)]
    <3>1. d - 1 \notin Apart
      <4> HIDE DEF Apart
      <4> QED
          BY <1>3, <2>2, <2>3, <2>5
    <3> QED
        BY <2>5, <3>1
  <2>7. Step(proof[len - (d - 1)], f[len - d]) = Step(proof[len - (d - 1)], g[len - d])
        BY <1>1, <1>2, <2>5, <2>6
  <2> QED
        BY <2>3, <2>7, StepInjective
<1>5. len \in 0 .. len /\ len - len = 0
      BY <1>3
<1> QED
      BY <1>1, <1>2, <1>4, <1>5

\* The digests in a tree.
InTree(layers, digest) ==
    \E h \in 1 .. Len(layers) : \E j \in 1 .. Len(layers[h]) : digest = layers[h][j]

\* A leaf is not made of two digests (in the code: of a row's bytes, not of 64).
NotANode(digest) == \A x, y : digest # Sha256(x, y)

\* What is in a tree is a leaf of it, or made of two digests that are in it.
LEMMA NodesAreMade ==
    ASSUME NEW layers, NEW leaves, IsTree(layers, leaves), NEW digest,
           InTree(layers, digest)
    PROVE  \/ \E j \in 1 .. Len(leaves) : digest = leaves[j]
           \/ \E x, y : digest = Sha256(x, y) /\ InTree(layers, x) /\ InTree(layers, y)
<1>1. /\ Len(layers) \in Nat \ {0} /\ layers[1] = leaves
      /\ \A h \in 1 .. Len(layers) : Len(layers[h]) \in Nat \ {0}
      /\ \A h \in 1 .. Len(layers) - 1 : layers[h + 1] = LayerAbove(layers[h])
      BY DEF IsTree
<1>2. PICK h \in 1 .. Len(layers) :
         \E j \in 1 .. Len(layers[h]) : digest = layers[h][j]
      BY DEF InTree
<1>3. PICK j \in 1 .. Len(layers[h]) : digest = layers[h][j]
      BY <1>2
<1>4. CASE h = 1
      BY <1>1, <1>3, <1>4
<1>5. CASE h # 1
  <2> DEFINE below == layers[h - 1]
             w == Len(below)
             left == 2 * j - 1
             right == Min({2 * j, w})
  <2>1. /\ h - 1 \in 1 .. Len(layers) - 1 /\ h - 1 \in 1 .. Len(layers)
        /\ (h - 1) + 1 = h
        BY <1>1, <1>5
  <2>2. w \in Nat \ {0} /\ layers[h] = LayerAbove(below)
    <3>1. layers[(h - 1) + 1] = LayerAbove(below)
          BY <1>1, <2>1
    <3> QED
          BY <1>1, <2>1, <3>1
  <2> HIDE DEF below, w
  <2>3. Len(layers[h]) = (w + 1) \div 2
        BY <2>2, LayerAboveLength DEF w
  <2>4. j \in 1 .. (w + 1) \div 2
        BY <2>3
  <2>5. left \in 1 .. w /\ right \in 1 .. w
        BY <2>2, <2>4, SmallerOf
  <2>6. LayerAbove(below)[j] = Sha256(below[left], below[right])
        BY <2>4 DEF LayerAbove, w
  <2>7. digest = Sha256(below[left], below[right])
        BY <1>3, <2>2, <2>6
  <2> HIDE DEF left, right
  <2>8. InTree(layers, below[left]) /\ InTree(layers, below[right])
        BY <2>1, <2>5 DEF InTree, below, w
  <2> QED
        BY <2>7, <2>8
<1> QED
      BY <1>4, <1>5

\* A row that verifies was committed: whatever proof is presented, of whatever
\* length and made of whatever digests, the row it takes to the root is one of
\* the leaves (merkle.js:201-253).
THEOREM VerifiedMeansCommitted ==
    ASSUME NEW layers, NEW leaves, IsTree(layers, leaves),
           \A j \in 1 .. Len(leaves) : NotANode(leaves[j]),
           NEW leaf, NotANode(leaf), NEW proof, Len(proof) \in Nat,
           VerifyInclusion(leaf, proof, Root(layers))
    PROVE  \E j \in 1 .. Len(leaves) : leaf = leaves[j]
<1> DEFINE len == Len(proof)
           f == Climb(leaf, proof)
           Outside == {d \in 0 .. len : ~InTree(layers, f[len - d])}
<1>1. f[0] = leaf /\ \A p \in 1 .. len : f[p] = Step(proof[p], f[p - 1])
      BY ClimbExists
<1>2. len \in Nat /\ InTree(layers, f[len])
  <2>1. /\ f[len] = layers[Len(layers)][1]
        /\ Len(layers) \in 1 .. Len(layers) /\ 1 \in 1 .. Len(layers[Len(layers)])
        BY DEF VerifyInclusion, Root, IsTree
  <2> HIDE DEF f
  <2> QED
        BY <2>1 DEF InTree
<1> HIDE DEF f, len
<1>3. Outside = {}
  <2> SUFFICES ASSUME Outside # {} PROVE FALSE
      OBVIOUS
  <2>1. Outside \in SUBSET Nat
        OBVIOUS
  <2>2. PICK d \in Outside : \A j \in Outside : d <= j
        BY <2>1, LeastExists
  <2>3. d \in 0 .. len /\ ~InTree(layers, f[len - d])
        BY <2>2
  <2>4. d # 0
    <3>1. len - 0 = len
          BY <1>2
    <3> QED
          BY <1>2, <2>3, <3>1
  <2> DEFINE p == len - (d - 1)
  <2>5. d - 1 \in 0 .. len /\ p \in 1 .. len /\ p - 1 = len - d
        BY <1>2, <2>3, <2>4
  <2>6. InTree(layers, f[p])
    <3>1. d - 1 \notin Outside
      <4> HIDE DEF Outside
      <4> QED
          BY <1>2, <2>2, <2>3, <2>5
    <3> QED
        BY <2>5, <3>1
  <2> HIDE DEF p
  <2>7. f[p] = Step(proof[p], f[len - d])
        BY <1>1, <2>5
  <2>8. PICK x, y : f[p] = Sha256(x, y) /\ (f[len - d] = x \/ f[len - d] = y)
        BY <2>7 DEF Step
  <2>9. ~\E j \in 1 .. Len(leaves) : f[p] = leaves[j]
        BY <2>8 DEF NotANode
  <2>10. PICK v, z : f[p] = Sha256(v, z) /\ InTree(layers, v) /\ InTree(layers, z)
        BY <2>6, <2>9, NodesAreMade
  <2>11. x = v /\ y = z
        BY <2>8, <2>10 DEF Sha256
  <2> QED
        BY <2>3, <2>8, <2>10, <2>11
<1>4. InTree(layers, leaf)
  <2>1. len \in 0 .. len /\ len - len = 0
        BY <1>2
  <2>2. InTree(layers, f[len - len])
        BY <1>3, <2>1
  <2> QED
        BY <1>1, <2>1, <2>2
<1> QED
      BY <1>4, NodesAreMade DEF NotANode

\* Every digest in an honest proof is one of the tree's.
LEMMA ProofInTree ==
    ASSUME NEW layers, NEW leaves, IsTree(layers, leaves),
           NEW index \in 0 .. Len(leaves) - 1, NEW l \in 1 .. Len(layers) - 1
    PROVE  InTree(layers, ProveInclusion(layers, index)[l].hash)
<1> DEFINE at == Path(layers, index)[l - 1]
           w == Len(layers[l])
<1>1. Len(layers) \in Nat \ {0} /\ w \in Nat \ {0} /\ l \in 1 .. Len(layers)
      BY DEF IsTree
<1>2. at \in 0 .. w - 1
  <2>1. l - 1 \in 0 .. Len(layers) - 1 /\ (l - 1) + 1 = l
        BY <1>1
  <2>2. at \in 0 .. Len(layers[(l - 1) + 1]) - 1
        BY <2>1, ClimbFollowsPath
  <2> QED
        BY <2>1, <2>2
<1>3. ProveInclusion(layers, index)[l] = Sibling(layers[l], at)
      BY <1>1, ProofStep
<1> HIDE DEF at
<1>4. \E j \in 1 .. w : Sibling(layers[l], at).hash = layers[l][j]
  <2>1. CASE at % 2 = 1
    <3>1. at \in 1 .. w
          BY <1>1, <1>2, <2>1
    <3> QED
          BY <2>1, <3>1 DEF Sibling
  <2>2. CASE at % 2 # 1
    <3>1. at + 2 \in Nat \ {0} /\ w \in Nat \ {0}
          BY <1>1, <1>2
    <3>2. Min({at + 2, w}) \in 1 .. w
      <4> HIDE DEF w
      <4>1. Min({at + 2, w}) = IF at + 2 <= w THEN at + 2 ELSE w
            BY <3>1, SmallerOf
      <4> QED
          BY <3>1, <4>1
    <3> QED
          BY <2>2, <3>2 DEF Sibling
  <2> QED
        BY <2>1, <2>2
<1> QED
      BY <1>1, <1>3, <1>4 DEF InTree

-----------------------------------------------------------------------------
(* The invariant of a challenge *)

Row == [row : Int, kind : Kinds]

\* The leaves of the commitment.
Leaves == [p \in 1 .. n |-> HashRow(rows[p - 1], worker)]

Phases == {"computing", "committed", "checking", "ok", "refused", "threw"}

\* What the worker committed to, and what its root then asks for.
Commitment ==
    /\ rows \in Computed
    /\ tree = Layers(Leaves)
    /\ draw \in Draws[n]

\* Checks in progress: the failures are those of the rows checked so far.
Checked ==
    phase = "checking" =>
        /\ result.shardId = "this"
        /\ todo \subseteq ChallengeRows(broker)
        /\ failures = UNION {FailuresOf(i) : i \in ChallengeRows(broker) \ todo}

\* What each end of the call says of the rows required.
Judged ==
    /\ phase = "ok" => \A i \in ChallengeRows(broker) : Failure(i) = "none"
    /\ phase = "refused" =>
          \/ result.shardId = "other"
          \/ \E i \in ChallengeRows(broker) : Failure(i) # "none"
    /\ phase = "threw" => \E i \in ChallengeRows(broker) : Throws(i)

RowInv ==
    /\ n \in 1 .. MaxN /\ worker \in Options /\ broker \in Options /\ phase \in Phases
    /\ phase # "computing" => Commitment
    /\ phase \notin {"computing", "committed"} => result \in Submissions
    /\ phase \in {"computing", "committed"} => failures = {}
    /\ Checked
    /\ Judged

\* The rows that may be computed.
LEMMA ComputedTyped ==
    ASSUME n \in Nat \ {0}, NEW r \in Computed
    PROVE  \A i \in Rows :
              /\ r[i] \in Row /\ r[i].row \in Rows
              /\ r[i].kind \in {"true", "wrong", "unseen"}
              /\ r[i].kind = "unseen" => n > ElementsPerRow
<1> DEFINE Flawed(bad) == {g \in [bad -> UNION {Flaws(i) : i \in bad}] :
                               \A i \in bad : g[i] \in Flaws(i)}
           With(bad, f) == [i \in Rows |-> IF i \in bad THEN f[i] ELSE RowOf(i, "true")]
           Bads == UNION {kSubset(m, Rows) : m \in 0 .. MaxFlaws}
<1>1. PICK bad \in Bads : r \in {With(bad, f) : f \in Flawed(bad)}
  <2>1. Computed = UNION {{With(bad, f) : f \in Flawed(bad)} : bad \in Bads}
        BY DEF Computed
  <2> HIDE DEF Flawed, With, Bads
  <2> QED
      BY <2>1
<1>2. PICK f : r = With(bad, f) /\ \A i \in bad : f[i] \in Flaws(i)
      BY <1>1
<1>3. ASSUME NEW i \in Rows
      PROVE  (i + 1) % n \in Rows /\ i \in Int /\ Rows \subseteq Int
      BY DEF Rows
<1>4. ASSUME NEW i \in Rows, NEW v \in Flaws(i) \cup {RowOf(i, "true")}
      PROVE  /\ v \in Row /\ v.row \in Rows /\ v.kind \in {"true", "wrong", "unseen"}
             /\ v.kind = "unseen" => n > ElementsPerRow
      BY <1>3 DEF Flaws, RowOf, Row, Kinds
<1>5. ASSUME NEW i \in Rows
      PROVE  r[i] \in Flaws(i) \cup {RowOf(i, "true")}
      BY <1>2
<1> QED
      BY <1>4, <1>5

\* The rows that a root asks for: at least one, and all of them if as many are
\* asked for.
LEMMA DrawTyped ==
    ASSUME n \in 1 .. MaxN, draw \in Draws[n], NEW k \in Ks
    PROVE  /\ draw[k] \subseteq Rows
           /\ draw[k] # {}
           /\ k >= n => draw[k] = Rows
<1>1. n \in Nat \ {0} /\ k \in Nat \ {0}
      BY RowAssumption
<1>2. draw \in DrawsOf(Rows)
      BY DEF Draws, Rows
<1>3. /\ draw[k] \subseteq Rows
      /\ Cardinality(draw[k]) = Min({k, Cardinality(Rows)})
      BY <1>2 DEF DrawsOf
<1>4. IsFiniteSet(Rows) /\ Cardinality(Rows) = n
      BY <1>1, FS_Interval DEF Rows
<1>5. Cardinality(draw[k]) = IF k <= n THEN k ELSE n
  <2>1. Min({k, n}) = IF k <= n THEN k ELSE n
        BY <1>1, SmallerOf
  <2> QED
        BY <1>3, <1>4, <2>1
<1>6. draw[k] # {}
  <2>1. Cardinality(draw[k]) # 0
        BY <1>1, <1>5
  <2> QED
        BY <2>1, FS_EmptySet
<1>7. ASSUME k >= n
      PROVE  draw[k] = Rows
  <2>1. Cardinality(draw[k]) = Cardinality(Rows)
        BY <1>1, <1>4, <1>5, <1>7
  <2> QED
        BY <1>3, <1>4, <2>1, FS_Subset
<1> QED
      BY <1>3, <1>6, <1>7

\* Digests of rows are those of the same row, expanded alike, and no nodes.
LEMMA RowDigests ==
    ASSUME NEW v \in Row, NEW o
    PROVE  /\ NotANode(HashRow(v, o))
           /\ \A u \in Row : \A q : HashRow(v, o) = HashRow(u, q) =>
                 v = u /\ o.memoryHard = q.memoryHard
<1>1. NotANode(HashRow(v, o))
      BY DEF NotANode, HashRow, Sha256
<1>2. ASSUME NEW u \in Row, NEW q, HashRow(v, o) = HashRow(u, q)
      PROVE  v = u /\ o.memoryHard = q.memoryHard
  <2>1. v.row = u.row /\ v.kind = u.kind /\ o.memoryHard = q.memoryHard
        BY <1>2 DEF HashRow
  <2> QED
        BY <2>1 DEF Row
<1> QED
      BY <1>1, <1>2

\* The commitment is a tree over the rows.
LEMMA CommitmentIsTree ==
    ASSUME n \in Nat \ {0}, Commitment
    PROVE  /\ IsTree(tree, Leaves) /\ Len(Leaves) = n
           /\ \A j \in 1 .. n : NotANode(Leaves[j])
           /\ \A i \in Rows : i \in 0 .. Len(Leaves) - 1
                              /\ Leaves[i + 1] = HashRow(rows[i], worker)
<1>1. Len(Leaves) = n
  <2>1. Leaves = [p \in 1 .. n |-> Leaves[p]]
        BY DEF Leaves
  <2> QED
        BY <2>1, LengthOf
<1>2. IsTree(tree, Leaves)
      BY <1>1, LayersMakeTree DEF Commitment
<1>3. ASSUME NEW j \in 1 .. n
      PROVE  NotANode(Leaves[j])
  <2>1. j - 1 \in Rows
        BY DEF Rows
  <2>2. rows[j - 1] \in Row
        BY <2>1, ComputedTyped DEF Commitment
  <2> QED
        BY <2>2, RowDigests DEF Leaves
<1>4. ASSUME NEW i \in Rows
      PROVE  i \in 0 .. n - 1 /\ Leaves[i + 1] = HashRow(rows[i], worker)
      BY DEF Rows, Leaves
<1> QED
      BY <1>1, <1>2, <1>3, <1>4

\* A row that is found in the commitment is one the worker computed, and was
\* hashed as the worker hashes.
LEMMA IncludedWasCommitted ==
    ASSUME n \in Nat \ {0}, Commitment, NEW v \in Row, NEW o, NEW proof,
           Len(proof) \in Nat, VerifyInclusion(HashRow(v, o), proof, Root(tree))
    PROVE  o.memoryHard = worker.memoryHard /\ \E j \in Rows : rows[j] = v
<1>1. PICK p \in 1 .. Len(Leaves) : HashRow(v, o) = Leaves[p]
      BY CommitmentIsTree, RowDigests, VerifiedMeansCommitted
<1>2. p \in 1 .. n
      BY <1>1, CommitmentIsTree
<1>3. p - 1 \in Rows /\ HashRow(v, o) = HashRow(rows[p - 1], worker)
      BY <1>1, <1>2 DEF Rows, Leaves
<1>4. rows[p - 1] \in Row
      BY <1>3, ComputedTyped DEF Commitment
<1> QED
      BY <1>3, <1>4, RowDigests

\* The honest proof of a row takes that row to the root, and no other, and
\* nothing in it is undecodable.
LEMMA HonestProof ==
    ASSUME n \in Nat \ {0}, Commitment, NEW i \in Rows
    PROVE  LET proof == ProveInclusion(tree, i)
           IN  /\ Len(proof) \in Nat
               /\ DOMAIN proof = 1 .. Len(proof)
               /\ VerifyInclusion(HashRow(rows[i], worker), proof, Root(tree))
               /\ \A v \in Row : VerifyInclusion(HashRow(v, worker), proof, Root(tree)) =>
                     v = rows[i]
               /\ \A p \in DOMAIN proof : proof[p].hash # Undecodable
<1> DEFINE proof == ProveInclusion(tree, i)
<1>1. /\ IsTree(tree, Leaves) /\ Len(Leaves) = n
      /\ \A j \in 1 .. n : NotANode(Leaves[j])
      /\ i \in 0 .. Len(Leaves) - 1 /\ Leaves[i + 1] = HashRow(rows[i], worker)
      BY CommitmentIsTree
<1>2. Len(proof) = Len(tree) - 1 /\ Len(tree) - 1 \in Nat
      BY <1>1, ProofLength DEF IsTree
<1>3. DOMAIN proof = 1 .. Len(tree) - 1
      BY DEF ProveInclusion
<1>4. VerifyInclusion(HashRow(rows[i], worker), proof, Root(tree))
      BY <1>1, ProofsVerify
<1>5. ASSUME NEW v \in Row, VerifyInclusion(HashRow(v, worker), proof, Root(tree))
      PROVE  v = rows[i]
  <2>1. rows[i] \in Row
        BY ComputedTyped DEF Commitment
  <2> HIDE DEF proof
  <2>2. Len(proof) \in Nat
        BY <1>2
  <2>3. HashRow(v, worker) = HashRow(rows[i], worker)
        BY <1>4, <1>5, <2>2, OneLeafPerProof
  <2> QED
        BY <2>1, <2>3, RowDigests
<1>6. ASSUME NEW p \in 1 .. Len(tree) - 1
      PROVE  proof[p].hash # Undecodable
  <2>1. InTree(tree, proof[p].hash)
        BY <1>1, ProofInTree
  <2> HIDE DEF proof
  <2>2. CASE \E x, y : proof[p].hash = Sha256(x, y)
        BY <2>2 DEF Sha256, Undecodable
  <2>3. CASE \E j \in 1 .. n : proof[p].hash = Leaves[j]
    <3>1. PICK j \in 1 .. n : proof[p].hash = Leaves[j]
          BY <2>3
    <3>2. Leaves[j] = HashRow(rows[j - 1], worker)
          BY DEF Leaves
    <3> QED
          BY <3>1, <3>2 DEF HashRow, Undecodable
  <2> QED
        BY <1>1, <2>1, <2>2, <2>3, NodesAreMade
<1> HIDE DEF proof
<1>7. /\ Len(proof) \in Nat
      /\ DOMAIN proof = 1 .. Len(proof)
      /\ \A p \in DOMAIN proof : proof[p].hash # Undecodable
      BY <1>2, <1>3, <1>6
<1> QED
      BY <1>4, <1>5, <1>7 DEF proof

\* What may be in an entry, as far as the check looks at its shape.
EntryOK(entry) == entry.values \in Row /\ Len(entry.proof) \in Nat

\* An entry for a row of the shard has that shape, and so has one whose proof
\* was spoilt.
LEMMA EntriesTyped ==
    ASSUME n \in Nat \ {0}, Commitment, NEW i \in Rows, NEW v \in Row
    PROVE  /\ EntryOK(Entry(v, i))
           /\ \A hash : EntryOK(WithHash(Entry(v, i), hash))
<1>1. /\ Len(ProveInclusion(tree, i)) \in Nat
      /\ DOMAIN ProveInclusion(tree, i) = 1 .. Len(ProveInclusion(tree, i))
      BY HonestProof
<1>2. EntryOK(Entry(v, i))
      BY <1>1 DEF EntryOK, Entry
<1>3. ASSUME NEW hash
      PROVE  EntryOK(WithHash(Entry(v, i), hash))
  <2> DEFINE proof == ProveInclusion(tree, i)
             spoilt == [p \in DOMAIN proof |-> [proof[p] EXCEPT !.hash = hash]]
  <2>1. WithHash(Entry(v, i), hash) = [values |-> v, proof |-> spoilt]
        BY DEF WithHash, Entry
  <2>2. Len(spoilt) = Len(proof)
    <3> HIDE DEF proof
    <3>1. spoilt = [p \in 1 .. Len(proof) |-> spoilt[p]]
          BY <1>1 DEF proof
    <3> HIDE DEF spoilt
    <3> QED
        BY <1>1, <3>1, LengthOf DEF proof
  <2> HIDE DEF spoilt, proof
  <2> QED
      BY <1>1, <2>1, <2>2 DEF EntryOK, proof
<1> QED
      BY <1>2, <1>3

\* What may reach the broker has that shape in every row.
LEMMA SubmissionsTyped ==
    ASSUME n \in 1 .. MaxN, worker \in Options, Commitment, NEW s \in Submissions
    PROVE  /\ s.shardId \in {"this", "other"}
           /\ \A i \in DOMAIN s.rows : EntryOK(s.rows[i])
<1>1. n \in Nat \ {0}
      BY RowAssumption
<1>2. ChallengeRows(worker) \subseteq Rows
      BY DrawTyped DEF Commitment, Options, ChallengeRows
<1>3. \A i \in Rows : rows[i] \in Row
      BY <1>1, ComputedTyped DEF Commitment
<1>4. /\ Reveal.shardId = "this" /\ DOMAIN Reveal.rows = ChallengeRows(worker)
      /\ \A i \in ChallengeRows(worker) : EntryOK(Reveal.rows[i])
  <2>1. \A i \in ChallengeRows(worker) : EntryOK(Entry(rows[i], i))
        BY <1>1, <1>2, <1>3, EntriesTyped
  <2> QED
        BY <2>1 DEF Reveal
<1>5. ASSUME NEW i \in Rows, NEW entry \in Altered(i)
      PROVE  EntryOK(entry)
  <2>1. \A kind \in Kinds : RowOf(i, kind) \in Row
        BY DEF RowOf, Row, Rows
  <2>2. CASE \E kind \in {"short", "true", "near"} : entry = Entry(RowOf(i, kind), i)
    <3>1. PICK kind \in {"short", "true", "near"} : entry = Entry(RowOf(i, kind), i)
          BY <2>2
    <3>2. RowOf(i, kind) \in Row
          BY <2>1 DEF Kinds
    <3> QED
          BY <1>1, <3>1, <3>2, EntriesTyped
  <2>3. CASE \E j \in Rows : entry = Entry(rows[j], j)
        BY <1>1, <1>3, <2>3, EntriesTyped
  <2>4. CASE \E hash : entry = WithHash(Entry(rows[i], i), hash)
        BY <1>1, <1>3, <2>4, EntriesTyped
  <2> QED
        BY <2>2, <2>3, <2>4 DEF Altered
<1>6. CASE s = Reveal \/ s = [Reveal EXCEPT !.shardId = "other"]
      BY <1>4, <1>6 DEF Reveal
<1>7. CASE \E i \in ChallengeRows(worker) : \E entry \in Altered(i) :
              s = [Reveal EXCEPT !.rows[i] = entry]
  <2>1. PICK i \in ChallengeRows(worker) : \E entry \in Altered(i) :
           s = [Reveal EXCEPT !.rows[i] = entry]
        BY <1>7
  <2>2. PICK entry \in Altered(i) : s = [Reveal EXCEPT !.rows[i] = entry]
        BY <2>1
  <2>3. EntryOK(entry)
        BY <1>2, <1>5
  <2>4. s.shardId = "this" /\ s.rows = [Reveal.rows EXCEPT ![i] = entry]
        BY <2>2 DEF Reveal
  <2> QED
        BY <1>4, <2>3, <2>4
<1>8. CASE \E i \in ChallengeRows(worker) :
              s = [Reveal EXCEPT !.rows = [j \in DOMAIN @ \ {i} |-> @[j]]]
  <2>1. PICK i \in ChallengeRows(worker) :
           s = [Reveal EXCEPT !.rows = [j \in DOMAIN @ \ {i} |-> @[j]]]
        BY <1>8
  <2>2. s.shardId = "this" /\ s.rows = [j \in DOMAIN Reveal.rows \ {i} |-> Reveal.rows[j]]
        BY <2>1 DEF Reveal
  <2> QED
        BY <1>4, <2>2
<1>9. \/ s = Reveal \/ s = [Reveal EXCEPT !.shardId = "other"]
      \/ \E i \in ChallengeRows(worker) : \E entry \in Altered(i) :
            s = [Reveal EXCEPT !.rows[i] = entry]
      \/ \E i \in ChallengeRows(worker) :
            s = [Reveal EXCEPT !.rows = [j \in DOMAIN @ \ {i} |-> @[j]]]
  <2> DEFINE With(i) == {[Reveal EXCEPT !.rows[i] = entry] : entry \in Altered(i)}
             Less(i) == [Reveal EXCEPT !.rows = [j \in DOMAIN @ \ {i} |-> @[j]]]
             Some == {j \in ChallengeRows(worker) : Cardinality(ChallengeRows(worker)) > 1}
             Other == [Reveal EXCEPT !.shardId = "other"]
  <2>1. \/ s \in {Reveal, Other}
        \/ s \in UNION {With(i) : i \in ChallengeRows(worker)}
        \/ s \in {Less(i) : i \in Some}
        BY DEF Submissions
  <2>2. \/ s = Reveal \/ s = Other
        \/ \E i \in ChallengeRows(worker) : s \in With(i)
        \/ \E i \in ChallengeRows(worker) : s = Less(i)
    <3>1. Some \subseteq ChallengeRows(worker)
          OBVIOUS
    <3> HIDE DEF With, Less, Other, Some
    <3>2. CASE s \in UNION {With(i) : i \in ChallengeRows(worker)}
          BY <3>2
    <3>3. CASE s \in {Less(i) : i \in Some}
          BY <3>1, <3>3
    <3>4. CASE s \in {Reveal, Other}
          BY <3>4
    <3> QED
        BY <2>1, <3>2, <3>3, <3>4
  <2> QED
      BY <2>2
<1> QED
      BY <1>6, <1>7, <1>8, <1>9

\* A row passes when it passes each of the four checks.
LEMMA PassesMeans ==
    \A i : Failure(i) = "none" <=>
              /\ Revealed(i) /\ LengthFits(i) /\ Included(i)
              /\ SpotChecked(result.rows[i].values, i)
BY DEF Failure

\* And then it adds no failure, else it does.
LEMMA FailuresMean ==
    \A i : FailuresOf(i) = {} <=> Failure(i) = "none"
<1> SUFFICES ASSUME NEW i PROVE FailuresOf(i) = {} <=> Failure(i) = "none"
    OBVIOUS
<1> DEFINE f == [index |-> i, reason |-> Failure(i)]
<1>1. f.reason = Failure(i)
      OBVIOUS
<1>2. FailuresOf(i) = {x \in {f} : x.reason # "none"}
      BY DEF FailuresOf
<1> HIDE DEF f
<1> QED
      BY <1>1, <1>2

\* The commitment, and what may be made of it, stay as they are.
Fixed == <<n, worker, broker, draw, rows, tree>>

LEMMA FixedCommitment ==
    ASSUME UNCHANGED Fixed
    PROVE  /\ Commitment' <=> Commitment
           /\ Submissions' = Submissions
           /\ ChallengeRows(broker)' = ChallengeRows(broker)
<1>1. /\ n' = n /\ worker' = worker /\ broker' = broker
      /\ draw' = draw /\ rows' = rows /\ tree' = tree
      BY DEF Fixed
<1>2. Rows' = Rows
      BY <1>1 DEF Rows
<1>3. Computed' = Computed
      BY <1>1, <1>2 DEF Computed, Flaws
<1>4. Leaves' = Leaves
      BY <1>1 DEF Leaves
<1>5. /\ ChallengeRows(worker)' = ChallengeRows(worker)
      /\ ChallengeRows(broker)' = ChallengeRows(broker)
      BY <1>1 DEF ChallengeRows
<1>6. Reveal' = Reveal
      BY <1>1, <1>5 DEF Reveal, Entry
<1>7. \A i : Altered(i)' = Altered(i)
      BY <1>1, <1>2 DEF Altered, Entry
<1>8. Submissions' = Submissions
  <2> DEFINE With(i) == {[Reveal EXCEPT !.rows[i] = entry] : entry \in Altered(i)}
             Withs == UNION {With(i) : i \in ChallengeRows(worker)}
             Less(i) == [Reveal EXCEPT !.rows = [j \in DOMAIN @ \ {i} |-> @[j]]]
             Lesses == {Less(i) : i \in {j \in ChallengeRows(worker) :
                                           Cardinality(ChallengeRows(worker)) > 1}}
  <2>1. \A i : With(i)' = With(i) /\ Less(i)' = Less(i)
        BY <1>6, <1>7
  <2>2. Withs' = Withs
    <3> HIDE DEF With
    <3> QED
        BY <1>5, <2>1
  <2>3. Lesses' = Lesses
    <3> HIDE DEF Less
    <3> QED
        BY <1>5, <2>1
  <2>4. Submissions = {Reveal, [Reveal EXCEPT !.shardId = "other"]} \cup Withs \cup Lesses
        BY DEF Submissions
  <2>5. Submissions' =
           {Reveal', [Reveal' EXCEPT !.shardId = "other"]} \cup Withs' \cup Lesses'
        BY DEF Submissions
  <2> HIDE DEF Withs, Lesses
  <2> QED
      BY <1>6, <2>2, <2>3, <2>4, <2>5
<1> QED
      BY <1>1, <1>3, <1>4, <1>5, <1>8 DEF Commitment

\* So do the checks of a result.
LEMMA FixedChecks ==
    ASSUME UNCHANGED Fixed, UNCHANGED result
    PROVE  \A i : /\ Failure(i)' = Failure(i)
                  /\ FailuresOf(i)' = FailuresOf(i)
                  /\ Throws(i)' <=> Throws(i)
<1> SUFFICES ASSUME NEW i
             PROVE  /\ Failure(i)' = Failure(i)
                    /\ FailuresOf(i)' = FailuresOf(i)
                    /\ Throws(i)' <=> Throws(i)
    OBVIOUS
<1>1. broker' = broker /\ tree' = tree /\ result' = result
      BY DEF Fixed
<1>2. Failure(i)' = Failure(i)
      BY <1>1 DEF Failure, Revealed, LengthFits, Included
<1>3. FailuresOf(i)' = FailuresOf(i)
      BY <1>2 DEF FailuresOf
<1>4. Throws(i)' <=> Throws(i)
      BY <1>1 DEF Throws, Revealed, LengthFits
<1> QED
      BY <1>2, <1>3, <1>4

\* The first required row left is one of the shard's.
LEMMA LeastRow ==
    ASSUME n \in 1 .. MaxN, broker \in Options, Commitment,
           todo \subseteq ChallengeRows(broker), todo # {}
    PROVE  Min(todo) \in todo
<1>1. ChallengeRows(broker) \subseteq Rows
      BY DrawTyped DEF Commitment, Options, ChallengeRows
<1>2. todo \in SUBSET Nat
      BY <1>1 DEF Rows
<1>3. \E m \in todo : \A j \in todo : m <= j
      BY <1>2, LeastExists
<1> QED
      BY <1>3 DEF Min

\* The rows that a turn of the loop has checked are those before it and one more.
LEMMA TurnKeepsChecked ==
    ASSUME RowInv, CheckRow
    PROVE  Checked' /\ Judged'
<1> DEFINE i == Min(todo)
<1>1. /\ phase = "checking" /\ todo # {} /\ UNCHANGED Fixed /\ UNCHANGED result
      /\ result.shardId = "this" /\ todo \subseteq ChallengeRows(broker)
      /\ failures = UNION {FailuresOf(j) : j \in ChallengeRows(broker) \ todo}
      BY DEF CheckRow, RowInv, Checked, Fixed
<1>2. i \in todo
      BY <1>1, LeastRow DEF RowInv
<1>3. /\ ChallengeRows(broker)' = ChallengeRows(broker)
      /\ \A j : FailuresOf(j)' = FailuresOf(j) /\ (Throws(j)' <=> Throws(j))
      BY <1>1, FixedCommitment, FixedChecks
<1>4. CASE Throws(i)
  <2>1. phase' = "threw"
        BY <1>4 DEF CheckRow
  <2> HIDE DEF i
  <2> QED
        BY <1>1, <1>2, <1>3, <1>4, <2>1 DEF Checked, Judged
<1>5. CASE ~Throws(i)
  <2>1. /\ phase' = "checking" /\ todo' = todo \ {i}
        /\ failures' = failures \cup FailuresOf(i)
        BY <1>1, <1>5 DEF CheckRow
  <2> HIDE DEF i
  <2> DEFINE done == ChallengeRows(broker) \ todo
             done1 == ChallengeRows(broker) \ todo'
  <2>2. done1 = done \cup {i}
        BY <1>1, <1>2, <2>1
  <2>3. failures' = UNION {FailuresOf(j) : j \in done1}
    <3> HIDE DEF done, done1
    <3>1. UNION {FailuresOf(j) : j \in done \cup {i}} =
             (UNION {FailuresOf(j) : j \in done}) \cup FailuresOf(i)
          OBVIOUS
    <3> QED
        BY <1>1, <2>1, <2>2, <3>1 DEF done
  <2>4. (UNION {FailuresOf(j) : j \in ChallengeRows(broker) \ todo})' =
           UNION {FailuresOf(j) : j \in done1}
        BY <1>3
  <2>5. todo' \subseteq ChallengeRows(broker)' /\ result'.shardId = "this"
        BY <1>1, <1>3, <2>1
  <2> QED
      BY <2>1, <2>3, <2>4, <2>5 DEF Checked, Judged
<1> QED
      BY <1>4, <1>5

\* When no row is left, the failures decide, and they are those of all rows.
LEMMA VerdictIsJudged ==
    ASSUME RowInv, Conclude
    PROVE  Checked' /\ Judged'
<1>1. /\ phase = "checking" /\ todo = {} /\ UNCHANGED Fixed /\ UNCHANGED result
      /\ phase' = Verdict
      /\ failures = UNION {FailuresOf(j) : j \in ChallengeRows(broker) \ todo}
      BY DEF Conclude, RowInv, Checked, Fixed
<1>2. /\ ChallengeRows(broker)' = ChallengeRows(broker)
      /\ \A j : Failure(j)' = Failure(j)
      BY <1>1, FixedCommitment, FixedChecks
<1>3. failures = UNION {FailuresOf(j) : j \in ChallengeRows(broker)}
      BY <1>1
<1>4. CASE failures = {}
  <2>1. phase' = "ok"
        BY <1>1, <1>4 DEF Verdict
  <2>2. \A j \in ChallengeRows(broker) : FailuresOf(j) = {}
        BY <1>3, <1>4
  <2>3. \A j \in ChallengeRows(broker) : Failure(j) = "none"
        BY <2>2, FailuresMean
  <2> QED
      BY <1>2, <2>1, <2>3 DEF Checked, Judged
<1>5. CASE failures # {}
  <2>1. phase' = "refused"
        BY <1>1, <1>5 DEF Verdict
  <2>2. \E j \in ChallengeRows(broker) : FailuresOf(j) # {}
        BY <1>3, <1>5
  <2>3. \E j \in ChallengeRows(broker) : Failure(j) # "none"
        BY <2>2, FailuresMean
  <2> QED
      BY <1>2, <2>1, <2>3 DEF Checked, Judged
<1> QED
      BY <1>4, <1>5

\* The inductive invariant holds of every challenge.
THEOREM Invariance == Spec => []RowInv
<1>1. Init => RowInv
      BY DEF Init, RowInv, Checked, Judged, Phases
<1>2. RowInv /\ [Next]_vars => RowInv'
  <2> SUFFICES ASSUME RowInv, [Next]_vars PROVE RowInv'
      OBVIOUS
  <2>1. CASE Commit
    <3>1. /\ rows' \in Computed /\ n' = n /\ worker' = worker /\ broker' = broker
          /\ tree' = Layers([p \in 1 .. n |-> HashRow(rows'[p - 1], worker)])
          /\ draw' \in Draws[n] /\ phase' = "committed" /\ failures' = {}
          BY <2>1 DEF Commit, RowInv
    <3>2. Computed' = Computed
          BY <3>1 DEF Computed, Flaws, Rows
    <3>3. Leaves' = [p \in 1 .. n |-> HashRow(rows'[p - 1], worker)]
          BY <3>1 DEF Leaves
    <3>4. Commitment'
          BY <3>1, <3>2, <3>3 DEF Commitment
    <3> QED
        BY <3>1, <3>4 DEF RowInv, Checked, Judged, Phases
  <2>2. CASE Receive
    <3>1. /\ UNCHANGED Fixed /\ phase = "committed" /\ result' \in Submissions
          /\ failures' = {} /\ Commitment
          BY <2>2 DEF Receive, RowInv, Fixed
    <3>2. /\ Commitment' /\ result' \in Submissions'
          /\ ChallengeRows(broker)' = ChallengeRows(broker)
          BY <3>1, FixedCommitment
    <3>3. result'.shardId \in {"this", "other"}
          BY <3>1, SubmissionsTyped DEF RowInv
    <3>4. CASE result'.shardId = "this"
      <4>1. phase' = "checking" /\ todo' = ChallengeRows(broker)
            BY <2>2, <3>4 DEF Receive
      <4>2. ChallengeRows(broker)' \ todo' = {}
            BY <3>2, <4>1
      <4>3. Checked'
            BY <3>1, <3>2, <3>4, <4>1, <4>2 DEF Checked
      <4> QED
          BY <3>1, <3>2, <4>1, <4>3 DEF RowInv, Judged, Phases, Fixed
    <3>5. CASE result'.shardId = "other"
      <4>1. phase' = "refused"
            BY <2>2, <3>5 DEF Receive
      <4> QED
          BY <3>1, <3>2, <3>5, <4>1 DEF RowInv, Checked, Judged, Phases, Fixed
    <3> QED
        BY <3>3, <3>4, <3>5
  <2>3. CASE CheckRow
    <3>1. /\ UNCHANGED Fixed /\ UNCHANGED result /\ phase = "checking"
          /\ phase' \in {"checking", "threw"}
          BY <2>3 DEF CheckRow, Fixed
    <3>2. Commitment' /\ result' \in Submissions'
          BY <3>1, FixedCommitment DEF RowInv
    <3>3. Checked' /\ Judged'
          BY <2>3, TurnKeepsChecked
    <3> QED
        BY <3>1, <3>2, <3>3 DEF RowInv, Phases, Fixed
  <2>4. CASE Conclude
    <3>1. /\ UNCHANGED Fixed /\ UNCHANGED result /\ phase = "checking"
          /\ phase' \in {"ok", "refused"}
          BY <2>4 DEF Conclude, Verdict, Fixed
    <3>2. Commitment' /\ result' \in Submissions'
          BY <3>1, FixedCommitment DEF RowInv
    <3>3. Checked' /\ Judged'
          BY <2>4, VerdictIsJudged
    <3> QED
        BY <3>1, <3>2, <3>3 DEF RowInv, Phases, Fixed
  <2>5. CASE UNCHANGED vars
    <3>1. /\ UNCHANGED Fixed /\ UNCHANGED result /\ phase' = phase
          /\ todo' = todo /\ failures' = failures
          BY <2>5 DEF vars, Fixed
    <3>2. /\ Commitment' <=> Commitment
          /\ Submissions' = Submissions
          /\ ChallengeRows(broker)' = ChallengeRows(broker)
          BY <3>1, FixedCommitment
    <3>3. \A i : /\ Failure(i)' = Failure(i) /\ FailuresOf(i)' = FailuresOf(i)
                 /\ Throws(i)' <=> Throws(i)
          BY <3>1, FixedChecks
    <3>4. Checked'
          BY <3>1, <3>2, <3>3 DEF RowInv, Checked
    <3>5. Judged'
          BY <3>1, <3>2, <3>3 DEF RowInv, Judged
    <3> QED
        BY <3>1, <3>2, <3>4, <3>5 DEF RowInv, Fixed
  <2> QED
      BY <2>1, <2>2, <2>3, <2>4, <2>5 DEF Next
<1> QED
      BY <1>1, <1>2, PTL DEF Spec

-----------------------------------------------------------------------------
(* What the invariant says of a challenge *)

\* The proof for a place fits the row committed there and no other, for shards of
\* every size, at the right edge of odd layers too (merkle.js:201-253).
THEOREM ProofsFit == Spec => []ProofsFitTheirRow
<1>1. RowInv => ProofsFitTheirRow
  <2> SUFFICES ASSUME RowInv, phase = "committed", NEW i \in Rows,
                      NEW v \in {rows[j] : j \in Rows} \cup {RowOf(i, k) : k \in Kinds}
               PROVE  VerifyInclusion(HashRow(v, worker), ProveInclusion(tree, i), Root(tree))
                         <=> v = rows[i]
      BY DEF ProofsFitTheirRow
  <2>1. n \in Nat \ {0} /\ Commitment
        BY RowAssumption DEF RowInv
  <2>2. v \in Row
    <3>1. \A j \in Rows : rows[j] \in Row
          BY <2>1, ComputedTyped DEF Commitment
    <3>2. \A k \in Kinds : RowOf(i, k) \in Row
          BY DEF RowOf, Row, Rows
    <3> QED
        BY <3>1, <3>2
  <2> QED
      BY <2>1, <2>2, HonestProof
<1> QED
      BY <1>1, Invariance, PTL

\* An admitted result passed in every row required, and what passed was
\* committed to.
LEMMA OkMeansFound ==
    ASSUME RowInv, phase = "ok", NEW i \in ChallengeRows(broker)
    PROVE  /\ Revealed(i)
           /\ SpotChecked(result.rows[i].values, i)
           /\ \E j \in Rows : rows[j] = result.rows[i].values
<1>1. /\ n \in Nat \ {0} /\ n \in 1 .. MaxN /\ worker \in Options /\ Commitment
      /\ result \in Submissions
      BY RowAssumption DEF RowInv
<1>2. /\ Revealed(i) /\ Included(i)
      /\ SpotChecked(result.rows[i].values, i)
      BY PassesMeans DEF RowInv, Judged
<1>3. EntryOK(result.rows[i])
      BY <1>1, <1>2, SubmissionsTyped DEF Revealed
<1>4. \E j \in Rows : rows[j] = result.rows[i].values
      BY <1>1, <1>2, <1>3, IncludedWasCommitted DEF EntryOK, Included
<1> QED
      BY <1>2, <1>4

\* "A worker cannot choose a favourable challenge by choosing what to compute"
\* (merkle.js:14-19): whatever reaches the broker, every row it admits was
\* committed to before the worker knew which rows these would be.
THEOREM AdmissionIsCommitted == Spec => []AdmittedRowsWereCommitted
<1>1. RowInv => AdmittedRowsWereCommitted
      BY OkMeansFound DEF AdmittedRowsWereCommitted
<1> QED
      BY <1>1, Invariance, PTL

\* Where the broker asks for all rows, a commitment that is admitted holds every
\* row of the shard ("with certainty rather than probability", audit.js:31-32),
\* as far as the columns looked at tell.
THEOREM DisclosureIsComplete == Spec => []DisclosureCoversTheShard
<1>1. RowInv => DisclosureCoversTheShard
  <2> SUFFICES ASSUME RowInv, phase = "ok", broker.k >= n, NEW i \in Rows
               PROVE  \E j \in Rows :
                         \/ rows[j] = RowOf(i, "true")
                         \/ rows[j] = RowOf(i, "unseen") /\ n > ElementsPerRow
      BY DEF DisclosureCoversTheShard
  <2>1. n \in Nat \ {0} /\ n \in 1 .. MaxN /\ Commitment /\ broker.k \in Ks
        BY RowAssumption DEF RowInv, Options
  <2>2. i \in ChallengeRows(broker)
        BY <2>1, DrawTyped DEF Commitment, ChallengeRows
  <2>3. PICK j \in Rows : rows[j] = result.rows[i].values /\ SpotChecked(rows[j], i)
        BY <2>2, OkMeansFound
  <2>4. /\ rows[j] \in Row /\ rows[j].kind \in {"true", "wrong", "unseen"}
        /\ rows[j].kind = "unseen" => n > ElementsPerRow
        BY <2>1, ComputedTyped DEF Commitment
  <2>5. /\ rows[j].row = i /\ rows[j].kind \in {"true", "unseen"}
        BY <2>3, <2>4 DEF SpotChecked
  <2>6. rows[j] = RowOf(i, rows[j].kind)
        BY <2>4, <2>5 DEF Row, RowOf
  <2> QED
        BY <2>4, <2>5, <2>6
<1> QED
      BY <1>1, Invariance, PTL

\* How each row of an honest reveal fares.
LEMMA RevealedRow ==
    ASSUME RowInv, phase # "computing", result = Reveal,
           NEW i \in ChallengeRows(broker)
    PROVE  /\ Failure(i) = "none" <=> /\ worker.memoryHard = broker.memoryHard
                                      /\ i \in ChallengeRows(worker)
                                      /\ SpotChecked(rows[i], i)
           /\ ~Throws(i)
<1>1. n \in Nat \ {0} /\ n \in 1 .. MaxN /\ Commitment
      BY RowAssumption DEF RowInv
<1>2. i \in Rows
      BY <1>1, DrawTyped DEF RowInv, Commitment, ChallengeRows, Options
<1>3. Revealed(i) <=> i \in ChallengeRows(worker)
      BY DEF Revealed, Reveal
<1>4. CASE i \notin ChallengeRows(worker)
      BY <1>3, <1>4, PassesMeans DEF Throws
<1>5. CASE i \in ChallengeRows(worker)
  <2> DEFINE proof == ProveInclusion(tree, i)
  <2>1. result.rows[i] = [values |-> rows[i], proof |-> proof]
        BY <1>5 DEF Reveal, Entry
  <2>2. rows[i] \in Row /\ rows[i].kind # "short"
        BY <1>1, <1>2, ComputedTyped DEF Commitment
  <2>3. /\ Len(proof) \in Nat
        /\ VerifyInclusion(HashRow(rows[i], worker), proof, Root(tree))
        /\ \A p \in DOMAIN proof : proof[p].hash # Undecodable
        BY <1>1, <1>2, HonestProof
  <2> HIDE DEF proof
  <2>4. LengthFits(i)
        BY <2>1, <2>2 DEF LengthFits
  <2>5. ~Throws(i)
        BY <2>1, <2>3 DEF Throws
  <2>6. Included(i) <=> VerifyInclusion(HashRow(rows[i], broker), proof, Root(tree))
        BY <2>1 DEF Included
  <2>7. worker.memoryHard = broker.memoryHard =>
           HashRow(rows[i], broker) = HashRow(rows[i], worker)
        BY DEF HashRow
  <2>8. Included(i) <=> worker.memoryHard = broker.memoryHard
    <3>1. ASSUME Included(i)
          PROVE  worker.memoryHard = broker.memoryHard
          BY <1>1, <2>2, <2>3, <2>6, <3>1, IncludedWasCommitted
    <3>2. ASSUME worker.memoryHard = broker.memoryHard
          PROVE  Included(i)
          BY <2>3, <2>6, <2>7, <3>2
    <3> QED
        BY <3>1, <3>2
  <2>9. SpotChecked(result.rows[i].values, i) <=> SpotChecked(rows[i], i)
        BY <2>1
  <2> QED
      BY <1>3, <1>5, <2>4, <2>5, <2>8, <2>9, PassesMeans
<1> QED
      BY <1>4, <1>5

\* A worker that reveals what it committed to is admitted exactly when both sides
\* are configured alike and the draw misses every row it got visibly wrong: an
\* honest worker is never refused (shard.js:48-52, 307-319, 346-422), for shards
\* of every size and every number of flawed rows.
THEOREM RevealsAreJudged == Spec => []RevealIsJudgedByItsDraw
<1>1. RowInv => RevealIsJudgedByItsDraw
  <2> SUFFICES ASSUME RowInv, Over, result = Reveal
               PROVE  phase = "ok" <=>
                        /\ worker.memoryHard = broker.memoryHard
                        /\ ChallengeRows(broker) \subseteq ChallengeRows(worker)
                        /\ \A i \in ChallengeRows(broker) : SpotChecked(rows[i], i)
      BY DEF RevealIsJudgedByItsDraw
  <2>1. \A i \in ChallengeRows(broker) :
           /\ Failure(i) = "none" <=> /\ worker.memoryHard = broker.memoryHard
                                      /\ i \in ChallengeRows(worker)
                                      /\ SpotChecked(rows[i], i)
           /\ ~Throws(i)
        BY RevealedRow DEF Over
  <2>2. ChallengeRows(broker) # {}
        BY DrawTyped DEF RowInv, Over, Commitment, ChallengeRows, Options
  <2>3. result.shardId = "this"
        BY DEF Reveal
  <2>4. phase \in {"ok", "refused"}
        BY <2>1 DEF Over, RowInv, Judged
  <2>5. phase = "ok" <=> \A i \in ChallengeRows(broker) : Failure(i) = "none"
        BY <2>3, <2>4 DEF RowInv, Judged
  <2> QED
      BY <2>1, <2>2, <2>5
<1> QED
      BY <1>1, Invariance, PTL
=============================================================================
