------------------------- MODULE ShareControl_proofs -------------------------
(***************************************************************************)
(* Theorems about ShareControl, for every ceiling, clamp, tick, limit,     *)
(* burst length and delay.                                                 *)
(***************************************************************************)
EXTENDS ShareControl, TLAPS

-----------------------------------------------------------------------------
(* Arithmetic *)

\* What integer division loses is less than one.
LEMMA DivisionLosesLittle ==
    ASSUME NEW a \in Nat, NEW b \in Nat \ {0}
    PROVE  a \div b \in Nat /\ a < b * (a \div b + 1)
OBVIOUS

\* Products keep order.
LEMMA ProductOrder ==
    ASSUME NEW a \in Nat, NEW b \in Nat, NEW c \in Nat, a <= b
    PROVE  a * c <= b * c /\ c * a <= c * b
OBVIOUS

\* And are natural numbers.
LEMMA ProductInNat ==
    ASSUME NEW a \in Nat, NEW b \in Nat
    PROVE  a * b \in Nat
OBVIOUS

\* A positive factor can be cancelled.
LEMMA Cancel ==
    ASSUME NEW a \in Nat, NEW b \in Nat, NEW c \in Nat, a * c < b * c
    PROVE  a < b
OBVIOUS

\* The back-off only lowers a share, and never to nothing.
LEMMA FactorRange == \A x \in AllFactors : x \in 1 .. FactorWhole
BY SMT DEF AllFactors, FactorWhole

\* The ceiling in force is a positive part of Whole.
LEMMA DeclaredInNat ==
    ASSUME TypeOK
    PROVE  DeclaredShare \in Nat \ {0} /\ DeclaredShare <= Whole
BY ShareAssumption DEF TypeOK, DeclaredShare, Ceiling

\* nextIdleMs() keeps its bounds: either the wall time it leads to repays the
\* busy time, or it is the clamp.
LEMMA DesiredWallRepays ==
    ASSUME TypeOK, Enforceable(requested), NEW busy \in Nat
    PROVE  /\ DesiredWall(busy) \in Nat
           /\ busy * Whole < DeclaredShare * (DesiredWall(busy) + 1)
<1> DEFINE C == DeclaredShare
           W == DesiredWall(busy)
<1>1. /\ Whole \in Nat \ {0} /\ C \in Nat \ {0} /\ factor \in 1 .. 80
      BY DeclaredInNat, FactorRange, ShareAssumption DEF TypeOK, FactorWhole
<1>2. CASE 1000 * C * factor < Whole * FactorWhole
  <2>1. W = busy * 1000
        BY <1>2 DEF DesiredWall
  <2>2. busy * Whole <= busy * (1000 * C)
    <3>1. Whole <= 1000 * C
          BY DEF Enforceable, DeclaredShare
    <3>2. 1000 * C \in Nat
          BY <1>1
    <3> QED
          BY <1>1, <3>1, <3>2, ProductOrder
  <2>3. busy * (1000 * C) = C * W
        BY <1>1, <2>1
  <2>4. C * W < C * (W + 1)
        BY <1>1, <2>1
  <2> QED
        BY <1>1, <2>1, <2>2, <2>3, <2>4
<1>3. CASE ~(1000 * C * factor < Whole * FactorWhole)
  <2> DEFINE a == busy * Whole * FactorWhole
             b == C * factor
  <2>1. a \in Nat /\ b \in Nat \ {0}
        BY <1>1 DEF FactorWhole
  <2>2. W = a \div b
        BY <1>3 DEF DesiredWall
  <2>3. W \in Nat /\ a < b * (W + 1)
        BY <2>1, <2>2, DivisionLosesLittle
  <2>4. (busy * Whole) * factor <= a
        BY <1>1, ProductOrder, ProductInNat DEF FactorWhole
  <2>5. b * (W + 1) = (C * (W + 1)) * factor
        BY <1>1, <2>3
  <2>6. (busy * Whole) * factor < (C * (W + 1)) * factor
    <3> DEFINE x == (busy * Whole) * factor
               y == (C * (W + 1)) * factor
    <3>1. x \in Nat /\ y \in Nat
          BY <1>1, <2>3, ProductInNat
    <3>2. x <= a /\ a < y
          BY <2>3, <2>4, <2>5
    <3> HIDE DEF x, y, a
    <3>3. x < y
          BY <2>1, <3>1, <3>2
    <3> QED
          BY <3>3 DEF x, y
  <2> QED
    <3>1. busy * Whole \in Nat /\ C * (W + 1) \in Nat
          BY <1>1, <2>3, ProductInNat
    <3> QED
          BY <1>1, <2>3, <2>6, <3>1, Cancel
<1> QED
      BY <1>2, <1>3

\* The idle time is between nothing and the clamp whatever the ceiling is.
LEMMA IdleBounds ==
    ASSUME TypeOK, NEW busy \in Nat, NEW wall \in Nat
    PROVE  NextIdleMs(busy, wall) \in 0 .. MaxIdle
<1>1. DesiredWall(busy) \in Int
  <2>1. Whole \in Nat \ {0} /\ DeclaredShare \in Nat \ {0} /\ factor \in 1 .. 80
        BY DeclaredInNat, FactorRange, ShareAssumption DEF TypeOK, FactorWhole
  <2>2. busy * Whole * FactorWhole \in Nat /\ DeclaredShare * factor \in Nat \ {0}
        BY <2>1 DEF FactorWhole
  <2>3. (busy * Whole * FactorWhole) \div (DeclaredShare * factor) \in Int
        BY <2>2, DivisionLosesLittle
  <2> QED
        BY <2>1, <2>3 DEF DesiredWall
<1> QED
      BY <1>1, ShareAssumption DEF NextIdleMs, AtLeast, AtMost

\* An idle time that nextIdleMs() asks for repays what was computed, if what
\* was computed before the last burst was repaid when that was posted.
LEMMA IdleRepays ==
    ASSUME TypeOK, Enforceable(requested), Within(requested, clock),
           NEW d \in Nat, NEW delay \in Nat,
           d * Whole <= DeclaredShare * MaxIdle
    PROVE  LET now == clock + d + delay
           IN  (busyMs + d) * Whole
                 < DeclaredShare * (now + NextIdleMs(busyMs + d, now) + 1)
<1> DEFINE C == DeclaredShare
           busy == busyMs + d
           now == clock + d + delay
           W == DesiredWall(busy)
           idle == NextIdleMs(busy, now)
<1>1. /\ Whole \in Nat \ {0} /\ C \in Nat \ {0} /\ MaxIdle \in Nat
      /\ busyMs \in Nat /\ clock \in Nat /\ busy \in Nat /\ now \in Nat
      BY DeclaredInNat, ShareAssumption DEF TypeOK
<1>2. W \in Nat /\ busy * Whole < C * (W + 1)
      BY <1>1, DesiredWallRepays
<1>3. idle \in 0 .. MaxIdle
      BY <1>1, IdleBounds
<1>4. CASE idle = MaxIdle
  <2>1. busyMs * Whole < C * (clock + 1)
        BY DEF Within, DeclaredShare
  <2>2. busy * Whole = busyMs * Whole + d * Whole
        BY <1>1
  <2>3. C * (clock + 1) + C * MaxIdle = C * (clock + MaxIdle + 1)
        BY <1>1
  <2>4. C * (clock + MaxIdle + 1) <= C * (now + idle + 1)
    <3> HIDE DEF C
    <3>1. clock + MaxIdle + 1 <= now + idle + 1
          BY <1>1, <1>4
    <3> QED
          BY <1>1, <1>3, <3>1, ProductOrder
  <2>5. /\ busyMs * Whole \in Nat /\ d * Whole \in Nat
        /\ C * (clock + 1) \in Nat /\ C * MaxIdle \in Nat
        /\ C * (now + idle + 1) \in Nat
        BY <1>1, <1>3, ProductInNat
  <2> QED
        BY <2>1, <2>2, <2>3, <2>4, <2>5
<1>5. CASE idle # MaxIdle
  <2>1. W <= now + idle
        BY <1>1, <1>2, <1>5 DEF NextIdleMs, AtLeast, AtMost
  <2>2. C * (W + 1) <= C * (now + idle + 1)
    <3> HIDE DEF C, W, now, idle
    <3> QED
        BY <1>1, <1>2, <1>3, <2>1, ProductOrder
  <2>3. busy * Whole \in Nat /\ C * (W + 1) \in Nat /\ C * (now + idle + 1) \in Nat
        BY <1>1, <1>2, <1>3, ProductInNat
  <2> QED
        BY <1>2, <2>2, <2>3
<1> QED
      BY <1>4, <1>5

-----------------------------------------------------------------------------
(* Types *)

\* The controller's numbers keep their types, and the clamp its bounds.
THEOREM TypeCorrect == Spec => []TypeOK
<1>1. Init => TypeOK
      BY ShareAssumption, SMT DEF Init, TypeOK, FactorWhole, AllFactors
<1>2. TypeOK /\ [Next]_vars => TypeOK'
  <2> SUFFICES ASSUME TypeOK, [Next]_vars
               PROVE  TypeOK'
      OBVIOUS
  <2>1. CASE UNCHANGED vars
        BY <2>1 DEF TypeOK, vars, DeclaredShare, Ceiling
  <2>2. ASSUME Expire \/ Preempt \/ PostBurst \/ BatteryEvent
        PROVE  TypeOK'
        BY <2>2, ShareAssumption
        DEF TypeOK, Expire, Preempt, PostBurst, BatteryEvent, DeclaredShare, Ceiling
  <2>3. ASSUME BurstDone
        PROVE  TypeOK'
    <3>1. PICK d \in BurstLengths, delay \in Delays :
             /\ clock' = clock + d + delay
             /\ busyMs' = busyMs + d
             /\ longest' = AtLeast(longest, d)
             /\ idleMs' = NextIdleMs(busyMs + d, clock + d + delay)
             /\ loop' = IF idleMs' > 0 THEN "idle" ELSE "pass"
             /\ MaybeTick(clock + d + delay, busyMs + d)
          BY <2>3 DEF BurstDone
    <3>2. d \in Nat /\ delay \in Nat
          BY ShareAssumption
    <3>3. /\ clock' \in Nat /\ busyMs' \in Nat /\ longest' \in Nat
          /\ lastTick' \in Int /\ energy' \in Nat
          BY <3>1, <3>2 DEF TypeOK, AtLeast, MaybeTick
    <3>4. busyMs + d \in Nat /\ clock + d + delay \in Nat
          BY <3>2 DEF TypeOK
    <3>5. idleMs' \in 0 .. MaxIdle
          BY <3>1, <3>4, IdleBounds
    <3> QED
          BY <2>3, <3>1, <3>3, <3>5 DEF TypeOK, BurstDone, DeclaredShare, Ceiling
  <2>4. ASSUME IdleOver
        PROVE  TypeOK'
        BY <2>4, ShareAssumption DEF TypeOK, IdleOver, DeclaredShare, Ceiling
  <2>5. ASSUME QuietOver
        PROVE  TypeOK'
        BY <2>5, ShareAssumption
        DEF TypeOK, QuietOver, MaybeTick, DeclaredShare, Ceiling
  <2> QED
        BY <2>1, <2>2, <2>3, <2>4, <2>5 DEF Next
<1> QED
      BY <1>1, <1>2, PTL DEF Spec

-----------------------------------------------------------------------------
(* The ceiling *)

\* The inductive invariant: wherever the loop is, it is within the share by the
\* time at which it next posts a burst.
Repaid ==
    Enforceable(requested) /\ loop # "over"
        => Within(requested, IF loop = "idle" THEN clock + idleMs ELSE clock)

\* A time that is within the share stays so while nothing is computed.
LEMMA LaterIsWithin ==
    ASSUME TypeOK, NEW now \in Nat, NEW later \in Nat, now <= later,
           Within(requested, now)
    PROVE  Within(requested, later)
<1> DEFINE C == Ceiling(requested)
<1>1. C \in Nat /\ busyMs * Whole \in Nat
      BY DeclaredInNat, ShareAssumption, ProductInNat DEF TypeOK, DeclaredShare
<1>2. C * (now + 1) <= C * (later + 1)
      BY <1>1, ProductOrder
<1>3. C * (now + 1) \in Nat /\ C * (later + 1) \in Nat
      BY <1>1, ProductInNat
<1> QED
      BY <1>1, <1>2, <1>3 DEF Within

\* A burst makes a ceiling no easier to enforce.
LEMMA StillEnforceable ==
    ASSUME TypeOK, NEW d \in Nat, longest' = AtLeast(longest, d),
           requested' = requested, Enforceable(requested)'
    PROVE  Enforceable(requested) /\ d * Whole <= DeclaredShare * MaxIdle
<1>1. /\ longest' \in Nat /\ longest <= longest' /\ d <= longest'
      /\ longest \in Nat /\ Whole \in Nat
      BY ShareAssumption DEF TypeOK, AtLeast
<1>2. longest * Whole <= longest' * Whole /\ d * Whole <= longest' * Whole
      BY <1>1, ProductOrder
<1>3. longest' * Whole <= DeclaredShare * MaxIdle /\ Whole <= 1000 * DeclaredShare
      BY DEF Enforceable, DeclaredShare, Ceiling
<1>4. /\ longest * Whole \in Nat /\ longest' * Whole \in Nat /\ d * Whole \in Nat
      /\ DeclaredShare * MaxIdle \in Nat
      BY <1>1, ProductInNat, DeclaredInNat, ShareAssumption
<1> QED
      BY <1>2, <1>3, <1>4 DEF Enforceable, DeclaredShare

\* The declared ceiling holds whenever a burst is posted, for every schedule.
THEOREM CeilingIsKept == Spec => []PostedWithinShare
<1>1. Init => Repaid
  <2> SUFFICES ASSUME Init PROVE Within(requested, clock)
      BY DEF Init, Repaid
  <2> QED
      BY ShareAssumption DEF Init, Within, DeclaredShare, Ceiling
<1>2. TypeOK /\ Repaid /\ [Next]_vars => Repaid'
  <2> SUFFICES ASSUME TypeOK, Repaid, [Next]_vars,
                      Enforceable(requested)', loop' # "over"
               PROVE  Within(requested, IF loop = "idle" THEN clock + idleMs ELSE clock)'
      BY DEF Repaid
  <2>1. CASE UNCHANGED vars
        BY <2>1 DEF vars, Repaid, Enforceable, Within, Ceiling
  <2>2. ASSUME Preempt \/ PostBurst \/ BatteryEvent
        PROVE  Within(requested, IF loop = "idle" THEN clock + idleMs ELSE clock)'
        BY <2>2 DEF Preempt, PostBurst, BatteryEvent, Repaid, Enforceable, Within, Ceiling
  <2>3. ASSUME BurstDone
        PROVE  Within(requested, IF loop = "idle" THEN clock + idleMs ELSE clock)'
    <3>1. PICK d \in BurstLengths, delay \in Delays :
             /\ clock' = clock + d + delay
             /\ busyMs' = busyMs + d
             /\ longest' = AtLeast(longest, d)
             /\ idleMs' = NextIdleMs(busyMs + d, clock + d + delay)
             /\ loop' = IF idleMs' > 0 THEN "idle" ELSE "pass"
          BY <2>3 DEF BurstDone
    <3>2. d \in Nat /\ delay \in Nat
          BY ShareAssumption
    <3>3. loop = "burst" /\ requested' = requested
          BY <2>3 DEF BurstDone
    <3>4. Enforceable(requested) /\ d * Whole <= DeclaredShare * MaxIdle
          BY <3>1, <3>2, <3>3, StillEnforceable
    <3>5. Within(requested, clock)
          BY <3>3, <3>4 DEF Repaid
    <3>6. busyMs' * Whole < DeclaredShare * (clock' + idleMs' + 1)
          BY <3>1, <3>2, <3>4, <3>5, IdleRepays
    <3>7. idleMs' \in Nat /\ clock' \in Nat
      <4>1. busyMs + d \in Nat /\ clock + d + delay \in Nat
            BY <3>2 DEF TypeOK
      <4>2. idleMs' \in 0 .. MaxIdle
            BY <3>1, <4>1, IdleBounds
      <4> QED
            BY <3>1, <4>1, <4>2, ShareAssumption
    <3>8. CASE idleMs' > 0
          BY <3>1, <3>3, <3>6, <3>8 DEF Within, DeclaredShare, Ceiling
    <3>9. CASE idleMs' = 0
      <4>1. busyMs' * Whole < DeclaredShare * (clock' + 1)
            BY <3>6, <3>7, <3>9
      <4> QED
            BY <3>1, <3>3, <3>9, <4>1 DEF Within, DeclaredShare, Ceiling
    <3> QED
          BY <3>7, <3>8, <3>9
  <2>4. ASSUME IdleOver
        PROVE  Within(requested, IF loop = "idle" THEN clock + idleMs ELSE clock)'
    <3>1. Within(requested, clock + idleMs)
          BY <2>4 DEF IdleOver, Repaid, Enforceable, Ceiling
    <3>2. clock + idleMs \in Nat /\ clock' \in Nat /\ clock + idleMs <= clock'
          BY <2>4, ShareAssumption DEF TypeOK, IdleOver
    <3>3. Within(requested, clock')
          BY <3>1, <3>2, LaterIsWithin
    <3> QED
          BY <2>4, <3>3 DEF IdleOver, Within, Ceiling
  <2>5. ASSUME QuietOver
        PROVE  Within(requested, IF loop = "idle" THEN clock + idleMs ELSE clock)'
    <3>1. Within(requested, clock)
          BY <2>5 DEF QuietOver, Repaid, Enforceable, Ceiling
    <3>2. clock \in Nat /\ clock' \in Nat /\ clock <= clock'
          BY <2>5, ShareAssumption DEF TypeOK, QuietOver
    <3>3. Within(requested, clock')
          BY <3>1, <3>2, LaterIsWithin
    <3> QED
          BY <2>5, <3>3 DEF QuietOver, Within, Ceiling
  <2>6. ASSUME Expire
        PROVE  FALSE
        BY <2>6 DEF Expire
  <2> QED
        BY <2>1, <2>2, <2>3, <2>4, <2>5, <2>6 DEF Next
<1>3. Repaid => PostedWithinShare
      BY DEF Repaid, PostedWithinShare
<1> QED
      BY <1>1, <1>2, <1>3, TypeCorrect, PTL DEF Spec

-----------------------------------------------------------------------------
(* The energy limit *)

\* What was computed since the last tick took no longer than that is ago, and
\* every turn that follows a burst or a pause has ticked if a tick was due.
EnergyIsRecent ==
    /\ busyMs - energy <= clock - lastTick
    /\ busyMs - energy < TickMs
    /\ loop = "burst" => energy < EnergyMax

\* The energy limit is overrun by less than one tick when a burst is posted.
THEOREM EnergyIsBounded == Spec => []EnergyWithinOneTick
<1>1. Init => EnergyIsRecent
      BY ShareAssumption DEF Init, EnergyIsRecent
<1>2. TypeOK /\ EnergyIsRecent /\ [Next]_vars => EnergyIsRecent'
  <2> SUFFICES ASSUME TypeOK, EnergyIsRecent, [Next]_vars
               PROVE  EnergyIsRecent'
      OBVIOUS
  <2>1. CASE UNCHANGED vars
        BY <2>1 DEF vars, EnergyIsRecent
  <2>2. ASSUME Expire \/ Preempt \/ PostBurst \/ BatteryEvent
        PROVE  EnergyIsRecent'
        BY <2>2, ShareAssumption
        DEF TypeOK, EnergyIsRecent, Expire, Preempt, PostBurst, BatteryEvent, LimitReached
  <2>3. ASSUME BurstDone
        PROVE  EnergyIsRecent'
    <3>1. PICK d \in BurstLengths, delay \in Delays :
             /\ clock' = clock + d + delay
             /\ busyMs' = busyMs + d
             /\ loop' \in {"idle", "pass"}
             /\ MaybeTick(clock + d + delay, busyMs + d)
          BY <2>3 DEF BurstDone
    <3> QED
          BY <3>1, ShareAssumption DEF TypeOK, EnergyIsRecent, MaybeTick
  <2>4. ASSUME IdleOver
        PROVE  EnergyIsRecent'
        BY <2>4, ShareAssumption DEF TypeOK, EnergyIsRecent, IdleOver
  <2>5. ASSUME QuietOver
        PROVE  EnergyIsRecent'
    <3>1. PICK delay \in Delays :
             /\ clock' = clock + QuietMs + delay
             /\ MaybeTick(clock', busyMs)
          BY <2>5 DEF QuietOver
    <3> QED
          BY <2>5, <3>1, ShareAssumption DEF TypeOK, EnergyIsRecent, QuietOver, MaybeTick
  <2> QED
        BY <2>1, <2>2, <2>3, <2>4, <2>5 DEF Next
<1>3. TypeOK /\ EnergyIsRecent => EnergyWithinOneTick
      BY ShareAssumption DEF TypeOK, EnergyIsRecent, EnergyWithinOneTick
<1> QED
      BY <1>1, <1>2, <1>3, TypeCorrect, PTL DEF Spec
=============================================================================
