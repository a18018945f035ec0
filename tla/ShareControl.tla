---------------------------- MODULE ShareControl ----------------------------
(***************************************************************************)
(* The share controller of packages/zkpoc-worker/src/governor.js: the      *)
(* accounting of _loop(), nextIdleMs() and _maybeTick(), with their        *)
(* numbers.  Governor has the same loop without numbers and with all the   *)
(* ways it is stopped; here it runs until a limit of the manifest ends it. *)
(*                                                                         *)
(* Times are whole milliseconds since startedAt, shares are parts of       *)
(* Whole.  setTimeout() drops the fraction of the idle time it is given.   *)
(***************************************************************************)
EXTENDS Integers

CONSTANTS
    Whole,
    GpuShare,      \* gpu_share_max, in parts of Whole
    CpuShare,      \* cpu_share_max
    MaxIdle,       \* maxIdleMs, 2000
    TickMs,        \* tickMs, 250
    QuietMs,       \* the 50 ms of a preempted pass
    Duration,      \* duration_max_s
    EnergyMax,     \* energy_max_mwh, as the busy time that uses it up
    BurstLengths,  \* how long bursts keep the worker busy
    Delays,        \* by how much an answer or a timer may be late
    Factors        \* bound: the back-off factors that occur

\* The factors of _updateBackoff(), in 80ths: frame health 4, 3 or 2 quarters,
\* thermal 5 or 3 fifths, battery 4, 3 or 2 quarters.
FactorWhole == 80
AllFactors == {f * t * b : f \in {4, 3, 2}, t \in {5, 3}, b \in {4, 3, 2}}

ASSUME ShareAssumption ==
    /\ Whole \in Nat \ {0}
    /\ GpuShare \in 0 .. Whole /\ CpuShare \in 0 .. Whole
    /\ MaxIdle \in Nat /\ TickMs \in Nat \ {0} /\ QuietMs \in Nat
    /\ Duration \in Nat /\ EnergyMax \in Nat
    /\ BurstLengths \subseteq Nat
    /\ Delays \subseteq Nat
    /\ Factors \subseteq AllFactors

VARIABLES
    requested,  \* this.path
    actualPath, \* where the worker computes: "cpu" after a fallback
    loop,       \* what _loop() is at: "pass", "burst", "idle", "quiet", "over"
    clock,      \* performance.now() - startedAt, when loop got there
    busyMs,     \* as in the code
    idleMs,     \* the idle time nextIdleMs() asked for
    factor,     \* backoffFactor
    lastTick,   \* _lastTick
    energy,     \* energyMwh, as a busy time
    longest     \* history: the longest burst so far

vars == <<requested, actualPath, loop, clock, busyMs, idleMs, factor,
          lastTick, energy, longest>>

Ceiling(path) == IF path = "gpu" THEN GpuShare ELSE CpuShare

\* The getter declaredShare reads the path that was asked for.
DeclaredShare == Ceiling(requested)

-----------------------------------------------------------------------------

AtLeast(a, b) == IF a < b THEN b ELSE a
AtMost(a, b) == IF a < b THEN a ELSE b

\* busyTotalMs / max(0.001, targetShare), whole milliseconds of it.
DesiredWall(busy) ==
    IF 1000 * DeclaredShare * factor < Whole * FactorWhole
    THEN busy * 1000
    ELSE (busy * Whole * FactorWhole) \div (DeclaredShare * factor)

\* The definitions named ...Fault are plausible bugs in the one they precede.
\* Nothing uses them: they are there to be swapped in, to see that the
\* properties notice.

\* Per burst, the law that the header of governor.js rejects (9-13).
NextIdleProportionalFault(busy, wall) ==
    AtMost(AtLeast(DesiredWall(busy - busyMs) - (busy - busyMs), 0), MaxIdle)

NextIdleUnclampedFault(busy, wall) == AtLeast(DesiredWall(busy) - wall, 0)

\* nextIdleMs()
NextIdleMs(busy, wall) == AtMost(AtLeast(DesiredWall(busy) - wall, 0), MaxIdle)

MaybeTickFault(now, busy) ==
    /\ lastTick' = now
    /\ energy' = IF now - lastTick < TickMs THEN energy ELSE busy

\* _maybeTick().  The estimate is a constant power times achievedShare times
\* wall time, both at this moment: proportional to the busy time.
MaybeTick(now, busy) ==
    IF now - lastTick < TickMs
    THEN UNCHANGED <<lastTick, energy>>
    ELSE lastTick' = now /\ energy' = busy

-----------------------------------------------------------------------------

\* startedAt may be any time after the page was loaded, where the clock that
\* _lastTick is compared with began.
Init ==
    /\ requested \in {"gpu", "cpu"}
    /\ actualPath \in {requested, "cpu"}
    /\ DeclaredShare > 0                  \* start() denies it otherwise
    /\ loop = "pass" /\ clock = 0
    /\ busyMs = 0 /\ idleMs = 0 /\ longest = 0
    /\ factor = FactorWhole
    /\ lastTick \in {0, -TickMs} /\ energy = 0

LimitReached == clock >= Duration \/ energy >= EnergyMax

Expire ==
    /\ loop = "pass"
    /\ LimitReached
    /\ loop' = "over"
    /\ UNCHANGED <<requested, actualPath, clock, busyMs, idleMs, factor,
                   lastTick, energy, longest>>

Preempt ==
    /\ loop = "pass"
    /\ ~LimitReached
    /\ loop' = "quiet"
    /\ UNCHANGED <<requested, actualPath, clock, busyMs, idleMs, factor,
                   lastTick, energy, longest>>

\* _updateBackoff() finds the device in any condition.
PostBurst ==
    /\ loop = "pass"
    /\ ~LimitReached
    /\ factor' \in Factors
    /\ loop' = "burst"
    /\ UNCHANGED <<requested, actualPath, clock, busyMs, idleMs,
                   lastTick, energy, longest>>

\* The worker was busy for d ms, and its answer takes some time to be handled.
BurstDone ==
    /\ loop = "burst"
    /\ \E d \in BurstLengths, delay \in Delays :
          LET now == clock + d + delay
              busy == busyMs + d
              idle == NextIdleMs(busy, now)
          IN  /\ clock' = now
              /\ busyMs' = busy
              /\ longest' = AtLeast(longest, d)
              /\ idleMs' = idle
              /\ loop' = IF idle > 0 THEN "idle" ELSE "pass"
              /\ MaybeTick(now, busy)
    /\ UNCHANGED <<requested, actualPath, factor>>

IdleOver ==
    /\ loop = "idle"
    /\ \E delay \in Delays : clock' = clock + idleMs + delay
    /\ loop' = "pass"
    /\ UNCHANGED <<requested, actualPath, busyMs, idleMs, factor,
                   lastTick, energy, longest>>

QuietOver ==
    /\ loop = "quiet"
    /\ \E delay \in Delays :
          /\ clock' = clock + QuietMs + delay
          /\ MaybeTick(clock', busyMs)
    /\ loop' = "pass"
    /\ UNCHANGED <<requested, actualPath, busyMs, idleMs, factor, longest>>

\* The battery's events call _updateBackoff() whatever the loop awaits.
BatteryEvent ==
    /\ loop # "over"
    /\ factor' \in Factors
    /\ UNCHANGED <<requested, actualPath, loop, clock, busyMs, idleMs,
                   lastTick, energy, longest>>

Next ==
    \/ Expire \/ Preempt \/ PostBurst
    \/ BurstDone \/ IdleOver \/ QuietOver \/ BatteryEvent

Spec == Init /\ [][Next]_vars

-----------------------------------------------------------------------------
(* Properties *)

\* Type invariant.
TypeOK ==
    /\ requested \in {"gpu", "cpu"} /\ actualPath \in {requested, "cpu"}
    /\ DeclaredShare > 0
    /\ loop \in {"pass", "burst", "idle", "quiet", "over"}
    /\ clock \in Nat /\ longest \in Nat
    /\ busyMs \in Nat /\ energy \in Nat
    /\ idleMs \in 0 .. MaxIdle
    /\ factor \in AllFactors
    /\ lastTick \in Int

\* The two cases in which the control law gives up a ceiling: it is below the
\* floor of 0.001, or a burst was so long that MaxIdle does not repay it.
Enforceable(path) ==
    /\ Whole <= 1000 * Ceiling(path)
    /\ longest * Whole <= Ceiling(path) * MaxIdle

\* Cumulative busy time is within the share of cumulative wall time, up to the
\* fraction of a millisecond that setTimeout() drops.
Within(path, now) == busyMs * Whole < Ceiling(path) * (now + 1)

\* "Repay cumulative overshoot, never average above the declared ceiling"
\* (governor.js:237-238): all that was computed is repaid when the next burst
\* is posted, whatever overshot, was late, backed off or was preempted before,
\* and although an idle time that was clamped repays only part of a debt.
PostedWithinShare ==
    loop = "burst" /\ Enforceable(requested) => Within(requested, clock)

\* The energy limit is compared with an estimate that only a tick refreshes
\* (governor.js:201, 303): a burst may be posted past it, but by no more than
\* one tick's time.
EnergyWithinOneTick == loop = "burst" => busyMs < EnergyMax + TickMs

-----------------------------------------------------------------------------
(* What the documents say, and the code does not always do *)

\* declaredShare is "the manifest's ceiling for the active path" (API.md:38).
\* After a fallback to the CPU the share is still that of the GPU.
ActivePathWithinShare ==
    loop = "burst" /\ Enforceable(actualPath) => Within(actualPath, clock)
=============================================================================
