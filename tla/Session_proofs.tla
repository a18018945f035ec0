--------------------------- MODULE Session_proofs ---------------------------
(***************************************************************************)
(* Safety of the governor, for every number of revoke() and stop() calls,  *)
(* with and without a battery to await, and of a session, for every number *)
(* of sampleResult() calls under way.                                      *)
(*                                                                         *)
(* The governor's properties are not inductive alone.  What ties them      *)
(* together is where start() is: there is no worker before it, it          *)
(* constructs the only one, and the loop does not exist until its last     *)
(* turn.  A session is a governor (SessionImplementsGovernor), so they     *)
(* hold of it too; the second half is about its channel, where a call is   *)
(* pending exactly while one message carries its id.                       *)
(***************************************************************************)
EXTENDS Session, FiniteSetTheorems, SequenceTheorems, TLAPS

\* start() has not constructed a worker, or has; before its last turn there
\* is no loop, and before its first nobody can have called revoke().
StartOrder ==
    /\ starting \in {"uncalled", "denied"} <=> worker = "none"
    /\ starting # "returned" => loop = "none" /\ state # "preempted"
    /\ starting = "uncalled" => calls = 0 /\ state = "idle" /\ ~stopFlag

\* A set stop flag means a finished session; an unset one in the preempted
\* state means a loop that will look again.
StopFlagTold ==
    /\ stopFlag => worker # "live" /\ monitors = {} /\ state # "preempted"
    /\ state = "preempted" => loop = "quiet"

EnvironmentOK == limitHit \in BOOLEAN /\ active \in BOOLEAN /\ hot \in BOOLEAN

IInv ==
    /\ StartOrder
    /\ StopFlagTold
    /\ EnvironmentOK
    /\ calls \in Nat
    /\ RevocationIsForGood
    /\ OverMeansReleased

\* The initial states satisfy the inductive invariant.
LEMMA InitialInvariant == Init => IInv
<1>1. Init => EnvironmentOK
  BY Zenon DEF Init, EnvironmentOK
<1>2. Init => /\ StartOrder /\ StopFlagTold /\ calls \in Nat
              /\ RevocationIsForGood /\ OverMeansReleased
  BY DEF Init, StartOrder, StopFlagTold, RevocationIsForGood, OverMeansReleased, Final
<1>. QED
  BY <1>1, <1>2 DEF IInv

\* _finish() leaves a released session, whoever calls it.
LEMMA FinishFacts ==
    ASSUME NEW final \in Final, NEW from, NEW before, Finish(final, from, before)
    PROVE  /\ state' = final /\ stopFlag' = TRUE /\ monitors' = {}
           /\ worker' # "live"
           /\ worker' = "none" <=> worker = "none"
BY DEF Finish

\* What one pass through the loop's body leaves behind: either the session is
\* over and released, or the loop waits, quiet exactly when preempted, and
\* with a burst in flight only past every test.
LEMMA PassFacts ==
    ASSUME NEW from, NEW before, NEW on, Pass(from, before, on)
    PROVE  /\ worker' # "live" \/ worker' = worker
           /\ worker' = "none" <=> worker = "none"
           /\ \/ /\ stopFlag' = TRUE /\ state' \in Final
                 /\ worker' # "live" /\ monitors' = {} /\ loop' = "exited"
              \/ /\ stopFlag' = FALSE /\ state' = "preempted" /\ loop' = "quiet"
              \/ /\ stopFlag' = FALSE /\ state' \in {"running", "backoff"}
                 /\ loop' = "burst"
                 /\ ~limitHit /\ battery # "floor" /\ ~active
<1>1. ASSUME NEW final \in {"expired", "stopped"}, End(final, from, before)
      PROVE  /\ worker' # "live"
             /\ worker' = "none" <=> worker = "none"
             /\ stopFlag' = TRUE /\ state' \in Final
             /\ monitors' = {} /\ loop' = "exited"
  <2>1. final \in Final
    BY <1>1 DEF Final
  <2>. QED
    BY <1>1, <2>1, FinishFacts DEF End
<1>2. ASSUME Preempt(from, before, on)
      PROVE  worker' = worker /\ stopFlag' = FALSE /\ state' = "preempted" /\ loop' = "quiet"
  BY <1>2 DEF Preempt
<1>3. ASSUME PostBurst(from, before, on), worker = "live"
      PROVE  /\ worker' = worker /\ stopFlag' = FALSE
             /\ state' \in {"running", "backoff"} /\ loop' = "burst"
  BY <1>3 DEF PostBurst, Resumed
<1>4. ASSUME PostBurst(from, before, on), worker # "live"
      PROVE  /\ worker' # "live"
             /\ worker' = "none" <=> worker = "none"
             /\ stopFlag' = TRUE /\ state' \in Final
             /\ monitors' = {} /\ loop' = "exited"
  <2>1. PICK before2 : Finish("stopped", Resumed(from), before2)
    BY <1>4 DEF PostBurst
  <2>2. "stopped" \in Final
    BY DEF Final
  <2>3. loop' = "exited"
    BY <1>4 DEF PostBurst
  <2>. QED
    BY <2>1, <2>2, <2>3, FinishFacts
<1>5. CASE limitHit /\ End("expired", from, before)
  BY <1>1, <1>5
<1>6. CASE ~limitHit /\ battery = "floor" /\ End("stopped", from, before)
  BY <1>1, <1>6
<1>7. CASE Preempt(from, before, on)
  BY <1>2, <1>7
<1>8. CASE ~limitHit /\ battery # "floor" /\ ~active /\ PostBurst(from, before, on)
  BY <1>3, <1>4, <1>8
<1>. QED
  BY <1>5, <1>6, <1>7, <1>8 DEF Pass

\* A turn of start() or of the loop that ends in a pass keeps the invariant.
LEMMA PassStep ==
    ASSUME IInv, NEW from, NEW before, NEW on, Pass(from, before, on),
           worker # "none", starting' = "returned", UNCHANGED <<environment, calls>>
    PROVE  IInv'
<1>1. worker' # "none" /\ (worker' # "live" \/ worker' = worker)
  BY PassFacts
<1>2. EnvironmentOK'
  BY DEF IInv, EnvironmentOK, environment
<1>3. RevocationIsForGood'
  BY <1>1 DEF IInv, RevocationIsForGood
<1>4. StartOrder'
  BY <1>1 DEF StartOrder
<1>5. StopFlagTold' /\ OverMeansReleased'
  BY PassFacts DEF StopFlagTold, OverMeansReleased, Final
<1>. QED
  BY <1>2, <1>3, <1>4, <1>5 DEF IInv

\* So does one that begins at the head of the loop.
LEMMA NextPassStep ==
    ASSUME IInv, NEW before, NextPass(before), loop # "none",
           UNCHANGED <<starting, environment, calls>>
    PROVE  IInv'
<1>1. starting = "returned" /\ worker # "none"
  BY DEF IInv, StartOrder
<1>2. CASE ~stopFlag
  BY <1>1, <1>2, PassStep DEF NextPass
<1>3. CASE stopFlag
  BY <1>1, <1>3 DEF NextPass, IInv, StartOrder, StopFlagTold, EnvironmentOK,
                    RevocationIsForGood, OverMeansReleased, Final, environment
<1>. QED
  BY <1>2, <1>3

\* Every step keeps the inductive invariant.
LEMMA InductiveStep == IInv /\ [Next]_vars => IInv'
<1>. SUFFICES ASSUME IInv, [Next]_vars PROVE IInv'
  OBVIOUS
<1>. USE DEF Final
<1>1. CASE Start
  <2>1. EnvironmentOK' /\ calls' = calls
    BY <1>1 DEF Start, IInv, EnvironmentOK, environment
  <2>2. /\ StartOrder' /\ StopFlagTold' /\ OverMeansReleased'
        /\ RevocationIsForGood'
    BY <1>1 DEF Start, IInv, StartOrder, StopFlagTold, RevocationIsForGood,
                OverMeansReleased
  <2>. QED
    BY <2>1, <2>2 DEF IInv
<1>2. CASE InitAnswers
  <2>1. PICK fallback :
          IF battery # "none"
          THEN /\ starting' = "battery"
               /\ UNCHANGED <<state, stopFlag, worker, loop, monitors, backoff>>
          ELSE Begin(fallback)
    BY <1>2 DEF InitAnswers
  <2>2. /\ starting = "init" /\ worker = "live"
        /\ UNCHANGED <<environment, calls>>
    BY <1>2 DEF InitAnswers
  <2>3. CASE battery # "none"
    BY <2>1, <2>2, <2>3 DEF IInv, StartOrder, StopFlagTold, EnvironmentOK,
              RevocationIsForGood, OverMeansReleased, environment
  <2>4. CASE battery = "none"
    BY <2>1, <2>2, <2>4, PassStep DEF Begin
  <2>. QED
    BY <2>3, <2>4
<1>3. CASE InitFails
  BY <1>3 DEF InitFails, IInv, StartOrder, StopFlagTold, EnvironmentOK,
              RevocationIsForGood, OverMeansReleased, environment
<1>4. CASE BatteryReady
  <2>1. worker # "none"
    BY <1>4 DEF BatteryReady, IInv, StartOrder
  <2>. QED
    BY <1>4, <2>1, PassStep DEF BatteryReady, Begin
<1>5. CASE BurstDone
  <2>1. PICK tick \in Ticks :
          \/ /\ loop' = "idle"
             /\ UNCHANGED <<state, stopFlag, worker, monitors, backoff>>
          \/ NextPass(tick)
    BY <1>5 DEF BurstDone
  <2>2. loop = "burst" /\ UNCHANGED <<starting, environment, calls>>
    BY <1>5 DEF BurstDone
  <2>3. CASE NextPass(tick)
    BY <2>2, <2>3, NextPassStep
  <2>4. CASE /\ loop' = "idle"
             /\ UNCHANGED <<state, stopFlag, worker, monitors, backoff>>
    BY <2>2, <2>4 DEF IInv, StartOrder, StopFlagTold, EnvironmentOK,
              RevocationIsForGood, OverMeansReleased, environment
  <2>. QED
    BY <2>1, <2>3, <2>4
<1>6. CASE BurstFails
  <2>1. Finish("stopped", state, <<"error">>) /\ loop' = "exited"
    BY <1>6 DEF BurstFails, End
  <2>2. /\ worker = "live" /\ loop = "burst"
        /\ UNCHANGED <<starting, environment, calls>>
    BY <1>6 DEF BurstFails
  <2>3. /\ state' = "stopped" /\ stopFlag' = TRUE /\ monitors' = {}
        /\ worker' # "live" /\ worker' # "none"
    BY <2>1, <2>2, FinishFacts
  <2>. QED
    BY <2>1, <2>2, <2>3 DEF IInv, StartOrder, StopFlagTold, EnvironmentOK,
              RevocationIsForGood, OverMeansReleased, environment
<1>7. CASE IdleOver
  BY <1>7, NextPassStep DEF IdleOver
<1>8. CASE QuietOver
  BY <1>8, NextPassStep DEF QuietOver
<1>9. ASSUME NEW final \in Final, Call(final)
      PROVE  IInv'
  <2>1. /\ state' = final /\ stopFlag' = TRUE /\ monitors' = {}
        /\ worker' # "live"
        /\ worker' = "none" <=> worker = "none"
    BY <1>9, FinishFacts DEF Call
  <2>2. /\ starting # "uncalled" /\ calls' = calls + 1
        /\ UNCHANGED <<starting, loop, environment>>
    BY <1>9 DEF Call
  <2>. QED
    BY <2>1, <2>2 DEF IInv, StartOrder, StopFlagTold, EnvironmentOK,
              RevocationIsForGood, OverMeansReleased, environment
<1>10. CASE Revoke \/ Stop
  BY <1>9, <1>10 DEF Revoke, Stop
<1>11. CASE \/ LimitReached \/ ActivityChanges \/ HealthChanges \/ BatteryChanges
            \/ UNCHANGED vars
  <2>1. EnvironmentOK'
    BY <1>11, Zenon DEF LimitReached, ActivityChanges, HealthChanges, BatteryChanges,
               vars, environment, IInv, EnvironmentOK
  <2>2. UNCHANGED <<state, stopFlag, worker, starting, loop, monitors, calls>>
    BY <1>11 DEF LimitReached, ActivityChanges, HealthChanges, BatteryChanges,
                 vars, control
  <2>3. /\ StartOrder' /\ StopFlagTold' /\ OverMeansReleased'
        /\ RevocationIsForGood' /\ calls' \in Nat
    BY <2>2 DEF IInv, StartOrder, StopFlagTold, RevocationIsForGood, OverMeansReleased
  <2>. QED
    BY <2>1, <2>3 DEF IInv
<1>. QED
  BY <1>1, <1>2, <1>3, <1>4, <1>5, <1>6, <1>7, <1>8, <1>10, <1>11 DEF Next

\* Every reachable state satisfies the inductive invariant.
THEOREM Invariance == Spec => []IInv
BY InitialInvariant, InductiveStep, PTL DEF Spec

\* After revoke() or stop() no worker computes for the page again, although
\* start() may go on and set the loop running.
THEOREM RevocationHolds == Spec => []RevocationIsForGood
<1>1. IInv => RevocationIsForGood
  BY DEF IInv
<1>. QED
  BY <1>1, Invariance, PTL

\* A session that reports itself over has released worker and listeners.
THEOREM SessionsRelease == Spec => []OverMeansReleased
<1>1. IInv => OverMeansReleased
  BY DEF IInv
<1>. QED
  BY <1>1, Invariance, PTL

\* No burst is in flight while the session shows itself preempted.
THEOREM PreemptionPauses == Spec => []PreemptedMeansPaused
<1>1. IInv => PreemptedMeansPaused
  BY DEF IInv, StopFlagTold, PreemptedMeansPaused
<1>. QED
  BY <1>1, Invariance, PTL

\* A step that takes a session out of its final states is the last turn of
\* start(), resumed from its await of the battery.
LEMMA OvertakingStep ==
    ASSUME IInv, [Next]_vars
    PROVE  [(state \in Final /\ state' \notin Final)
              => starting = "battery" /\ starting' = "returned"]_vars
<1>. SUFFICES ASSUME Next, state \in Final, state' \notin Final
              PROVE  starting = "battery" /\ starting' = "returned"
  OBVIOUS
<1>1. stopFlag /\ worker # "live" /\ state # "idle"
  BY DEF IInv, OverMeansReleased, Final
<1>2. ASSUME NEW before, NextPass(before) PROVE FALSE
  BY <1>1, <1>2 DEF NextPass
<1>3. ~Start /\ ~InitAnswers /\ ~InitFails /\ ~BurstDone /\ ~BurstFails
  BY <1>1 DEF Start, InitAnswers, InitFails, BurstDone, BurstFails, IInv, StartOrder
<1>4. ~IdleOver /\ ~QuietOver
  BY <1>2 DEF IdleOver, QuietOver
<1>5. ASSUME NEW final \in Final, Call(final) PROVE FALSE
  BY <1>5 DEF Call, Finish
<1>6. ~Revoke /\ ~Stop
  BY <1>5 DEF Revoke, Stop, Final
<1>7. ~LimitReached /\ ~ActivityChanges /\ ~HealthChanges /\ ~BatteryChanges
  BY DEF LimitReached, ActivityChanges, HealthChanges, BatteryChanges, control
<1>8. BatteryReady
  BY <1>3, <1>4, <1>6, <1>7 DEF Next
<1>. QED
  BY <1>8 DEF BatteryReady, Begin

\* A session that is over reports running again only where start() overtakes it.
THEOREM OverStaysOver == Spec => OverUnlessOvertaken
<1>1. Spec => []IInv
  BY Invariance
<1>2. IInv /\ [Next]_vars =>
        [(state \in Final /\ state' \notin Final)
           => starting = "battery" /\ starting' = "returned"]_vars
  BY OvertakingStep
<1>. QED
  BY <1>1, <1>2, PTL DEF Spec, OverUnlessOvertaken

\* A step that leaves a burst in flight, and is neither an event of the page
\* or the device nor a stutter, went through a pass with every test clear.
LEMMA BurstStep ==
    ASSUME IInv, [Next]_vars
    PROVE  [loop' = "burst" /\ UNCHANGED <<environment, calls>>
              => ~limitHit /\ battery # "floor" /\ ~active]_vars
<1>. SUFFICES ASSUME Next, loop' = "burst", UNCHANGED <<environment, calls>>,
                     ~UNCHANGED vars
              PROVE  ~limitHit /\ battery # "floor" /\ ~active
  BY DEF vars
<1>1. ASSUME NEW from, NEW before, NEW on, Pass(from, before, on)
      PROVE  ~limitHit /\ battery # "floor" /\ ~active
  BY <1>1, PassFacts
<1>2. ASSUME NEW before, NextPass(before)
      PROVE  ~limitHit /\ battery # "floor" /\ ~active
  BY <1>1, <1>2 DEF NextPass
<1>3. ~Start /\ ~InitFails
  BY DEF Start, InitFails, IInv, StartOrder
<1>4. CASE InitAnswers
  <2>1. PICK fallback : \/ UNCHANGED loop
                        \/ Begin(fallback)
    BY <1>4 DEF InitAnswers
  <2>2. loop # "burst"
    BY <1>4 DEF InitAnswers, IInv, StartOrder
  <2>. QED
    BY <1>1, <2>1, <2>2 DEF Begin
<1>5. CASE BatteryReady
  BY <1>1, <1>5 DEF BatteryReady, Begin
<1>6. CASE BurstDone
  BY <1>2, <1>6 DEF BurstDone
<1>7. CASE IdleOver \/ QuietOver
  BY <1>2, <1>7 DEF IdleOver, QuietOver
<1>8. ~BurstFails
  BY DEF BurstFails, End
<1>9. ~Revoke /\ ~Stop
  BY DEF Revoke, Stop, Call, IInv, EnvironmentOK
<1>10. ~LimitReached /\ ~ActivityChanges /\ ~HealthChanges /\ ~BatteryChanges
  BY DEF LimitReached, ActivityChanges, HealthChanges, BatteryChanges,
         environment, IInv, EnvironmentOK
<1>. QED
  BY <1>3, <1>4, <1>5, <1>6, <1>7, <1>8, <1>9, <1>10 DEF Next

\* A burst is only ever posted with every hard stop clear and the user quiet.
THEOREM BurstsRespectLimits == Spec => NoBurstPastALimit
<1>1. Spec => []IInv
  BY Invariance
<1>2. IInv /\ [Next]_vars =>
        [loop' = "burst" /\ UNCHANGED <<environment, calls>>
           => ~limitHit /\ battery # "floor" /\ ~active]_vars
  BY BurstStep
<1>. QED
  BY <1>1, <1>2, PTL DEF Spec, NoBurstPastALimit

-----------------------------------------------------------------------------
(* Types of the governor *)

\* The control variables that a pass assigns, and the events it dispatches.
TurnTypes ==
    /\ state \in States
    /\ stopFlag \in BOOLEAN
    /\ worker \in {"none", "live", "dead"}
    /\ loop \in {"none", "burst", "idle", "quiet", "exited"}
    /\ monitors \in SUBSET AllMonitors
    /\ backoff \in BOOLEAN
    /\ emitted \in Seq(EventNames)

\* Events are dispatched one after another.
LEMMA EventsAppend ==
    /\ \A from, to : Changed(from, to) \in Seq(EventNames)
    /\ \A a, b \in Seq(EventNames) : a \o b \in Seq(EventNames)
    /\ <<>> \in Seq(EventNames) /\ <<"tick">> \in Seq(EventNames)
    /\ <<"stopped">> \in Seq(EventNames) /\ <<"fallback">> \in Seq(EventNames)
    /\ <<"error">> \in Seq(EventNames)
<1>1. ASSUME NEW e \in EventNames PROVE <<e>> \in Seq(EventNames)
  OBVIOUS
<1>2. <<>> \in Seq(EventNames)
  OBVIOUS
<1>3. ASSUME NEW from, NEW to PROVE Changed(from, to) \in Seq(EventNames)
  BY <1>1, <1>2 DEF Changed, EventNames
<1>4. ASSUME NEW a \in Seq(EventNames), NEW b \in Seq(EventNames)
      PROVE  a \o b \in Seq(EventNames)
  BY ConcatProperties
<1>. QED
  BY <1>1, <1>2, <1>3, <1>4 DEF EventNames

\* _finish() keeps the types of what it assigns.
LEMMA FinishTypes ==
    ASSUME TypeOK, NEW final \in Final, NEW from, NEW before \in Seq(EventNames),
           Finish(final, from, before)
    PROVE  /\ state' \in States /\ stopFlag' \in BOOLEAN
           /\ worker' \in {"none", "live", "dead"}
           /\ monitors' \in SUBSET AllMonitors
           /\ emitted' \in Seq(EventNames)
<1>1. emitted' \in Seq(EventNames)
  BY EventsAppend DEF Finish
<1>. QED
  BY <1>1 DEF Finish, TypeOK, States

\* So does a pass.
LEMMA PassTypes ==
    ASSUME TypeOK, NEW from, NEW before \in Seq(EventNames), NEW on \in SUBSET AllMonitors,
           Pass(from, before, on)
    PROVE  TurnTypes'
<1>0. backoff \in BOOLEAN /\ Reduced \in BOOLEAN
  BY Zenon DEF TypeOK, Reduced
<1>1. ASSUME NEW final \in Final, End(final, from, before)
      PROVE  TurnTypes'
  BY <1>1, <1>0, FinishTypes DEF End, TurnTypes
<1>2. CASE Preempt(from, before, on)
  <2>1. emitted' \in Seq(EventNames)
    BY <1>2, EventsAppend DEF Preempt
  <2>. QED
    BY <1>2, <1>0, <2>1 DEF Preempt, TurnTypes, TypeOK, States
<1>3. CASE PostBurst(from, before, on)
  <2>1. backoff' \in BOOLEAN
    BY <1>3, <1>0, Zenon DEF PostBurst
  <2>2. CASE worker = "live"
    <3>1. emitted' \in Seq(EventNames)
      BY <1>3, <2>2, EventsAppend DEF PostBurst
    <3>2. Resumed(from) \in States
      BY DEF Resumed, States
    <3>. QED
      BY <1>3, <2>1, <2>2, <3>1, <3>2 DEF PostBurst, TurnTypes
  <2>3. CASE worker # "live"
    <3>1. PICK before2 \in Seq(EventNames) : Finish("stopped", Resumed(from), before2)
      BY <1>3, <2>3, EventsAppend DEF PostBurst
    <3>2. "stopped" \in Final
      BY DEF Final
    <3>. QED
      BY <1>3, <2>1, <2>3, <3>1, <3>2, FinishTypes DEF PostBurst, TurnTypes
  <2>. QED
    BY <2>2, <2>3
<1>. QED
  BY <1>1, <1>2, <1>3 DEF Pass, Final

\* And the head of the loop.
LEMMA NextPassTypes ==
    ASSUME TypeOK, NEW before \in Seq(EventNames), NextPass(before)
    PROVE  TurnTypes'
<1>1. CASE stopFlag
  BY <1>1 DEF NextPass, TurnTypes, TypeOK
<1>2. CASE ~stopFlag
  BY <1>2, PassTypes DEF NextPass, TypeOK
<1>. QED
  BY <1>1, <1>2

\* Every turn of the governor keeps its types.
LEMMA TypeStep == TypeOK /\ [Next]_vars => TypeOK'
<1>. SUFFICES ASSUME TypeOK, [Next]_vars PROVE TypeOK'
  OBVIOUS
<1>. DEFINE E == <<admitted, limitHit, active, hot>> \in BOOLEAN \X BOOLEAN \X BOOLEAN \X BOOLEAN
<1>. DEFINE B == battery \in BatteryLevels \cup {"none"}
<1>. DEFINE S == starting \in {"uncalled", "denied", "init", "battery", "returned", "threw"}
<1>1. ASSUME TurnTypes', S', UNCHANGED <<environment, calls>>
      PROVE  TypeOK'
  BY <1>1 DEF TurnTypes, TypeOK, environment
<1>2. TurnTypes /\ S /\ E /\ B /\ calls \in 0 .. MaxCalls
  BY DEF TurnTypes, TypeOK
<1>3. CASE Start
  <2>1. emitted' \in Seq(EventNames)
    <3>1. emitted' = <<>> \/ emitted' = Changed(state, "denied")
      BY <1>3 DEF Start
    <3>2. Changed(state, "denied") \in Seq(EventNames) /\ <<>> \in Seq(EventNames)
      BY EventsAppend
    <3>. QED
      BY <3>1, <3>2
  <2>2. state' \in States
    BY <1>2, <1>3 DEF Start, States, TurnTypes
  <2>3. worker' \in {"none", "live", "dead"} /\ S'
    BY <1>2, <1>3 DEF Start, TurnTypes
  <2>4. UNCHANGED <<stopFlag, loop, monitors, backoff, environment, calls>>
    BY <1>3 DEF Start
  <2>5. TurnTypes'
    BY <1>2, <2>1, <2>2, <2>3, <2>4 DEF TurnTypes
  <2>. QED
    BY <1>1, <2>3, <2>4, <2>5
<1>4. ASSUME NEW before \in Seq(EventNames), Begin(before)
      PROVE  TurnTypes' /\ S'
  <2>1. before \o Changed(state, "running") \in Seq(EventNames)
    BY EventsAppend
  <2>2. starting' = "returned" /\ Pass("running", before \o Changed(state, "running"), AllMonitors)
    BY <1>4 DEF Begin
  <2>. QED
    BY <2>1, <2>2, PassTypes
<1>5. CASE InitAnswers
  <2>1. PICK fallback \in {<<>>, <<"fallback">>} :
          IF battery # "none"
          THEN /\ starting' = "battery"
               /\ emitted' = fallback
               /\ UNCHANGED <<state, stopFlag, worker, loop, monitors, backoff>>
          ELSE Begin(fallback)
    BY <1>5 DEF InitAnswers
  <2>2. fallback \in Seq(EventNames)
    BY EventsAppend
  <2>3. UNCHANGED <<environment, calls>>
    BY <1>5 DEF InitAnswers
  <2>4. CASE battery # "none"
    BY <1>1, <1>2, <2>1, <2>2, <2>3, <2>4 DEF TurnTypes
  <2>5. CASE battery = "none"
    BY <1>1, <1>4, <2>1, <2>2, <2>3, <2>5
  <2>. QED
    BY <2>4, <2>5
<1>6. CASE InitFails
  BY <1>1, <1>2, <1>6, EventsAppend DEF InitFails, TurnTypes
<1>7. CASE BatteryReady
  BY <1>1, <1>4, <1>7, EventsAppend DEF BatteryReady
<1>8. CASE BurstDone
  <2>1. PICK tick \in Ticks :
          \/ /\ loop' = "idle"
             /\ emitted' = tick
             /\ UNCHANGED <<state, stopFlag, worker, monitors, backoff>>
          \/ NextPass(tick)
    BY <1>8 DEF BurstDone
  <2>2. tick \in Seq(EventNames)
    BY EventsAppend DEF Ticks
  <2>3. TurnTypes'
    BY <1>2, <2>1, <2>2, NextPassTypes DEF TurnTypes
  <2>. QED
    BY <1>1, <1>2, <1>8, <2>3 DEF BurstDone
<1>9. CASE BurstFails
  <2>1. Finish("stopped", state, <<"error">>) /\ loop' = "exited" /\ UNCHANGED backoff
    BY <1>9 DEF BurstFails, End
  <2>2. "stopped" \in Final
    BY DEF Final
  <2>3. TurnTypes'
    BY <1>2, <2>1, <2>2, FinishTypes, EventsAppend DEF TurnTypes
  <2>. QED
    BY <1>1, <1>2, <1>9, <2>3 DEF BurstFails
<1>10. CASE IdleOver
  <2>1. TurnTypes'
    BY <1>10, NextPassTypes, EventsAppend DEF IdleOver
  <2>. QED
    BY <1>1, <1>2, <1>10, <2>1 DEF IdleOver
<1>11. CASE QuietOver
  <2>1. TurnTypes'
    BY <1>11, NextPassTypes, EventsAppend DEF QuietOver, Ticks
  <2>. QED
    BY <1>1, <1>2, <1>11, <2>1 DEF QuietOver
<1>12. ASSUME NEW final \in Final, Call(final)
       PROVE  TypeOK'
  <2>1. Finish(final, state, <<>>) /\ UNCHANGED <<starting, loop, backoff, environment>>
    BY <1>12 DEF Call
  <2>2. TurnTypes'
    BY <1>2, <2>1, FinishTypes, EventsAppend DEF TurnTypes
  <2>3. calls' \in 0 .. MaxCalls
    BY <1>2, <1>12, GovernorAssumption DEF Call
  <2>. QED
    BY <1>2, <2>1, <2>2, <2>3 DEF TurnTypes, TypeOK, environment
<1>13. CASE Revoke \/ Stop
  BY <1>12, <1>13 DEF Revoke, Stop, Final
<1>14. CASE LimitReached \/ ActivityChanges \/ HealthChanges \/ BatteryChanges
  <2>1. UNCHANGED <<state, stopFlag, worker, starting, loop, monitors, calls>>
    BY <1>14 DEF LimitReached, ActivityChanges, HealthChanges, BatteryChanges, control
  <2>2. emitted' = <<>>
    BY <1>14 DEF LimitReached, ActivityChanges, HealthChanges, BatteryChanges
  <2>3. backoff' \in BOOLEAN
    <3>1. backoff \in BOOLEAN /\ hot \in BOOLEAN
      BY <1>2 DEF TurnTypes
    <3>2. CASE BatteryChanges
      BY <3>1, <3>2, Zenon DEF BatteryChanges
    <3>3. CASE LimitReached \/ ActivityChanges \/ HealthChanges
      BY <3>1, <3>3 DEF LimitReached, ActivityChanges, HealthChanges, control
    <3>. QED
      BY <1>14, <3>2, <3>3
  <2>4. E'
    <3>1. /\ admitted \in BOOLEAN /\ limitHit \in BOOLEAN
          /\ active \in BOOLEAN /\ hot \in BOOLEAN
      BY <1>2
    <3>2. /\ admitted' \in BOOLEAN /\ limitHit' \in BOOLEAN
          /\ active' \in BOOLEAN /\ hot' \in BOOLEAN
      BY <1>14, <3>1, Zenon DEF LimitReached, ActivityChanges, HealthChanges, BatteryChanges
    <3>. QED
      BY <3>2
  <2>5. B'
    BY <1>2, <1>14 DEF LimitReached, ActivityChanges, HealthChanges, BatteryChanges
  <2>. QED
    BY <1>2, <2>1, <2>2, <2>3, <2>4, <2>5, EventsAppend DEF TurnTypes, TypeOK
<1>15. CASE UNCHANGED vars
  BY <1>2, <1>15 DEF vars, control, environment, TypeOK
<1>. QED
  BY <1>3, <1>5, <1>6, <1>7, <1>8, <1>9, <1>10, <1>11, <1>13, <1>14, <1>15 DEF Next

\* The initial states have the types.
LEMMA InitialTypes == Init => TypeOK
<1>1. Init => <<admitted, limitHit, active, hot>>
                \in BOOLEAN \X BOOLEAN \X BOOLEAN \X BOOLEAN
  <2>1. Init => /\ admitted \in BOOLEAN /\ limitHit \in BOOLEAN
                /\ active \in BOOLEAN /\ hot \in BOOLEAN
    BY Zenon DEF Init
  <2>. QED
    BY <2>1
<1>2. Init => emitted \in Seq(EventNames) /\ calls \in 0 .. MaxCalls
  BY EventsAppend, GovernorAssumption DEF Init
<1>. QED
  BY <1>1, <1>2 DEF Init, TypeOK, States

\* Type correctness of the governor, for any number of stop calls.
THEOREM GovernorTypes == Spec => []TypeOK
BY InitialTypes, TypeStep, PTL DEF Spec

-----------------------------------------------------------------------------
(* A session is a governor *)

\* An init reply is one of the two ways in which start() resumes.
LEMMA DeliverIsATurn == Deliver => [Next]_vars
<1>. SUFFICES ASSUME Deliver PROVE [Next]_vars
  OBVIOUS
<1>. DEFINE reply == Head(replies)
<1>1. NoTurn \/ InitReply(reply) \/ BurstReply(reply)
  BY DEF Deliver
<1>2. CASE NoTurn
  BY <1>2 DEF NoTurn
<1>3. CASE InitReply(reply)
  BY <1>3 DEF InitReply, Next
<1>4. CASE BurstReply(reply)
  BY <1>4 DEF BurstReply, Next
<1>. QED
  BY <1>1, <1>2, <1>3, <1>4

\* Every step of a session is a turn of the governor or leaves it alone.
LEMMA SessionStepIsATurn == [SessionNext]_sessionVars => [Next]_vars
<1>. SUFFICES ASSUME [SessionNext]_sessionVars PROVE [Next]_vars
  OBVIOUS
<1>1. CASE StartCalls
  BY <1>1 DEF StartCalls, Next
<1>2. CASE Deliver
  BY <1>2, DeliverIsATurn
<1>3. CASE BatteryTurn \/ TimerTurn \/ CallTurn
  BY <1>3 DEF BatteryTurn, TimerTurn, CallTurn, Next
<1>4. CASE Surroundings
  BY <1>4 DEF Surroundings, Next
<1>5. CASE Sample
  BY <1>5 DEF Sample, NoTurn
<1>6. CASE WorkerHandles \/ \E type \in Types : WorkerSettles(type)
  BY <1>6 DEF WorkerHandles, WorkerSettles
<1>7. CASE UNCHANGED sessionVars
  BY <1>7 DEF sessionVars
<1>. QED
  BY <1>1, <1>2, <1>3, <1>4, <1>5, <1>6, <1>7 DEF SessionNext

\* Whatever the worker and its queues do, the governor in a session behaves as
\* Governor says: what is proved of it above holds of every session.
THEOREM SessionImplementsGovernor == SessionSpec => Spec
<1>1. SessionInit => Init
  BY DEF SessionInit
<1>. QED
  BY <1>1, SessionStepIsATurn, PTL DEF SessionSpec, Spec

-----------------------------------------------------------------------------
(* The channel *)

Request == [id : Ids, type : Types]
ReplyType == [id : Ids, type : Types, ok : BOOLEAN, fellBack : BOOLEAN, right : BOOLEAN]
Task == [id : Ids, type : Types, right : BOOLEAN]
CallType == [type : Types, afterBurst : BOOLEAN]

IdsIn(queue) == {queue[k].id : k \in DOMAIN queue}
IdsOf(set) == {t.id : t \in set}

Distinct(queue) == \A j, k \in DOMAIN queue : queue[j].id = queue[k].id => j = k

\* One message for each pending call, in one place and of the call's type.
Matched(rq, ts, rp, pd) ==
    /\ rq \in Seq(Request) /\ rp \in Seq(ReplyType) /\ ts \subseteq Task
    /\ Distinct(rq) /\ Distinct(rp)
    /\ \A s, t \in ts : s.id = t.id => s = t
    /\ IdsIn(rq) \cap IdsOf(ts) = {}
    /\ IdsIn(rq) \cap IdsIn(rp) = {}
    /\ IdsOf(ts) \cap IdsIn(rp) = {}
    /\ DOMAIN pd = IdsIn(rq) \cup IdsOf(ts) \cup IdsIn(rp)
    /\ \A k \in DOMAIN rq : rq[k].type = pd[rq[k].id].type
    /\ \A t \in ts : t.type = pd[t.id].type
    /\ \A k \in DOMAIN rp : rp[k].type = pd[rp[k].id].type

\* Where a sample asked for after a burst is, the burst is before it, or it is
\* done: the buffers hold its product, or are not those a sample is read from.
Behind(rq, ts, rp, pd, done) ==
    /\ \A k \in DOMAIN rq :
          rq[k].type = "sample" /\ pd[rq[k].id].afterBurst
            => done \/ \E j \in 1 .. k - 1 : rq[j].type = "burst"
    /\ \A t \in ts : t.type = "sample" /\ pd[t.id].afterBurst => t.right
    /\ \A k \in DOMAIN rp :
          rp[k].type = "sample" /\ rp[k].ok /\ pd[rp[k].id].afterBurst => rp[k].right

ProductHeld == computed \/ path # buffers

\* A worker that runs has exactly the pending calls before it; one that is
\* gone, or is not there yet, has none.
ChannelOK ==
    /\ worker = "live" => /\ Matched(requests, tasks, replies, pending)
                          /\ Behind(requests, tasks, replies, pending, ProductHeld)
    /\ worker # "live" => requests = <<>> /\ replies = <<>> /\ tasks = {}
    /\ worker = "none" => DOMAIN pending = {}

MemoryOK ==
    /\ path \in {"gpu", "cpu"} /\ buffers \in {"none", "gpu", "cpu"}
    /\ computed \in BOOLEAN
    /\ requested \in {"gpu", "cpu"}

PendingOK ==
    /\ DOMAIN pending \subseteq Ids
    /\ \A i \in DOMAIN pending : pending[i] \in CallType

CallsOf(type) == {i \in DOMAIN pending : pending[i].type = type}

\* What start() and the loop await is pending, once; samples are bounded.
Awaited ==
    /\ worker = "live" => \A i, j \in CallsOf("burst") : i = j
    /\ worker = "live" => \A i, j \in CallsOf("init") : i = j
    /\ worker = "live" => (loop = "burst" <=> CallsOf("burst") # {})
    /\ worker = "live" => (starting = "init" <=> CallsOf("init") # {})
    /\ Cardinality(CallsOf("sample")) <= MaxSamples

\* Nothing is computed before the loop runs.
ComputedLate ==
    /\ computed => starting = "returned"
    /\ \A i \in DOMAIN pending : pending[i].afterBurst => starting = "returned"

ChannelInv ==
    /\ IInv
    /\ TypeOK
    /\ MemoryOK
    /\ PendingOK
    /\ ChannelOK
    /\ Awaited
    /\ ComputedLate

\* A message at the end of a queue, under an id that none in it has.
LEMMA QueueAppend ==
    ASSUME NEW S, NEW q \in Seq(S), NEW m \in S, Distinct(q), m.id \notin IdsIn(q)
    PROVE  /\ Append(q, m) \in Seq(S)
           /\ DOMAIN Append(q, m) = DOMAIN q \cup {Len(q) + 1}
           /\ \A k \in DOMAIN q : Append(q, m)[k] = q[k]
           /\ Append(q, m)[Len(q) + 1] = m
           /\ Distinct(Append(q, m))
           /\ IdsIn(Append(q, m)) = IdsIn(q) \cup {m.id}
<1>1. /\ Append(q, m) \in Seq(S)
      /\ DOMAIN Append(q, m) = DOMAIN q \cup {Len(q) + 1}
      /\ \A k \in DOMAIN q : Append(q, m)[k] = q[k]
      /\ Append(q, m)[Len(q) + 1] = m
  OBVIOUS
<1>2. Distinct(Append(q, m))
  BY <1>1 DEF Distinct, IdsIn
<1>3. IdsIn(Append(q, m)) = IdsIn(q) \cup {m.id}
  BY <1>1 DEF IdsIn
<1>. QED
  BY <1>1, <1>2, <1>3

\* A queue without its oldest message.
LEMMA QueueTail ==
    ASSUME NEW S, NEW q \in Seq(S), q # <<>>, Distinct(q)
    PROVE  /\ Tail(q) \in Seq(S) /\ Head(q) \in S
           /\ 1 \in DOMAIN q /\ q[1] = Head(q)
           /\ Head(q).id \in IdsIn(q)
           /\ \A k \in DOMAIN Tail(q) : k + 1 \in DOMAIN q /\ Tail(q)[k] = q[k + 1]
           /\ \A k \in DOMAIN q : k # 1 => k - 1 \in DOMAIN Tail(q) /\ Tail(q)[k - 1] = q[k]
           /\ Distinct(Tail(q))
           /\ IdsIn(Tail(q)) = IdsIn(q) \ {Head(q).id}
<1>1. /\ Tail(q) \in Seq(S) /\ Head(q) \in S
      /\ 1 \in DOMAIN q /\ q[1] = Head(q)
      /\ \A k \in DOMAIN Tail(q) : k \in Nat /\ k # 0 /\ k + 1 \in DOMAIN q /\ Tail(q)[k] = q[k + 1]
      /\ \A k \in DOMAIN q : k # 1 => k - 1 \in DOMAIN Tail(q) /\ Tail(q)[k - 1] = q[k]
  OBVIOUS
<1>2. Head(q).id \in IdsIn(q)
  BY <1>1 DEF IdsIn
<1>3. Distinct(Tail(q))
  BY <1>1 DEF Distinct
<1>4. IdsIn(Tail(q)) \subseteq IdsIn(q) \ {Head(q).id}
  <2>1. ASSUME NEW k \in DOMAIN Tail(q)
        PROVE  Tail(q)[k].id \in IdsIn(q) /\ Tail(q)[k].id # Head(q).id
    <3>1. k + 1 \in DOMAIN q /\ Tail(q)[k] = q[k + 1] /\ k + 1 # 1
      BY <1>1
    <3>. QED
      BY <1>1, <3>1 DEF Distinct, IdsIn
  <2>. QED
    BY <2>1 DEF IdsIn
<1>5. IdsIn(q) \ {Head(q).id} \subseteq IdsIn(Tail(q))
  <2>1. ASSUME NEW k \in DOMAIN q, q[k].id # Head(q).id
        PROVE  q[k].id \in IdsIn(Tail(q))
    <3>1. k - 1 \in DOMAIN Tail(q) /\ Tail(q)[k - 1] = q[k]
      BY <1>1, <2>1
    <3>. QED
      BY <3>1 DEF IdsIn
  <2>. QED
    BY <2>1 DEF IdsIn
<1>. QED
  BY <1>1, <1>2, <1>3, <1>4, <1>5

\* The page takes the oldest reply and settles its call.
LEMMA ReplyTaken ==
    ASSUME NEW rq, NEW ts, NEW rp, NEW pd, NEW done,
           Matched(rq, ts, rp, pd), Behind(rq, ts, rp, pd, done), rp # <<>>
    PROVE  LET pd2 == [i \in DOMAIN pd \ {Head(rp).id} |-> pd[i]]
           IN  /\ Head(rp).id \in DOMAIN pd
               /\ Head(rp).type = pd[Head(rp).id].type
               /\ Matched(rq, ts, Tail(rp), pd2)
               /\ Behind(rq, ts, Tail(rp), pd2, done)
<1>. DEFINE id == Head(rp).id
<1>. DEFINE pd2 == [i \in DOMAIN pd \ {id} |-> pd[i]]
<1>1. /\ Tail(rp) \in Seq(ReplyType) /\ Head(rp) \in ReplyType
      /\ 1 \in DOMAIN rp /\ rp[1] = Head(rp)
      /\ id \in IdsIn(rp)
      /\ \A k \in DOMAIN Tail(rp) : k + 1 \in DOMAIN rp /\ Tail(rp)[k] = rp[k + 1]
      /\ Distinct(Tail(rp))
      /\ IdsIn(Tail(rp)) = IdsIn(rp) \ {id}
  BY QueueTail DEF Matched
<1>2. id \in DOMAIN pd /\ Head(rp).type = pd[id].type
  BY <1>1 DEF Matched
<1>3. \A k \in DOMAIN rq : rq[k].id \in IdsIn(rq) /\ rq[k].id # id /\ rq[k].id \in DOMAIN pd
  BY <1>1 DEF Matched, IdsIn
<1>4. \A t \in ts : t.id \in IdsOf(ts) /\ t.id # id /\ t.id \in DOMAIN pd
  BY <1>1 DEF Matched, IdsOf
<1>5. \A k \in DOMAIN Tail(rp) : Tail(rp)[k].id # id /\ Tail(rp)[k].id \in DOMAIN pd
  <2>1. \A k \in DOMAIN Tail(rp) : Tail(rp)[k].id \in IdsIn(Tail(rp))
    BY DEF IdsIn
  <2>. QED
    BY <1>1, <2>1 DEF Matched
<1>6. \A i \in DOMAIN pd : i # id => i \in DOMAIN pd2 /\ pd2[i] = pd[i]
  OBVIOUS
<1>7. DOMAIN pd2 = IdsIn(rq) \cup IdsOf(ts) \cup IdsIn(Tail(rp))
  BY <1>1 DEF Matched
<1>. HIDE DEF pd2
<1>8. Matched(rq, ts, Tail(rp), pd2)
  BY <1>1, <1>3, <1>4, <1>5, <1>6, <1>7 DEF Matched
<1>9. Behind(rq, ts, Tail(rp), pd2, done)
  BY <1>1, <1>3, <1>4, <1>5, <1>6 DEF Behind
<1>. QED
  BY <1>2, <1>8, <1>9 DEF pd2

\* The page posts a call under a free id.
LEMMA CallPosted ==
    ASSUME NEW rq, NEW ts, NEW rp, NEW pd, NEW done,
           Matched(rq, ts, rp, pd), Behind(rq, ts, rp, pd, done),
           NEW id \in Ids, id \notin DOMAIN pd, NEW type \in Types, NEW after,
           type = "sample" /\ after
             => done \/ \E j \in DOMAIN rq : rq[j].type = "burst"
    PROVE  LET rq2 == Append(rq, [id |-> id, type |-> type])
               pd2 == [i \in DOMAIN pd \cup {id} |->
                         IF i = id THEN [type |-> type, afterBurst |-> after] ELSE pd[i]]
           IN  Matched(rq2, ts, rp, pd2) /\ Behind(rq2, ts, rp, pd2, done)
<1>. DEFINE m == [id |-> id, type |-> type]
            rq2 == Append(rq, m)
            pd2 == [i \in DOMAIN pd \cup {id} |->
                      IF i = id THEN [type |-> type, afterBurst |-> after] ELSE pd[i]]
<1>1. m \in Request /\ m.id = id /\ m.type = type /\ id \notin IdsIn(rq)
  BY DEF Request, Matched
<1>. HIDE DEF m
<1>2. /\ rq2 \in Seq(Request)
      /\ DOMAIN rq2 = DOMAIN rq \cup {Len(rq) + 1}
      /\ \A k \in DOMAIN rq : rq2[k] = rq[k]
      /\ rq2[Len(rq) + 1] = m
      /\ Distinct(rq2)
      /\ IdsIn(rq2) = IdsIn(rq) \cup {id}
  BY <1>1, QueueAppend DEF Matched
<1>3. /\ \A i \in DOMAIN pd : pd2[i] = pd[i]
      /\ pd2[id].type = type /\ pd2[id].afterBurst = after
      /\ DOMAIN pd2 = DOMAIN pd \cup {id}
  OBVIOUS
<1>4. \A k \in DOMAIN rq : rq[k].id \in DOMAIN pd
  BY DEF Matched, IdsIn
<1>5. \A t \in ts : t.id \in DOMAIN pd
  BY DEF Matched, IdsOf
<1>6. \A k \in DOMAIN rp : rp[k].id \in DOMAIN pd
  BY DEF Matched, IdsIn
<1>7. DOMAIN rq = 1 .. Len(rq) /\ Len(rq) \in Nat
  BY DEF Matched
<1>. HIDE DEF pd2, rq2
<1>8. Matched(rq2, ts, rp, pd2)
  BY <1>1, <1>2, <1>3, <1>4, <1>5, <1>6 DEF Matched
<1>9. ASSUME NEW k \in DOMAIN rq2, rq2[k].type = "sample", pd2[rq2[k].id].afterBurst
      PROVE  done \/ \E j \in 1 .. k - 1 : rq2[j].type = "burst"
  <2>1. CASE k \in DOMAIN rq
    <3>1. rq[k].type = "sample" /\ pd[rq[k].id].afterBurst
      BY <1>2, <1>3, <1>4, <1>9, <2>1
    <3>2. done \/ \E j \in 1 .. k - 1 : rq[j].type = "burst"
      BY <2>1, <3>1 DEF Behind
    <3>. QED
      BY <1>2, <1>7, <2>1, <3>2
  <2>2. CASE k = Len(rq) + 1
    <3>1. done \/ \E j \in DOMAIN rq : rq[j].type = "burst"
      BY <1>1, <1>2, <1>3, <1>9, <2>2
    <3>. QED
      BY <1>2, <1>7, <2>2, <3>1
  <2>. QED
    BY <1>2, <2>1, <2>2
<1>10. Behind(rq2, ts, rp, pd2, done)
  BY <1>3, <1>5, <1>6, <1>9 DEF Behind
<1>. QED
  BY <1>8, <1>10 DEF pd2, rq2, m

\* What the oldest request is, before the worker handles it.
LEMMA RequestTaken ==
    ASSUME NEW rq, NEW ts, NEW rp, NEW pd, NEW done,
           Matched(rq, ts, rp, pd), Behind(rq, ts, rp, pd, done), rq # <<>>
    PROVE  /\ Head(rq) \in Request
           /\ Head(rq).id \in DOMAIN pd
           /\ Head(rq).type = pd[Head(rq).id].type
           /\ Head(rq).type = "sample" /\ pd[Head(rq).id].afterBurst => done
<1>1. Head(rq) \in Request /\ 1 \in DOMAIN rq /\ rq[1] = Head(rq) /\ rq[1].id \in IdsIn(rq)
  BY QueueTail DEF Matched
<1>2. Head(rq).type = "sample" /\ pd[Head(rq).id].afterBurst => done
  <2>1. 1 .. 1 - 1 = {}
    OBVIOUS
  <2>. QED
    BY <1>1, <2>1 DEF Behind
<1>. QED
  BY <1>1, <1>2 DEF Matched

\* Either later requests lose nothing, or none is about a burst.
Handled(rq, pd, done, done2) ==
    \/ done \/ Head(rq).type = "burst" => done2
    \/ \A i \in DOMAIN pd : ~pd[i].afterBurst

\* The requests behind the one that is handled.
LEMMA RequestsBehind ==
    ASSUME NEW rq, NEW ts, NEW rp, NEW pd, NEW done, NEW done2,
           Matched(rq, ts, rp, pd), Behind(rq, ts, rp, pd, done), rq # <<>>,
           Handled(rq, pd, done, done2)
    PROVE  /\ Tail(rq) \in Seq(Request)
           /\ Distinct(Tail(rq))
           /\ IdsIn(Tail(rq)) = IdsIn(rq) \ {Head(rq).id}
           /\ Head(rq).id \in IdsIn(rq)
           /\ \A k \in DOMAIN Tail(rq) : Tail(rq)[k].type = pd[Tail(rq)[k].id].type
           /\ \A k \in DOMAIN Tail(rq) :
                 Tail(rq)[k].type = "sample" /\ pd[Tail(rq)[k].id].afterBurst
                   => done2 \/ \E j \in 1 .. k - 1 : Tail(rq)[j].type = "burst"
<1>1. /\ Tail(rq) \in Seq(Request)
      /\ 1 \in DOMAIN rq /\ rq[1] = Head(rq)
      /\ Head(rq).id \in IdsIn(rq)
      /\ \A k \in DOMAIN Tail(rq) : k + 1 \in DOMAIN rq /\ Tail(rq)[k] = rq[k + 1]
      /\ Distinct(Tail(rq))
      /\ IdsIn(Tail(rq)) = IdsIn(rq) \ {Head(rq).id}
  BY QueueTail DEF Matched
<1>2. DOMAIN Tail(rq) = 1 .. Len(rq) - 1 /\ DOMAIN rq = 1 .. Len(rq) /\ Len(rq) \in Nat
  BY <1>1 DEF Matched
<1>3. \A k \in DOMAIN Tail(rq) : Tail(rq)[k].type = pd[Tail(rq)[k].id].type
  BY <1>1 DEF Matched
<1>4. ASSUME NEW k \in DOMAIN Tail(rq),
             Tail(rq)[k].type = "sample", pd[Tail(rq)[k].id].afterBurst
      PROVE  done2 \/ \E j \in 1 .. k - 1 : Tail(rq)[j].type = "burst"
  <2>1. CASE \A i \in DOMAIN pd : ~pd[i].afterBurst
    <3>1. Tail(rq)[k].id \in DOMAIN pd
      BY <1>1 DEF Matched, IdsIn
    <3>. QED
      BY <1>4, <2>1, <3>1
  <2>2. CASE done \/ Head(rq).type = "burst" => done2
    <3>1. done \/ \E j \in 1 .. (k + 1) - 1 : rq[j].type = "burst"
      BY <1>1, <1>4 DEF Behind
    <3>2. CASE done
      BY <2>2, <3>2
    <3>3. CASE \E j \in 1 .. (k + 1) - 1 : rq[j].type = "burst"
      <4>1. PICK j \in 1 .. (k + 1) - 1 : rq[j].type = "burst"
        BY <3>3
      <4>2. CASE j = 1
        BY <1>1, <2>2, <4>1, <4>2
      <4>3. CASE j # 1
        <5>1. j - 1 \in 1 .. k - 1 /\ j - 1 \in DOMAIN Tail(rq) /\ (j - 1) + 1 = j
          BY <1>2, <4>1, <4>3
        <5>2. Tail(rq)[j - 1] = rq[j]
          BY <1>1, <5>1
        <5>. QED
          BY <4>1, <5>1, <5>2
      <4>. QED
        BY <4>2, <4>3
    <3>. QED
      BY <3>1, <3>2, <3>3
  <2>. QED
    BY <2>1, <2>2 DEF Handled
<1>. QED
  BY <1>1, <1>3, <1>4

\* The worker handles a request to its end.
LEMMA RequestAnswered ==
    ASSUME NEW rq, NEW ts, NEW rp, NEW pd, NEW done, NEW done2,
           Matched(rq, ts, rp, pd), Behind(rq, ts, rp, pd, done), rq # <<>>,
           Handled(rq, pd, done, done2),
           NEW r \in ReplyType, r.id = Head(rq).id, r.type = Head(rq).type,
           r.type = "sample" /\ r.ok /\ pd[r.id].afterBurst => r.right
    PROVE  /\ Matched(Tail(rq), ts, Append(rp, r), pd)
           /\ Behind(Tail(rq), ts, Append(rp, r), pd, done2)
<1>. DEFINE rq2 == Tail(rq)
            rp2 == Append(rp, r)
<1>1. /\ rq2 \in Seq(Request)
      /\ Distinct(rq2)
      /\ IdsIn(rq2) = IdsIn(rq) \ {Head(rq).id}
      /\ Head(rq).id \in IdsIn(rq)
      /\ \A k \in DOMAIN rq2 : rq2[k].type = pd[rq2[k].id].type
      /\ \A k \in DOMAIN rq2 :
            rq2[k].type = "sample" /\ pd[rq2[k].id].afterBurst
              => done2 \/ \E j \in 1 .. k - 1 : rq2[j].type = "burst"
  BY RequestsBehind
<1>2. Head(rq).type = pd[Head(rq).id].type
  BY RequestTaken
<1>3. Head(rq).id \notin IdsIn(rp)
  BY <1>1 DEF Matched
<1>4. /\ rp2 \in Seq(ReplyType)
      /\ DOMAIN rp2 = DOMAIN rp \cup {Len(rp) + 1}
      /\ \A k \in DOMAIN rp : rp2[k] = rp[k]
      /\ rp2[Len(rp) + 1] = r
      /\ Distinct(rp2)
      /\ IdsIn(rp2) = IdsIn(rp) \cup {Head(rq).id}
  BY <1>3, QueueAppend DEF Matched
<1>. HIDE DEF rq2, rp2
<1>5. Matched(rq2, ts, rp2, pd)
  BY <1>1, <1>2, <1>4 DEF Matched
<1>6. Behind(rq2, ts, rp2, pd, done2)
  BY <1>1, <1>4 DEF Behind
<1>. QED
  BY <1>5, <1>6 DEF rq2, rp2

\* The worker handles a request up to its first await.
LEMMA RequestSuspended ==
    ASSUME NEW rq, NEW ts, NEW rp, NEW pd, NEW done, NEW done2,
           Matched(rq, ts, rp, pd), Behind(rq, ts, rp, pd, done), rq # <<>>,
           Handled(rq, pd, done, done2),
           NEW t \in Task, t.id = Head(rq).id, t.type = Head(rq).type,
           t.type = "sample" /\ pd[t.id].afterBurst => t.right
    PROVE  /\ Matched(Tail(rq), ts \cup {t}, rp, pd)
           /\ Behind(Tail(rq), ts \cup {t}, rp, pd, done2)
<1>. DEFINE rq2 == Tail(rq)
            ts2 == ts \cup {t}
<1>1. /\ rq2 \in Seq(Request)
      /\ Distinct(rq2)
      /\ IdsIn(rq2) = IdsIn(rq) \ {t.id}
      /\ t.id \in IdsIn(rq)
      /\ \A k \in DOMAIN rq2 : rq2[k].type = pd[rq2[k].id].type
      /\ \A k \in DOMAIN rq2 :
            rq2[k].type = "sample" /\ pd[rq2[k].id].afterBurst
              => done2 \/ \E j \in 1 .. k - 1 : rq2[j].type = "burst"
  BY RequestsBehind
<1>2. t.type = pd[t.id].type
  BY RequestTaken
<1>3. t.id \notin IdsOf(ts)
  BY <1>1 DEF Matched
<1>4. IdsOf(ts2) = IdsOf(ts) \cup {t.id}
  BY DEF IdsOf
<1>5. ts2 \subseteq Task /\ \A u, v \in ts2 : u.id = v.id => u = v
  <2>1. \A u \in ts : u.id # t.id
    BY <1>3 DEF IdsOf
  <2>. QED
    BY <2>1 DEF Matched
<1>6. Matched(rq2, ts2, rp, pd)
  <2>. HIDE DEF rq2
  <2>1. \A u \in ts2 : u.type = pd[u.id].type
    BY <1>2 DEF Matched
  <2>. HIDE DEF ts2
  <2>. QED
    BY <1>1, <1>4, <1>5, <2>1 DEF Matched
<1>7. Behind(rq2, ts2, rp, pd, done2)
  <2>. HIDE DEF rq2
  <2>. QED
    BY <1>1 DEF Behind
<1>. QED
  BY <1>6, <1>7

\* A suspended handler ends.
LEMMA TaskAnswered ==
    ASSUME NEW rq, NEW ts, NEW rp, NEW pd, NEW done, NEW done2,
           Matched(rq, ts, rp, pd), Behind(rq, ts, rp, pd, done),
           NEW m \in ts,
           done = done2 \/ \A i \in DOMAIN pd : ~pd[i].afterBurst,
           NEW r \in ReplyType, r.id = m.id, r.type = m.type,
           r.type = "sample" /\ r.ok => r.right = m.right
    PROVE  /\ Matched(rq, ts \ {m}, Append(rp, r), pd)
           /\ Behind(rq, ts \ {m}, Append(rp, r), pd, done2)
<1>. DEFINE rp2 == Append(rp, r)
            ts2 == ts \ {m}
<1>1. m.id \in IdsOf(ts)
  BY DEF IdsOf
<1>2. m.id \notin IdsIn(rp)
  BY <1>1 DEF Matched
<1>3. /\ rp2 \in Seq(ReplyType)
      /\ DOMAIN rp2 = DOMAIN rp \cup {Len(rp) + 1}
      /\ \A k \in DOMAIN rp : rp2[k] = rp[k]
      /\ rp2[Len(rp) + 1] = r
      /\ Distinct(rp2)
      /\ IdsIn(rp2) = IdsIn(rp) \cup {m.id}
  BY <1>2, QueueAppend DEF Matched
<1>. HIDE DEF rp2
<1>4. IdsOf(ts2) = IdsOf(ts) \ {m.id}
  BY DEF IdsOf, Matched
<1>5. m.type = pd[m.id].type /\ (r.type = "sample" /\ pd[r.id].afterBurst => m.right)
  BY DEF Matched, Behind
<1>6. ts2 \subseteq ts
  OBVIOUS
<1>. HIDE DEF ts2
<1>7. Matched(rq, ts2, rp2, pd)
  BY <1>1, <1>3, <1>4, <1>5, <1>6 DEF Matched
<1>8. ASSUME NEW k \in DOMAIN rq, rq[k].type = "sample", pd[rq[k].id].afterBurst
      PROVE  done2 \/ \E j \in 1 .. k - 1 : rq[j].type = "burst"
  <2>1. rq[k].id \in DOMAIN pd
    BY DEF Matched, IdsIn
  <2>2. done = done2
    BY <1>8, <2>1
  <2>3. done \/ \E j \in 1 .. k - 1 : rq[j].type = "burst"
    BY <1>8 DEF Behind
  <2>. QED
    BY <2>2, <2>3
<1>9. r.type = "sample" /\ r.ok /\ pd[r.id].afterBurst => r.right
  BY <1>5
<1>10. Behind(rq, ts2, rp2, pd, done2)
  BY <1>3, <1>6, <1>8, <1>9 DEF Behind
<1>. QED
  BY <1>7, <1>10 DEF ts2, rp2

\* What is left to keep once the governor's own invariants are kept.
ChannelRest == MemoryOK /\ PendingOK /\ ChannelOK /\ Awaited /\ ComputedLate

\* There are finitely many calls.
LEMMA CallsFinite ==
    ASSUME PendingOK
    PROVE  /\ IsFiniteSet(Ids) /\ Cardinality(Ids) = MaxSamples + 2
           /\ \A S \in SUBSET DOMAIN pending : IsFiniteSet(S) /\ Cardinality(S) \in Nat
<1>1. IsFiniteSet(Ids) /\ Cardinality(Ids) = MaxSamples + 2
  BY FS_Interval, SessionAssumption DEF Ids
<1>2. ASSUME NEW S \in SUBSET DOMAIN pending
      PROVE  IsFiniteSet(S) /\ Cardinality(S) \in Nat
  BY <1>1, FS_Subset, FS_CardinalityType DEF PendingOK
<1>. QED
  BY <1>1, <1>2

\* An id is free whenever at most one call other than samples is pending.
LEMMA FreshFacts ==
    ASSUME PendingOK, Cardinality(CallsOf("sample")) <= MaxSamples,
           NEW x, DOMAIN pending \subseteq CallsOf("sample") \cup {x}
    PROVE  FreshId \in Ids /\ FreshId \notin DOMAIN pending
<1>. DEFINE S == CallsOf("sample")
<1>1. S \subseteq DOMAIN pending
  BY DEF CallsOf
<1>2. IsFiniteSet(S) /\ Cardinality(S) \in Nat
  BY <1>1, CallsFinite
<1>3. /\ IsFiniteSet(S \cup {x})
      /\ Cardinality(S \cup {x}) <= Cardinality(S) + 1
      /\ Cardinality(S \cup {x}) \in Nat
  BY <1>2, FS_AddElement, FS_CardinalityType
<1>4. ~(Ids \subseteq DOMAIN pending)
  <2>1. SUFFICES ASSUME Ids \subseteq S \cup {x} PROVE FALSE
    OBVIOUS
  <2>2. Cardinality(Ids) <= Cardinality(S \cup {x})
    BY <1>3, <2>1, FS_Subset
  <2>3. Cardinality(Ids) = MaxSamples + 2
    BY CallsFinite
  <2>. QED
    BY <1>2, <1>3, <2>2, <2>3, SessionAssumption
<1>5. \E i \in Ids : i \notin DOMAIN pending
  BY <1>4
<1>. QED
  BY <1>5 DEF FreshId

\* Calls that are settled leave no more samples than there were.
LEMMA FewerSamples ==
    ASSUME PendingOK, NEW ids, pending' = Without(ids)
    PROVE  /\ PendingOK'
           /\ DOMAIN pending' = DOMAIN pending \ ids
           /\ \A i \in DOMAIN pending' : pending'[i] = pending[i]
           /\ \A type : CallsOf(type)' = CallsOf(type) \ ids
           /\ Cardinality(CallsOf("sample"))' <= Cardinality(CallsOf("sample"))
<1>1. /\ DOMAIN pending' = DOMAIN pending \ ids
      /\ \A i \in DOMAIN pending' : pending'[i] = pending[i]
  BY DEF Without
<1>2. PendingOK'
  BY <1>1 DEF PendingOK
<1>3. ASSUME NEW type PROVE CallsOf(type)' = CallsOf(type) \ ids
  BY <1>1 DEF CallsOf
<1>4. CallsOf("sample")' \subseteq CallsOf("sample") /\ IsFiniteSet(CallsOf("sample"))
  <2>1. CallsOf("sample") \in SUBSET DOMAIN pending
    BY DEF CallsOf
  <2>. QED
    BY <1>3, <2>1, CallsFinite
<1>5. Cardinality(CallsOf("sample"))' <= Cardinality(CallsOf("sample"))
  BY <1>4, FS_Subset
<1>. QED
  BY <1>1, <1>2, <1>3, <1>5

\* A turn that leaves no worker leaves no message either.
LEMMA TerminatedStep ==
    ASSUME ChannelInv, worker' # "live", worker' = "none" => worker = "none",
           starting = "returned" => starting' = "returned",
           NEW ids, pending' = Without(ids),
           Terminate, UNCHANGED requested
    PROVE  ChannelRest'
<1>1. /\ PendingOK'
      /\ DOMAIN pending' = DOMAIN pending \ ids
      /\ \A i \in DOMAIN pending' : pending'[i] = pending[i]
      /\ Cardinality(CallsOf("sample"))' <= Cardinality(CallsOf("sample"))
  BY FewerSamples DEF ChannelInv
<1>2. MemoryOK'
  BY DEF Terminate, MemoryOK, ChannelInv
<1>3. ChannelOK'
  BY <1>1 DEF Terminate, ChannelOK, ChannelInv
<1>4. Awaited'
  <2>1. /\ Cardinality(CallsOf("sample"))' \in Nat
        /\ Cardinality(CallsOf("sample")) \in Nat
    <3>1. CallsOf("sample") \in SUBSET DOMAIN pending
      BY DEF CallsOf
    <3>2. CallsOf("sample")' \in SUBSET DOMAIN pending
      BY <1>1 DEF CallsOf
    <3>. QED
      BY <3>1, <3>2, CallsFinite DEF ChannelInv
  <2>. QED
    BY <1>1, <2>1, SessionAssumption DEF Awaited, ChannelInv
<1>5. ComputedLate'
  BY <1>1 DEF Terminate, ComputedLate, ChannelInv
<1>. QED
  BY <1>1, <1>2, <1>3, <1>4, <1>5 DEF ChannelRest

\* The channel only looks at what the calls are.
LEMMA SameCalls ==
    ASSUME NEW rq, NEW ts, NEW rp, NEW pd, NEW pd2, NEW done,
           Matched(rq, ts, rp, pd), Behind(rq, ts, rp, pd, done),
           DOMAIN pd2 = DOMAIN pd, \A i \in DOMAIN pd : pd2[i] = pd[i]
    PROVE  Matched(rq, ts, rp, pd2) /\ Behind(rq, ts, rp, pd2, done)
<1>1. /\ \A k \in DOMAIN rq : rq[k].id \in DOMAIN pd
      /\ \A t \in ts : t.id \in DOMAIN pd
      /\ \A k \in DOMAIN rp : rp[k].id \in DOMAIN pd
  BY DEF Matched, IdsIn, IdsOf
<1>2. Matched(rq, ts, rp, pd2)
  BY <1>1 DEF Matched
<1>3. Behind(rq, ts, rp, pd2, done)
  BY <1>1 DEF Behind
<1>. QED
  BY <1>2, <1>3

\* Posting a call, once those of ids are settled and a fresh id is known.
LEMMA PostStep ==
    ASSUME PendingOK, NEW type \in Types, NEW ids, PostCall(type, ids),
           FreshId \in Ids, FreshId \notin DOMAIN pending,
           NEW done, NEW rp,
           Matched(requests, tasks, rp, Without(ids)),
           Behind(requests, tasks, rp, Without(ids), done),
           type = "sample" /\ BurstAhead
             => done \/ \E j \in DOMAIN requests : requests[j].type = "burst"
    PROVE  /\ Matched(requests', tasks, rp, pending')
           /\ Behind(requests', tasks, rp, pending', done)
           /\ DOMAIN pending' = (DOMAIN pending \ ids) \cup {FreshId}
           /\ \A i \in DOMAIN pending \ ids : pending'[i] = pending[i]
           /\ pending'[FreshId] = [type |-> type, afterBurst |-> BurstAhead]
           /\ PendingOK'
<1>1. DOMAIN Without(ids) = DOMAIN pending \ ids
      /\ \A i \in DOMAIN Without(ids) : Without(ids)[i] = pending[i]
  BY DEF Without
<1>2. PICK after \in BOOLEAN : after <=> BurstAhead
  BY Zenon
<1>3. after = BurstAhead
  <2>1. BurstAhead \in BOOLEAN
    BY Zenon DEF BurstAhead
  <2>. QED
    BY <1>2, <2>1, Zenon
<1>. DEFINE new == [i \in DOMAIN Without(ids) \cup {FreshId} |->
                      IF i = FreshId THEN [type |-> type, afterBurst |-> after]
                                     ELSE Without(ids)[i]]
<1>4. /\ requests' = Append(requests, [id |-> FreshId, type |-> type])
      /\ pending' = [i \in DOMAIN Without(ids) \cup {FreshId} |->
                       IF i = FreshId THEN [type |-> type, afterBurst |-> after]
                                      ELSE pending[i]]
  BY <1>3 DEF PostCall
<1>5. FreshId \notin DOMAIN Without(ids)
  BY <1>1
<1>6. pending' = new
  BY <1>1, <1>4
<1>7. type = "sample" /\ after
        => done \/ \E j \in DOMAIN requests : requests[j].type = "burst"
  BY <1>2
<1>8. /\ Matched(Append(requests, [id |-> FreshId, type |-> type]), tasks, rp, new)
      /\ Behind(Append(requests, [id |-> FreshId, type |-> type]), tasks, rp, new, done)
  BY <1>5, <1>7, CallPosted
<1>9. /\ DOMAIN pending' = (DOMAIN pending \ ids) \cup {FreshId}
      /\ \A i \in DOMAIN pending \ ids : pending'[i] = pending[i]
      /\ pending'[FreshId] = [type |-> type, afterBurst |-> after]
  BY <1>1, <1>4
<1>10. PendingOK'
  BY <1>9 DEF PendingOK, CallType
<1>. QED
  BY <1>3, <1>4, <1>6, <1>8, <1>9, <1>10

\* What BurstAhead, a fact about the queue, means for a call posted now.
LEMMA BurstAheadFacts ==
    ASSUME BurstAhead
    PROVE  ProductHeld \/ \E j \in DOMAIN requests : requests[j].type = "burst"
BY DEF BurstAhead, ProductHeld

\* Bursts in a queue are calls that the loop awaits.
LEMMA RequestedBurst ==
    ASSUME ChannelInv, worker = "live", NEW j \in DOMAIN requests, requests[j].type = "burst"
    PROVE  loop = "burst" /\ starting = "returned"
<1>1. Matched(requests, tasks, replies, pending)
  BY DEF ChannelInv, ChannelOK
<1>2. requests[j].id \in CallsOf("burst")
  BY <1>1 DEF Matched, IdsIn, CallsOf
<1>3. loop = "burst"
  BY <1>2 DEF ChannelInv, Awaited
<1>. QED
  BY <1>3 DEF ChannelInv, IInv, StartOrder

\* So nothing was or is being computed before the loop runs.
LEMMA AheadIsLate ==
    ASSUME ChannelInv, worker = "live", BurstAhead
    PROVE  starting = "returned"
<1>1. CASE computed
  BY <1>1 DEF ChannelInv, ComputedLate
<1>2. CASE \E k \in DOMAIN requests : requests[k].type = "burst"
  BY <1>2, RequestedBurst
<1>. QED
  BY <1>1, <1>2 DEF BurstAhead

\* sampleResult() of the page.
LEMMA SampleStep ==
    ASSUME ChannelInv, Sample
    PROVE  ChannelRest'
<1>1. /\ worker = "live" /\ Cardinality(CallsOf("sample")) < MaxSamples
      /\ UNCHANGED <<vars, replies, memory, tasks, requested, script>>
      /\ PostCall("sample", {})
  BY DEF Sample, NoTurn, CallsOf
<1>2. /\ Matched(requests, tasks, replies, pending)
      /\ Behind(requests, tasks, replies, pending, ProductHeld)
      /\ PendingOK
  BY <1>1 DEF ChannelInv, ChannelOK
<1>3. DOMAIN Without({}) = DOMAIN pending /\ \A i \in DOMAIN pending : Without({})[i] = pending[i]
  BY DEF Without
<1>4. /\ Matched(requests, tasks, replies, Without({}))
      /\ Behind(requests, tasks, replies, Without({}), ProductHeld)
  BY <1>2, <1>3, SameCalls
<1>5. PICK x : DOMAIN pending \subseteq CallsOf("sample") \cup {x}
  <2>1. DOMAIN pending = CallsOf("sample") \cup CallsOf("burst") \cup CallsOf("init")
    BY <1>2 DEF PendingOK, CallType, Types, CallsOf
  <2>2. CallsOf("burst") = {} \/ CallsOf("init") = {}
    BY <1>1 DEF ChannelInv, Awaited, IInv, StartOrder
  <2>3. /\ \A i, j \in CallsOf("burst") : i = j
        /\ \A i, j \in CallsOf("init") : i = j
    BY <1>1 DEF ChannelInv, Awaited
  <2>. QED
    BY <2>1, <2>2, <2>3
<1>6. FreshId \in Ids /\ FreshId \notin DOMAIN pending
  BY <1>2, <1>5, FreshFacts DEF ChannelInv, Awaited
<1>7. "sample" \in Types
  BY DEF Types
<1>8. /\ Matched(requests', tasks, replies, pending')
      /\ Behind(requests', tasks, replies, pending', ProductHeld)
      /\ DOMAIN pending' = DOMAIN pending \cup {FreshId}
      /\ \A i \in DOMAIN pending : pending'[i] = pending[i]
      /\ pending'[FreshId] = [type |-> "sample", afterBurst |-> BurstAhead]
      /\ PendingOK'
  <2>1. BurstAhead => ProductHeld \/ \E j \in DOMAIN requests : requests[j].type = "burst"
    BY BurstAheadFacts
  <2>2. /\ Matched(requests', tasks, replies, pending')
        /\ Behind(requests', tasks, replies, pending', ProductHeld)
        /\ DOMAIN pending' = (DOMAIN pending \ {}) \cup {FreshId}
        /\ \A i \in DOMAIN pending \ {} : pending'[i] = pending[i]
        /\ pending'[FreshId] = [type |-> "sample", afterBurst |-> BurstAhead]
        /\ PendingOK'
    BY <1>1, <1>2, <1>4, <1>6, <1>7, <2>1, PostStep
  <2>. QED
    BY <2>2
<1>9. ChannelOK'
  <2>1. ProductHeld' = ProductHeld
    BY <1>1 DEF ProductHeld, memory
  <2>2. worker' = worker
    BY <1>1 DEF vars, control
  <2>. QED
    BY <1>1, <1>8, <2>1, <2>2 DEF ChannelOK
<1>10. Awaited'
  <2>1. UNCHANGED <<worker, loop, starting>>
    BY <1>1 DEF vars, control
  <2>2. /\ CallsOf("burst")' = CallsOf("burst")
        /\ CallsOf("init")' = CallsOf("init")
        /\ CallsOf("sample")' = CallsOf("sample") \cup {FreshId}
    BY <1>6, <1>8 DEF CallsOf
  <2>3. IsFiniteSet(CallsOf("sample")) /\ Cardinality(CallsOf("sample")) \in Nat
    <3>1. CallsOf("sample") \in SUBSET DOMAIN pending
      BY DEF CallsOf
    <3>. QED
      BY <1>2, <3>1, CallsFinite
  <2>4. /\ Cardinality(CallsOf("sample") \cup {FreshId}) <= MaxSamples
    <3>1. FreshId \notin CallsOf("sample")
      BY <1>6 DEF CallsOf
    <3>2. Cardinality(CallsOf("sample") \cup {FreshId}) = Cardinality(CallsOf("sample")) + 1
      BY <2>3, <3>1, FS_AddElement
    <3>. QED
      BY <1>1, <2>3, <3>2, SessionAssumption
  <2>5. Cardinality(CallsOf("sample"))' <= MaxSamples
    BY <2>2, <2>4
  <2>. QED
    BY <2>1, <2>2, <2>5 DEF Awaited, ChannelInv
<1>11. ComputedLate'
  <2>1. UNCHANGED <<starting, computed>>
    BY <1>1 DEF vars, control, memory
  <2>2. BurstAhead => starting = "returned"
    BY <1>1, AheadIsLate
  <2>. QED
    BY <1>8, <2>1, <2>2 DEF ComputedLate, ChannelInv
<1>12. MemoryOK'
  BY <1>1 DEF MemoryOK, ChannelInv, memory
<1>. QED
  BY <1>8, <1>9, <1>10, <1>11, <1>12 DEF ChannelRest

\* A turn of the governor that leaves the worker running: the calls that stay
\* pending are samples, and a burst is posted if the loop now awaits one.
LEMMA LiveExchange ==
    ASSUME ChannelInv, IInv', worker = "live", worker' = "live",
           NEW x, NEW ids \in SUBSET {x}, Exchange(ids), UNCHANGED requested,
           Matched(requests, tasks, replies', Without(ids)),
           Behind(requests, tasks, replies', Without(ids), ProductHeld),
           \A i \in DOMAIN pending \ ids : pending[i].type = "sample",
           starting' # "init", starting = "returned" => starting' = "returned"
    PROVE  ChannelRest'
<1>1. PendingOK /\ MemoryOK /\ ComputedLate /\ Cardinality(CallsOf("sample")) <= MaxSamples
  BY DEF ChannelInv, Awaited
<1>2. UNCHANGED <<memory, tasks>>
  BY DEF Exchange
<1>3. MemoryOK'
  BY <1>1, <1>2 DEF MemoryOK, memory
<1>4. ProductHeld' = ProductHeld /\ computed' = computed
  BY <1>2 DEF ProductHeld, memory
<1>5. CASE loop' # "burst"
  <2>1. pending' = Without(ids) /\ requests' = requests
    BY <1>5 DEF Exchange
  <2>2. /\ PendingOK'
        /\ DOMAIN pending' = DOMAIN pending \ ids
        /\ \A i \in DOMAIN pending' : pending'[i] = pending[i]
        /\ Cardinality(CallsOf("sample"))' <= Cardinality(CallsOf("sample"))
    BY <1>1, <2>1, FewerSamples
  <2>3. ChannelOK'
    BY <1>2, <1>4, <2>1 DEF ChannelOK
  <2>4. CallsOf("burst")' = {} /\ CallsOf("init")' = {}
    BY <2>2 DEF CallsOf
  <2>5. Cardinality(CallsOf("sample"))' <= MaxSamples
    <3>1. CallsOf("sample") \in SUBSET DOMAIN pending /\ CallsOf("sample")' \in SUBSET DOMAIN pending
      BY <2>2 DEF CallsOf
    <3>2. Cardinality(CallsOf("sample")) \in Nat /\ Cardinality(CallsOf("sample"))' \in Nat
      BY <1>1, <3>1, CallsFinite
    <3>. QED
      BY <1>1, <2>2, <3>2, SessionAssumption
  <2>6. Awaited'
    BY <1>5, <2>4, <2>5 DEF Awaited
  <2>7. ComputedLate'
    BY <1>1, <1>4, <2>2 DEF ComputedLate
  <2>. QED
    BY <1>3, <2>2, <2>3, <2>6, <2>7 DEF ChannelRest
<1>6. CASE loop' = "burst"
  <2>1. PostCall("burst", ids)
    BY <1>6 DEF Exchange
  <2>2. DOMAIN pending \subseteq CallsOf("sample") \cup {x}
    BY DEF CallsOf
  <2>3. FreshId \in Ids /\ FreshId \notin DOMAIN pending
    BY <1>1, <2>2, FreshFacts
  <2>4. "burst" \in Types /\ ~("burst" = "sample")
    BY DEF Types
  <2>5. /\ Matched(requests', tasks, replies', pending')
        /\ Behind(requests', tasks, replies', pending', ProductHeld)
        /\ DOMAIN pending' = (DOMAIN pending \ ids) \cup {FreshId}
        /\ \A i \in DOMAIN pending \ ids : pending'[i] = pending[i]
        /\ pending'[FreshId] = [type |-> "burst", afterBurst |-> BurstAhead]
        /\ PendingOK'
    BY <1>1, <2>1, <2>3, <2>4, PostStep
  <2>6. ChannelOK'
    BY <1>2, <1>4, <2>5 DEF ChannelOK
  <2>7. /\ CallsOf("burst")' = {FreshId} /\ CallsOf("init")' = {}
        /\ CallsOf("sample")' \subseteq CallsOf("sample")
    BY <2>3, <2>5 DEF CallsOf
  <2>8. Cardinality(CallsOf("sample"))' <= MaxSamples
    <3>1. CallsOf("sample") \in SUBSET DOMAIN pending
      BY DEF CallsOf
    <3>2. IsFiniteSet(CallsOf("sample")) /\ Cardinality(CallsOf("sample")) \in Nat
      BY <1>1, <3>1, CallsFinite
    <3>3. /\ Cardinality(CallsOf("sample")') <= Cardinality(CallsOf("sample"))
          /\ Cardinality(CallsOf("sample")') \in Nat
      BY <2>7, <3>2, FS_Subset, FS_CardinalityType
    <3>. QED
      BY <1>1, <3>2, <3>3, SessionAssumption
  <2>9. Awaited'
    BY <1>6, <2>7, <2>8 DEF Awaited
  <2>10. starting' = "returned"
    BY <1>6 DEF IInv, StartOrder
  <2>11. ComputedLate'
    BY <2>10 DEF ComputedLate
  <2>. QED
    BY <1>3, <2>5, <2>6, <2>9, <2>11 DEF ChannelRest
<1>. QED
  BY <1>5, <1>6

\* What a turn that awaits no reply does to start() and to the worker.
LEMMA PostingTurns ==
    ASSUME IInv, BatteryReady \/ IdleOver \/ QuietOver \/ Revoke \/ Stop
    PROVE  /\ starting' # "init" \/ worker' # "live"
           /\ starting = "returned" => starting' = "returned"
           /\ worker' # "live" \/ worker' = worker
           /\ worker' = "none" => worker = "none"
           /\ worker' = "live" => loop # "burst" /\ starting # "init"
<1>1. ASSUME NEW before, NextPass(before)
      PROVE  /\ worker' # "live" \/ worker' = worker
             /\ worker' = "none" => worker = "none"
  BY <1>1, PassFacts DEF NextPass
<1>2. CASE BatteryReady
  BY <1>2, PassFacts DEF BatteryReady, Begin, IInv, StartOrder
<1>3. CASE IdleOver \/ QuietOver
  <2>1. PICK before : NextPass(before)
    BY <1>3 DEF IdleOver, QuietOver
  <2>2. /\ worker' # "live" \/ worker' = worker
        /\ worker' = "none" => worker = "none"
    BY <1>1, <2>1
  <2>3. loop \in {"idle", "quiet"} /\ starting' = starting
    BY <1>3 DEF IdleOver, QuietOver
  <2>. QED
    BY <2>2, <2>3 DEF IInv, StartOrder
<1>4. ASSUME NEW final \in Final, Call(final)
      PROVE  /\ worker' # "live" /\ starting' = starting
             /\ worker' = "none" => worker = "none"
  BY <1>4, FinishFacts DEF Call
<1>5. CASE Revoke \/ Stop
  BY <1>4, <1>5 DEF Revoke, Stop, Final
<1>. QED
  BY <1>2, <1>3, <1>5

\* The turns that await no reply.
LEMMA PostingStep ==
    ASSUME ChannelInv, IInv', BatteryTurn \/ TimerTurn \/ CallTurn
    PROVE  ChannelRest'
<1>1. Exchange({}) /\ UNCHANGED requested
  BY DEF BatteryTurn, TimerTurn, CallTurn, Posting
<1>2. IInv
  BY DEF ChannelInv
<1>3. /\ starting' # "init" \/ worker' # "live"
      /\ starting = "returned" => starting' = "returned"
      /\ worker' # "live" \/ worker' = worker
      /\ worker' = "none" => worker = "none"
      /\ worker' = "live" => loop # "burst" /\ starting # "init"
  <2>1. BatteryReady \/ IdleOver \/ QuietOver \/ Revoke \/ Stop
    BY DEF BatteryTurn, TimerTurn, CallTurn
  <2>. QED
    BY <1>2, <2>1, PostingTurns
<1>4. CASE worker' # "live"
  <2>1. Terminate /\ pending' = Without({})
    BY <1>1, <1>4 DEF Exchange
  <2>. QED
    BY <1>1, <1>3, <1>4, <2>1, TerminatedStep
<1>5. CASE worker' = "live"
  <2>1. worker = "live"
    BY <1>3, <1>5
  <2>2. /\ Matched(requests, tasks, replies, pending)
        /\ Behind(requests, tasks, replies, pending, ProductHeld)
    BY <2>1 DEF ChannelInv, ChannelOK
  <2>3. DOMAIN Without({}) = DOMAIN pending /\ \A i \in DOMAIN pending : Without({})[i] = pending[i]
    BY DEF Without
  <2>4. /\ Matched(requests, tasks, replies, Without({}))
        /\ Behind(requests, tasks, replies, Without({}), ProductHeld)
    BY <2>2, <2>3, SameCalls
  <2>5. replies' = replies
    BY <1>1, <1>5 DEF Exchange
  <2>6. \A i \in DOMAIN pending \ {} : pending[i].type = "sample"
    BY <1>3, <1>5, <2>1 DEF ChannelInv, Awaited, PendingOK, CallsOf, CallType, Types
  <2>7. {} \in SUBSET {0}
    OBVIOUS
  <2>. QED
    BY <1>1, <1>3, <1>5, <2>1, <2>4, <2>5, <2>6, <2>7, LiveExchange
<1>. QED
  BY <1>4, <1>5

\* What the turn of an init or burst reply does to start() and to the worker.
LEMMA AnsweredTurns ==
    ASSUME IInv, InitAnswers \/ InitFails \/ BurstDone \/ BurstFails
    PROVE  /\ starting' # "init"
           /\ starting = "returned" => starting' = "returned"
           /\ worker' # "none"
<1>1. ASSUME NEW before, NextPass(before)
      PROVE  worker' = "none" <=> worker = "none"
  BY <1>1, PassFacts DEF NextPass
<1>2. CASE InitAnswers
  BY <1>2, PassFacts DEF InitAnswers, Begin
<1>3. CASE InitFails
  BY <1>3 DEF InitFails
<1>4. CASE BurstDone
  <2>1. loop = "burst" /\ worker = "live" /\ starting' = starting
    BY <1>4 DEF BurstDone
  <2>2. worker' = "none" <=> worker = "none"
    BY <1>1, <1>4 DEF BurstDone
  <2>. QED
    BY <2>1, <2>2 DEF IInv, StartOrder
<1>5. CASE BurstFails
  <2>1. Finish("stopped", state, <<"error">>) /\ "stopped" \in Final
    BY <1>5 DEF BurstFails, End, Final
  <2>2. loop = "burst" /\ worker = "live" /\ starting' = starting
    BY <1>5 DEF BurstFails
  <2>. QED
    BY <2>1, <2>2, FinishFacts DEF IInv, StartOrder
<1>. QED
  BY <1>2, <1>3, <1>4, <1>5

\* A reply reaches the page.
LEMMA DeliverStep ==
    ASSUME ChannelInv, IInv', Deliver
    PROVE  ChannelRest'
<1>. DEFINE reply == Head(replies)
            ids == {reply.id}
<1>1. worker = "live" /\ replies # <<>> /\ UNCHANGED requested
  BY DEF Deliver
<1>2. /\ Matched(requests, tasks, replies, pending)
      /\ Behind(requests, tasks, replies, pending, ProductHeld)
      /\ PendingOK /\ IInv
  BY <1>1 DEF ChannelInv, ChannelOK
<1>3. /\ reply.id \in DOMAIN pending
      /\ reply.type = pending[reply.id].type
      /\ Matched(requests, tasks, Tail(replies), Without(ids))
      /\ Behind(requests, tasks, Tail(replies), Without(ids), ProductHeld)
  BY <1>1, <1>2, ReplyTaken DEF Without
<1>4. CASE pending[reply.id].type = "sample"
  <2>1. /\ UNCHANGED vars
        /\ pending' = Without(ids)
        /\ replies' = Tail(replies)
        /\ UNCHANGED <<requests, memory, tasks>>
    BY <1>3, <1>4 DEF Deliver, NoTurn
  <2>2. UNCHANGED <<worker, loop, starting, path, buffers, computed>>
    BY <2>1 DEF vars, control, memory
  <2>3. /\ PendingOK'
        /\ DOMAIN pending' = DOMAIN pending \ ids
        /\ \A i \in DOMAIN pending' : pending'[i] = pending[i]
        /\ \A type : CallsOf(type)' = CallsOf(type) \ ids
        /\ Cardinality(CallsOf("sample"))' <= Cardinality(CallsOf("sample"))
    BY <1>2, <2>1, FewerSamples
  <2>4. ChannelOK'
    BY <1>1, <1>3, <2>1, <2>2 DEF ChannelOK, ProductHeld
  <2>5. CallsOf("burst")' = CallsOf("burst") /\ CallsOf("init")' = CallsOf("init")
    <3>1. reply.id \notin CallsOf("burst") /\ reply.id \notin CallsOf("init")
      BY <1>4 DEF CallsOf
    <3>2. CallsOf("burst")' = CallsOf("burst") \ ids /\ CallsOf("init")' = CallsOf("init") \ ids
      BY <2>3
    <3>. QED
      BY <3>1, <3>2
  <2>6. Cardinality(CallsOf("sample"))' <= MaxSamples
    <3>1. CallsOf("sample") \in SUBSET DOMAIN pending /\ CallsOf("sample")' \in SUBSET DOMAIN pending
      BY <2>3 DEF CallsOf
    <3>2. Cardinality(CallsOf("sample")) \in Nat /\ Cardinality(CallsOf("sample"))' \in Nat
      BY <1>2, <3>1, CallsFinite
    <3>. QED
      BY <2>3, <3>2, SessionAssumption DEF ChannelInv, Awaited
  <2>7. Awaited'
    BY <2>2, <2>5, <2>6 DEF Awaited, ChannelInv
  <2>8. ComputedLate'
    BY <2>2, <2>3 DEF ComputedLate, ChannelInv
  <2>9. MemoryOK'
    BY <1>1, <2>2 DEF MemoryOK, ChannelInv
  <2>. QED
    BY <2>3, <2>4, <2>7, <2>8, <2>9 DEF ChannelRest
<1>5. CASE pending[reply.id].type # "sample"
  <2>1. /\ Exchange(ids)
        /\ \/ pending[reply.id].type = "init" /\ InitReply(reply)
           \/ pending[reply.id].type = "burst" /\ BurstReply(reply)
    BY <1>3, <1>5 DEF Deliver
  <2>2. InitAnswers \/ InitFails \/ BurstDone \/ BurstFails
    BY <2>1 DEF InitReply, BurstReply
  <2>3. /\ starting' # "init"
        /\ starting = "returned" => starting' = "returned"
        /\ worker' # "none"
    BY <1>2, <2>2, AnsweredTurns
  <2>4. CASE worker' # "live"
    <3>1. Terminate /\ pending' = Without(ids)
      BY <2>1, <2>4 DEF Exchange
    <3>. QED
      BY <1>1, <2>3, <2>4, <3>1, TerminatedStep
  <2>5. CASE worker' = "live"
    <3>1. replies' = Tail(replies)
      BY <2>1, <2>5 DEF Exchange
    <3>2. \A i \in DOMAIN pending \ ids : pending[i].type = "sample"
      <4>1. reply.id \in CallsOf(pending[reply.id].type)
        BY <1>3 DEF CallsOf
      <4>2. CallsOf("init") = {} \/ CallsOf("burst") = {}
        BY <1>1, <1>2 DEF ChannelInv, Awaited, IInv, StartOrder
      <4>3. CallsOf("init") \cup CallsOf("burst") \subseteq ids
        BY <1>1, <2>1, <4>1, <4>2 DEF ChannelInv, Awaited
      <4>. QED
        BY <1>2, <4>3 DEF PendingOK, CallType, Types, CallsOf
    <3>3. ids \in SUBSET {reply.id}
      OBVIOUS
    <3>. QED
      BY <1>1, <1>3, <2>1, <2>3, <2>5, <3>1, <3>2, <3>3, LiveExchange
  <2>. QED
    BY <2>4, <2>5
<1>. QED
  BY <1>4, <1>5

\* An empty channel is in order.
LEMMA EmptyChannel ==
    ASSUME NEW pd, DOMAIN pd = {}, NEW done
    PROVE  Matched(<<>>, {}, <<>>, pd) /\ Behind(<<>>, {}, <<>>, pd, done)
<1>1. DOMAIN (<<>>) = {} /\ <<>> \in Seq(Request) /\ <<>> \in Seq(ReplyType)
  OBVIOUS
<1>2. IdsIn(<<>>) = {} /\ IdsOf({}) = {}
  BY <1>1 DEF IdsIn, IdsOf
<1>. QED
  BY <1>1, <1>2 DEF Matched, Behind, Distinct

\* start() posts the init message to its new worker, or denies the session.
LEMMA StartStep ==
    ASSUME ChannelInv, StartCalls
    PROVE  ChannelRest'
<1>1. /\ Start /\ UNCHANGED <<replies, memory, tasks, requested>>
      /\ starting = "uncalled"
  BY DEF StartCalls, Start
<1>2. worker = "none" /\ loop = "none" /\ PendingOK /\ MemoryOK
  BY <1>1 DEF ChannelInv, IInv, StartOrder
<1>3. requests = <<>> /\ replies = <<>> /\ tasks = {} /\ DOMAIN pending = {}
  BY <1>2 DEF ChannelInv, ChannelOK
<1>4. computed = FALSE
  BY <1>1, <1>2, Zenon DEF MemoryOK, ChannelInv, ComputedLate
<1>5. \A type : CallsOf(type) = {}
  BY <1>3 DEF CallsOf
<1>6. /\ MemoryOK' /\ loop' = loop /\ computed' = computed
  BY <1>1, <1>2 DEF MemoryOK, memory, Start
<1>7. CASE worker' # "live"
  <2>1. UNCHANGED <<requests, pending>>
    BY <1>7 DEF StartCalls
  <2>2. PendingOK' /\ ComputedLate'
    BY <1>2, <1>3, <1>4, <1>6, <2>1 DEF PendingOK, ComputedLate
  <2>3. ChannelOK'
    BY <1>1, <1>3, <1>7, <2>1 DEF ChannelOK
  <2>4. Cardinality(CallsOf("sample"))' <= MaxSamples
    BY <2>1 DEF ChannelInv, Awaited, CallsOf
  <2>5. Awaited'
    BY <1>7, <2>4 DEF Awaited
  <2>. QED
    BY <1>6, <2>2, <2>3, <2>5 DEF ChannelRest
<1>8. CASE worker' = "live"
  <2>1. PostCall("init", {}) /\ starting' = "init"
    BY <1>2, <1>8 DEF StartCalls, Start
  <2>2. FreshId \in Ids /\ FreshId \notin DOMAIN pending
    <3>1. DOMAIN pending \subseteq CallsOf("sample") \cup {0}
      BY <1>3
    <3>. QED
      BY <1>2, <3>1, FreshFacts DEF ChannelInv, Awaited
  <2>3. "init" \in Types /\ ~("init" = "sample")
    BY DEF Types
  <2>4. DOMAIN Without({}) = {}
    BY <1>3 DEF Without
  <2>5. /\ Matched(requests, tasks, replies, Without({}))
        /\ Behind(requests, tasks, replies, Without({}), ProductHeld)
    BY <1>3, <2>4, EmptyChannel
  <2>6. /\ Matched(requests', tasks, replies, pending')
        /\ Behind(requests', tasks, replies, pending', ProductHeld)
        /\ DOMAIN pending' = (DOMAIN pending \ {}) \cup {FreshId}
        /\ \A i \in DOMAIN pending \ {} : pending'[i] = pending[i]
        /\ pending'[FreshId] = [type |-> "init", afterBurst |-> BurstAhead]
        /\ PendingOK'
    BY <1>2, <2>1, <2>2, <2>3, <2>5, PostStep
  <2>7. ~BurstAhead
    BY <1>3, <1>4 DEF BurstAhead
  <2>8. ChannelOK'
    BY <1>1, <1>8, <2>6 DEF ChannelOK, ProductHeld, memory
  <2>9. /\ CallsOf("init")' = {FreshId} /\ CallsOf("burst")' = {}
        /\ CallsOf("sample")' = CallsOf("sample")
    BY <1>3, <2>6 DEF CallsOf
  <2>10. Cardinality(CallsOf("sample"))' <= MaxSamples
    BY <2>9 DEF ChannelInv, Awaited
  <2>11. Awaited'
    BY <1>2, <1>6, <2>1, <2>9, <2>10 DEF Awaited
  <2>12. ComputedLate'
    BY <1>3, <1>4, <1>6, <2>6, <2>7 DEF ComputedLate
  <2>. QED
    BY <1>6, <2>6, <2>8, <2>11, <2>12 DEF ChannelRest
<1>. QED
  BY <1>7, <1>8

\* Whatever happens around the session leaves the channel alone.
LEMMA SurroundingsStep ==
    ASSUME ChannelInv, Surroundings
    PROVE  ChannelRest'
<1>1. UNCHANGED <<worker, loop, starting>>
  BY DEF Surroundings, LimitReached, ActivityChanges, HealthChanges, BatteryChanges, control
<1>2. UNCHANGED <<requests, replies, path, buffers, computed, tasks, pending, requested>>
  BY DEF Surroundings, workerVars, memory
<1>3. MemoryOK' /\ PendingOK' /\ ComputedLate'
  BY <1>1, <1>2 DEF MemoryOK, PendingOK, ComputedLate, ChannelInv
<1>4. ChannelOK'
  BY <1>1, <1>2 DEF ChannelOK, ProductHeld, ChannelInv
<1>5. Awaited'
  BY <1>1, <1>2 DEF Awaited, CallsOf, ChannelInv
<1>. QED
  BY <1>3, <1>4, <1>5 DEF ChannelRest

\* A turn of the worker keeps what the page knows.
LEMMA WorkerTurn ==
    ASSUME ChannelInv, worker = "live", UNCHANGED <<vars, pending, requested>>,
           Matched(requests', tasks', replies', pending),
           Behind(requests', tasks', replies', pending, ProductHeld'),
           path' \in {"gpu", "cpu"}, buffers' \in {"none", "gpu", "cpu"},
           computed' \in BOOLEAN, computed' => starting = "returned"
    PROVE  ChannelRest'
<1>1. UNCHANGED <<worker, loop, starting>>
  BY DEF vars, control
<1>2. MemoryOK' /\ PendingOK'
  BY DEF MemoryOK, PendingOK, ChannelInv
<1>3. ComputedLate'
  BY <1>1 DEF ComputedLate, ChannelInv
<1>4. ChannelOK'
  BY <1>1 DEF ChannelOK
<1>5. Awaited'
  BY <1>1 DEF Awaited, CallsOf, ChannelInv
<1>. QED
  BY <1>2, <1>3, <1>4, <1>5 DEF ChannelRest

\* The worker handles a message.
LEMMA HandleStep ==
    ASSUME ChannelInv, WorkerHandles
    PROVE  ChannelRest'
<1>. DEFINE m == Head(requests)
<1>1. /\ worker = "live" /\ UNCHANGED <<vars, pending, requested>>
      /\ requests # <<>> /\ requests' = Tail(requests)
      /\ HandleInit(m, requested) \/ HandleBurst(m) \/ HandleSample(m)
  BY DEF WorkerHandles, Handle
<1>2. /\ Matched(requests, tasks, replies, pending)
      /\ Behind(requests, tasks, replies, pending, ProductHeld)
  BY <1>1 DEF ChannelInv, ChannelOK
<1>3. /\ m \in Request /\ m.id \in DOMAIN pending /\ m.type = pending[m.id].type
      /\ m.type = "sample" /\ pending[m.id].afterBurst => ProductHeld
  BY <1>1, <1>2, RequestTaken
<1>4. /\ path \in {"gpu", "cpu"} /\ buffers \in {"none", "gpu", "cpu"}
      /\ computed \in BOOLEAN /\ requested \in {"gpu", "cpu"}
      /\ computed => starting = "returned"
  BY DEF ChannelInv, MemoryOK, ComputedLate
\* Either it answers at once, or it suspends.
<1>5. ASSUME NEW ok \in BOOLEAN, NEW right \in BOOLEAN, NEW fellBack \in BOOLEAN,
             Reply(m, ok, fellBack, right), UNCHANGED tasks,
             Handled(requests, pending, ProductHeld, ProductHeld'),
             m.type = "sample" /\ ok /\ pending[m.id].afterBurst => right
      PROVE  /\ Matched(requests', tasks', replies', pending)
             /\ Behind(requests', tasks', replies', pending, ProductHeld')
  <2>. DEFINE r == [id |-> m.id, type |-> m.type, ok |-> ok,
                    fellBack |-> fellBack, right |-> right]
  <2>1. r \in ReplyType /\ r.id = m.id /\ r.type = m.type /\ r.ok = ok /\ r.right = right
    BY <1>3 DEF ReplyType, Request
  <2>2. replies' = Append(replies, r)
    BY <1>5 DEF Reply
  <2>3. r.type = "sample" /\ r.ok /\ pending[r.id].afterBurst => r.right
    BY <1>5, <2>1
  <2>. HIDE DEF r
  <2>4. /\ Matched(Tail(requests), tasks, Append(replies, r), pending)
        /\ Behind(Tail(requests), tasks, Append(replies, r), pending, ProductHeld')
    BY <1>1, <1>2, <1>5, <2>1, <2>3, RequestAnswered
  <2>. QED
    BY <1>1, <1>5, <2>2, <2>4
<1>6. ASSUME NEW right \in BOOLEAN, UNCHANGED replies,
             tasks' = tasks \cup {[id |-> m.id, type |-> m.type, right |-> right]},
             Handled(requests, pending, ProductHeld, ProductHeld'),
             m.type = "sample" /\ pending[m.id].afterBurst => right
      PROVE  /\ Matched(requests', tasks', replies', pending)
             /\ Behind(requests', tasks', replies', pending, ProductHeld')
  <2>. DEFINE t == [id |-> m.id, type |-> m.type, right |-> right]
  <2>1. t \in Task /\ t.id = m.id /\ t.type = m.type /\ t.right = right
    BY <1>3 DEF Task, Request
  <2>2. tasks' = tasks \cup {t}
    BY <1>6
  <2>3. t.type = "sample" /\ pending[t.id].afterBurst => t.right
    BY <1>6, <2>1
  <2>. HIDE DEF t
  <2>4. /\ Matched(Tail(requests), tasks \cup {t}, replies, pending)
        /\ Behind(Tail(requests), tasks \cup {t}, replies, pending, ProductHeld')
    BY <1>1, <1>2, <1>6, <2>1, <2>3, RequestSuspended
  <2>. QED
    BY <1>1, <1>6, <2>2, <2>4
<1>7. CASE HandleInit(m, requested)
  <2>1. /\ m.type = "init" /\ path' = requested /\ computed' = FALSE
    BY <1>7 DEF HandleInit
  <2>2. starting = "init"
    BY <1>1, <1>3, <2>1 DEF ChannelInv, Awaited, CallsOf
  <2>3. Handled(requests, pending, ProductHeld, ProductHeld')
    BY <2>2 DEF Handled, ChannelInv, ComputedLate
  <2>4. buffers' \in {"none", "gpu", "cpu"}
    BY <1>4, <1>7 DEF HandleInit
  <2>5. CASE requested = "gpu"
    <3>1. /\ tasks' = tasks \cup {[id |-> m.id, type |-> m.type, right |-> FALSE]}
          /\ UNCHANGED replies
      BY <1>7, <2>1, <2>5 DEF HandleInit
    <3>2. /\ Matched(requests', tasks', replies', pending)
          /\ Behind(requests', tasks', replies', pending, ProductHeld')
      BY <1>6, <2>1, <2>3, <3>1
    <3>. QED
      BY <1>1, <1>4, <2>1, <2>4, <3>2, WorkerTurn
  <2>6. CASE requested # "gpu"
    <3>1. UNCHANGED tasks /\ \E ok \in BOOLEAN : Reply(m, ok, FALSE, FALSE)
      BY <1>7, <2>6 DEF HandleInit, Done, Failed
    <3>2. /\ Matched(requests', tasks', replies', pending)
          /\ Behind(requests', tasks', replies', pending, ProductHeld')
      BY <1>5, <2>1, <2>3, <3>1
    <3>. QED
      BY <1>1, <1>4, <2>1, <2>4, <3>2, WorkerTurn
  <2>. QED
    BY <2>5, <2>6
<1>8. CASE HandleBurst(m)
  <2>1. m.type = "burst" /\ UNCHANGED <<path, buffers>>
    BY <1>8 DEF HandleBurst
  <2>2. computed' \in BOOLEAN /\ (computed' <=> computed \/ path = buffers)
    BY <1>8, Zenon DEF HandleBurst
  <2>3. starting = "returned"
    <3>1. 1 \in DOMAIN requests /\ requests[1] = m
      BY <1>1, <1>2, QueueTail DEF Matched
    <3>. QED
      BY <1>1, <2>1, <3>1, RequestedBurst
  <2>4. ProductHeld'
    BY <2>1, <2>2 DEF ProductHeld
  <2>5. Handled(requests, pending, ProductHeld, ProductHeld')
    BY <2>4 DEF Handled
  <2>6. CASE path = "gpu" /\ buffers = "gpu"
    <3>1. /\ tasks' = tasks \cup {[id |-> m.id, type |-> m.type, right |-> FALSE]}
          /\ UNCHANGED replies
      BY <1>8, <2>1, <2>6 DEF HandleBurst
    <3>2. /\ Matched(requests', tasks', replies', pending)
          /\ Behind(requests', tasks', replies', pending, ProductHeld')
      BY <1>6, <2>1, <2>5, <3>1
    <3>. QED
      BY <1>1, <1>4, <2>1, <2>2, <2>3, <3>2, WorkerTurn
  <2>7. CASE ~(path = "gpu" /\ buffers = "gpu")
    <3>1. UNCHANGED tasks /\ \E ok \in BOOLEAN : Reply(m, ok, FALSE, FALSE)
      BY <1>8, <2>7 DEF HandleBurst, Done, Failed
    <3>2. /\ Matched(requests', tasks', replies', pending)
          /\ Behind(requests', tasks', replies', pending, ProductHeld')
      BY <1>5, <2>1, <2>5, <3>1
    <3>. QED
      BY <1>1, <1>4, <2>1, <2>2, <2>3, <3>2, WorkerTurn
  <2>. QED
    BY <2>6, <2>7
<1>9. CASE HandleSample(m)
  <2>1. m.type = "sample" /\ UNCHANGED <<path, buffers, computed>>
    BY <1>9 DEF HandleSample, memory
  <2>2. ProductHeld' = ProductHeld
    BY <2>1 DEF ProductHeld
  <2>3. Handled(requests, pending, ProductHeld, ProductHeld')
    BY <2>1, <2>2 DEF Handled
  <2>4. path = buffers /\ pending[m.id].afterBurst => computed
    BY <1>3, <2>1 DEF ProductHeld
  <2>5. CASE path = "gpu" /\ buffers = "gpu" /\ ~Mapped
    <3>1. /\ tasks' = tasks \cup {[id |-> m.id, type |-> m.type, right |-> computed]}
          /\ UNCHANGED replies
      BY <1>9, <2>1, <2>5 DEF HandleSample
    <3>2. /\ Matched(requests', tasks', replies', pending)
          /\ Behind(requests', tasks', replies', pending, ProductHeld')
      BY <1>4, <1>6, <2>3, <2>4, <2>5, <3>1
    <3>. QED
      BY <1>1, <1>4, <2>1, <3>2, WorkerTurn
  <2>6. CASE ~(path = "gpu" /\ buffers = "gpu" /\ ~Mapped)
    <3>1. /\ UNCHANGED tasks
          /\ \/ path = buffers /\ Reply(m, TRUE, FALSE, computed)
             \/ Reply(m, FALSE, FALSE, FALSE)
      BY <1>9, <2>6 DEF HandleSample, Failed
    <3>2. /\ Matched(requests', tasks', replies', pending)
          /\ Behind(requests', tasks', replies', pending, ProductHeld')
      BY <1>4, <1>5, <2>3, <2>4, <3>1
    <3>. QED
      BY <1>1, <1>4, <2>1, <3>2, WorkerTurn
  <2>. QED
    BY <2>5, <2>6
<1>. QED
  BY <1>1, <1>7, <1>8, <1>9

\* A suspended handler resumes, and ends.
LEMMA SettleStep ==
    ASSUME ChannelInv, NEW type \in Types, WorkerSettles(type)
    PROVE  ChannelRest'
<1>1. PICK m \in tasks : Settle(m)
  BY DEF WorkerSettles
<1>2. /\ worker = "live" /\ UNCHANGED <<vars, pending, requested, requests>>
      /\ tasks' = tasks \ {m}
      /\ SettleInit(m) \/ SettleBurst(m) \/ SettleSample(m)
  BY <1>1 DEF WorkerSettles, Settle
<1>3. /\ Matched(requests, tasks, replies, pending)
      /\ Behind(requests, tasks, replies, pending, ProductHeld)
  BY <1>2 DEF ChannelInv, ChannelOK
<1>4. m \in Task /\ m.id \in DOMAIN pending /\ m.type = pending[m.id].type
  BY <1>3 DEF Matched, IdsOf
<1>5. /\ path \in {"gpu", "cpu"} /\ buffers \in {"none", "gpu", "cpu"}
      /\ computed \in BOOLEAN /\ (computed => starting = "returned")
  BY DEF ChannelInv, MemoryOK, ComputedLate
<1>6. m.right \in BOOLEAN
  BY <1>4 DEF Task
<1>7. ASSUME NEW ok \in BOOLEAN, NEW right \in BOOLEAN, NEW fellBack \in BOOLEAN,
             Reply(m, ok, fellBack, right),
             ProductHeld = ProductHeld' \/ \A i \in DOMAIN pending : ~pending[i].afterBurst,
             m.type = "sample" /\ ok => right = m.right
      PROVE  /\ Matched(requests', tasks', replies', pending)
             /\ Behind(requests', tasks', replies', pending, ProductHeld')
  <2>. DEFINE r == [id |-> m.id, type |-> m.type, ok |-> ok,
                    fellBack |-> fellBack, right |-> right]
  <2>1. r \in ReplyType /\ r.id = m.id /\ r.type = m.type /\ r.ok = ok /\ r.right = right
    BY <1>4 DEF ReplyType, Task
  <2>2. replies' = Append(replies, r)
    BY <1>7 DEF Reply
  <2>3. r.type = "sample" /\ r.ok => r.right = m.right
    BY <1>7, <2>1
  <2>. HIDE DEF r
  <2>4. /\ Matched(requests, tasks \ {m}, Append(replies, r), pending)
        /\ Behind(requests, tasks \ {m}, Append(replies, r), pending, ProductHeld')
    BY <1>3, <1>7, <2>1, <2>3, TaskAnswered
  <2>. QED
    BY <1>2, <2>2, <2>4
<1>8. CASE SettleInit(m)
  <2>1. /\ m.type = "init" /\ computed' = computed
        /\ path' \in {"gpu", "cpu"} /\ buffers' \in {"none", "gpu", "cpu"}
    BY <1>5, <1>8 DEF SettleInit
  <2>2. \E ok, fellBack \in BOOLEAN : Reply(m, ok, fellBack, FALSE)
    BY <1>8 DEF SettleInit, Done, Failed
  <2>3. starting = "init"
    BY <1>2, <1>4, <2>1 DEF ChannelInv, Awaited, CallsOf
  <2>4. \A i \in DOMAIN pending : ~pending[i].afterBurst
    BY <2>3 DEF ChannelInv, ComputedLate
  <2>5. /\ Matched(requests', tasks', replies', pending)
        /\ Behind(requests', tasks', replies', pending, ProductHeld')
    BY <1>7, <2>1, <2>2, <2>4
  <2>. QED
    BY <1>2, <1>5, <2>1, <2>5, WorkerTurn
<1>9. CASE SettleBurst(m) \/ SettleSample(m)
  <2>1. UNCHANGED <<path, buffers, computed>>
    BY <1>9 DEF SettleBurst, SettleSample, memory
  <2>2. ProductHeld' = ProductHeld
    BY <2>1 DEF ProductHeld
  <2>3. PICK ok \in BOOLEAN, right \in BOOLEAN :
          /\ Reply(m, ok, FALSE, right)
          /\ m.type = "sample" /\ ok => right = m.right
    BY <1>6, <1>9 DEF SettleBurst, SettleSample, Done, Failed
  <2>4. /\ Matched(requests', tasks', replies', pending)
        /\ Behind(requests', tasks', replies', pending, ProductHeld')
    BY <1>7, <2>2, <2>3
  <2>. QED
    BY <1>2, <1>5, <2>1, <2>4, WorkerTurn
<1>. QED
  BY <1>2, <1>8, <1>9

\* Every step of a session keeps its invariant.
LEMMA ChannelStep == ChannelInv /\ [SessionNext]_sessionVars => ChannelInv'
<1>. SUFFICES ASSUME ChannelInv, [SessionNext]_sessionVars PROVE ChannelInv'
  OBVIOUS
<1>1. IInv' /\ TypeOK'
  BY SessionStepIsATurn, InductiveStep, TypeStep DEF ChannelInv
<1>2. CASE StartCalls
  BY <1>1, <1>2, StartStep DEF ChannelRest, ChannelInv
<1>3. CASE Deliver
  BY <1>1, <1>3, DeliverStep DEF ChannelRest, ChannelInv
<1>4. CASE BatteryTurn \/ TimerTurn \/ CallTurn
  BY <1>1, <1>4, PostingStep DEF ChannelRest, ChannelInv
<1>5. CASE Surroundings
  BY <1>1, <1>5, SurroundingsStep DEF ChannelRest, ChannelInv
<1>6. CASE Sample
  BY <1>1, <1>6, SampleStep DEF ChannelRest, ChannelInv
<1>7. CASE WorkerHandles
  BY <1>1, <1>7, HandleStep DEF ChannelRest, ChannelInv
<1>8. CASE \E type \in Types : WorkerSettles(type)
  BY <1>1, <1>8, SettleStep DEF ChannelRest, ChannelInv
<1>9. CASE UNCHANGED sessionVars
  <2>1. /\ UNCHANGED <<worker, loop, starting, requests, replies, path, buffers, computed>>
        /\ UNCHANGED <<tasks, pending, requested>>
    BY <1>9 DEF sessionVars, vars, control, workerVars, memory
  <2>2. MemoryOK' /\ PendingOK' /\ ComputedLate'
    BY <2>1 DEF MemoryOK, PendingOK, ComputedLate, ChannelInv
  <2>3. ChannelOK'
    BY <2>1 DEF ChannelOK, ProductHeld, ChannelInv
  <2>4. Awaited'
    BY <2>1 DEF Awaited, CallsOf, ChannelInv
  <2>. QED
    BY <1>1, <2>2, <2>3, <2>4 DEF ChannelInv
<1>. QED
  BY <1>2, <1>3, <1>4, <1>5, <1>6, <1>7, <1>8, <1>9 DEF SessionNext

\* A session begins with nothing posted and nothing pending.
LEMMA ChannelStart == SessionInit => ChannelInv
<1>. SUFFICES ASSUME SessionInit PROVE ChannelInv
  OBVIOUS
<1>1. IInv /\ TypeOK
  BY InitialInvariant, InitialTypes DEF SessionInit
<1>2. /\ requests = <<>> /\ replies = <<>> /\ tasks = {} /\ computed = FALSE
      /\ path = "cpu" /\ buffers = "none" /\ requested \in {"gpu", "cpu"}
      /\ pending = <<>> /\ worker = "none"
  BY DEF SessionInit, WorkerInit, Init
<1>3. DOMAIN pending = {}
  BY <1>2
<1>4. \A type : CallsOf(type) = {}
  BY <1>3 DEF CallsOf
<1>5. Cardinality(CallsOf("sample")) <= MaxSamples
  BY <1>4, FS_EmptySet, SessionAssumption
<1>6. MemoryOK /\ PendingOK /\ ChannelOK
  BY <1>2, <1>3 DEF MemoryOK, PendingOK, ChannelOK
<1>7. Awaited
  BY <1>2, <1>5 DEF Awaited
<1>8. ComputedLate
  BY <1>2, <1>3 DEF ComputedLate
<1>. QED
  BY <1>1, <1>6, <1>7, <1>8 DEF ChannelInv

\* Every reachable state of a session satisfies the invariant.
THEOREM ChannelInvariance == SessionSpec => []ChannelInv
BY ChannelStart, ChannelStep, PTL DEF SessionSpec

\* Type correctness of the channel and of the worker.
THEOREM SessionTypes == SessionSpec => []SessionTypeOK
<1>1. ChannelInv => SessionTypeOK
  <2>. SUFFICES ASSUME ChannelInv PROVE SessionTypeOK
    OBVIOUS
  <2>1. requests \in Seq(Request) /\ replies \in Seq(ReplyType) /\ tasks \subseteq Task
    <3>1. CASE worker = "live"
      BY <3>1 DEF ChannelInv, ChannelOK, Matched
    <3>2. CASE worker # "live"
      BY <3>2 DEF ChannelInv, ChannelOK
    <3>. QED
      BY <3>1, <3>2
  <2>2. TypeOK /\ MemoryOK /\ PendingOK
    BY DEF ChannelInv
  <2>. QED
    BY <2>1, <2>2 DEF SessionTypeOK, Request, ReplyType, Task, MemoryOK, PendingOK, CallType
<1>. QED
  BY <1>1, ChannelInvariance, PTL

\* Every reply settles the call it answers, and no other.
THEOREM RepliesReachTheirCalls == SessionSpec => []RepliesMatchCalls
<1>1. ChannelInv => RepliesMatchCalls
  <2>. SUFFICES ASSUME ChannelInv PROVE RepliesMatchCalls
    OBVIOUS
  <2>1. CASE worker = "live"
    BY <2>1 DEF ChannelInv, ChannelOK, Matched, Distinct, IdsIn, RepliesMatchCalls
  <2>2. CASE worker # "live"
    BY <2>2 DEF ChannelInv, ChannelOK, RepliesMatchCalls
  <2>. QED
    BY <2>1, <2>2
<1>. QED
  BY <1>1, ChannelInvariance, PTL

\* One burst is under way while the loop awaits it, and none otherwise.
THEOREM OneBurstUnderWay == SessionSpec => []OneBurstWhileAwaited
<1>. DEFINE A == {k \in DOMAIN requests : requests[k].type = "burst"}
            B == {m \in tasks : m.type = "burst"}
            C == {k \in DOMAIN replies : replies[k].type = "burst"}
<1>1. ChannelInv => OneBurstWhileAwaited
  <2>. SUFFICES ASSUME ChannelInv PROVE OneBurstWhileAwaited
    OBVIOUS
  <2>1. Bursts = Cardinality(A) + Cardinality(B) + Cardinality(C)
    BY DEF Bursts
  <2>2. Cardinality({}) = 0 /\ \A x : Cardinality({x}) = 1
    BY FS_EmptySet, FS_Singleton
  <2>3. CASE worker # "live"
    <3>1. A = {} /\ B = {} /\ C = {}
      BY <2>3 DEF ChannelInv, ChannelOK
    <3>. HIDE DEF A, B, C
    <3>. QED
      BY <2>1, <2>2, <2>3, <3>1 DEF OneBurstWhileAwaited
  <2>4. CASE worker = "live"
    <3>1. Matched(requests, tasks, replies, pending)
      BY <2>4 DEF ChannelInv, ChannelOK
    <3>2. /\ \A k \in A : requests[k].id \in CallsOf("burst") /\ requests[k].id \in IdsIn(requests)
          /\ \A m \in B : m.id \in CallsOf("burst") /\ m.id \in IdsOf(tasks)
          /\ \A k \in C : replies[k].id \in CallsOf("burst") /\ replies[k].id \in IdsIn(replies)
      BY <3>1 DEF Matched, IdsIn, IdsOf, CallsOf
    <3>3. CASE loop # "burst"
      <4>1. CallsOf("burst") = {}
        BY <2>4, <3>3 DEF ChannelInv, Awaited
      <4>2. A = {} /\ B = {} /\ C = {}
        BY <3>2, <4>1
      <4>. HIDE DEF A, B, C
      <4>. QED
        BY <2>1, <2>2, <3>3, <4>2 DEF OneBurstWhileAwaited
    <3>4. CASE loop = "burst"
      <4>1. PICK i : i \in CallsOf("burst") /\ \A j \in CallsOf("burst") : j = i
        BY <2>4, <3>4 DEF ChannelInv, Awaited
      <4>2. /\ \A k \in A : requests[k].id = i
            /\ \A m \in B : m.id = i
            /\ \A k \in C : replies[k].id = i
        BY <3>2, <4>1
      <4>3. i \in DOMAIN pending /\ pending[i].type = "burst"
        BY <4>1 DEF CallsOf
      <4>4. CASE i \in IdsIn(requests)
        <5>1. PICK k \in DOMAIN requests : requests[k].id = i
          BY <4>4 DEF IdsIn
        <5>2. A = {k}
          BY <3>1, <4>2, <4>3, <5>1 DEF Matched, Distinct
        <5>3. B = {} /\ C = {}
          BY <3>1, <3>2, <4>2, <4>4 DEF Matched
        <5>. HIDE DEF A, B, C
        <5>4. Cardinality(A) = 1
          BY <2>2, <5>2
        <5>. QED
          BY <2>1, <2>2, <2>4, <3>4, <5>3, <5>4 DEF OneBurstWhileAwaited
      <4>5. CASE i \in IdsOf(tasks)
        <5>1. PICK m \in tasks : m.id = i
          BY <4>5 DEF IdsOf
        <5>2. B = {m}
          BY <3>1, <4>2, <4>3, <5>1 DEF Matched
        <5>3. A = {} /\ C = {}
          BY <3>1, <3>2, <4>2, <4>5 DEF Matched
        <5>. HIDE DEF A, B, C
        <5>. QED
          BY <2>1, <2>2, <2>4, <3>4, <5>2, <5>3 DEF OneBurstWhileAwaited
      <4>6. CASE i \in IdsIn(replies)
        <5>1. PICK k \in DOMAIN replies : replies[k].id = i
          BY <4>6 DEF IdsIn
        <5>2. C = {k}
          BY <3>1, <4>2, <4>3, <5>1 DEF Matched, Distinct
        <5>3. A = {} /\ B = {}
          BY <3>1, <3>2, <4>2, <4>6 DEF Matched
        <5>. HIDE DEF A, B, C
        <5>4. Cardinality(C) = 1
          BY <2>2, <5>2
        <5>. QED
          BY <2>1, <2>2, <2>4, <3>4, <5>3, <5>4 DEF OneBurstWhileAwaited
      <4>. QED
        BY <3>1, <4>3, <4>4, <4>5, <4>6 DEF Matched
    <3>. QED
      BY <3>3, <3>4
  <2>. QED
    BY <2>3, <2>4
<1>. QED
  BY <1>1, ChannelInvariance, PTL

\* A sample asked for once a burst was posted is of something computed.
THEOREM SamplesAreOfProducts == SessionSpec => []SampleAfterBurstIsRight
<1>1. ChannelInv => SampleAfterBurstIsRight
  <2>. SUFFICES ASSUME ChannelInv PROVE SampleAfterBurstIsRight
    OBVIOUS
  <2>1. CASE worker = "live"
    BY <2>1 DEF ChannelInv, ChannelOK, Behind, SampleAfterBurstIsRight
  <2>2. CASE worker # "live"
    BY <2>2 DEF ChannelInv, ChannelOK, SampleAfterBurstIsRight
  <2>. QED
    BY <2>1, <2>2
<1>. QED
  BY <1>1, ChannelInvariance, PTL

\* What is proved of the governor alone holds in a session: revocation,
\* release, the pause, the tests before a burst, and the end of a session.
THEOREM SessionsAreGoverned ==
    SessionSpec => /\ []RevocationIsForGood
                   /\ []OverMeansReleased
                   /\ []PreemptedMeansPaused
                   /\ NoBurstPastALimit
                   /\ OverUnlessOvertaken
BY SessionImplementsGovernor, RevocationHolds, SessionsRelease, PreemptionPauses,
   BurstsRespectLimits, OverStaysOver
=============================================================================
