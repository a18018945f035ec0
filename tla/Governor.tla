------------------------------ MODULE Governor ------------------------------
(***************************************************************************)
(* The resource governor, packages/zkpoc-worker/src/governor.js: one       *)
(* start(), the burst loop it leaves running, and the page's revoke() and  *)
(* stop().  A step is one turn of the event loop, from where a function    *)
(* resumes to its next await; the awaits are where turns interleave.       *)
(*                                                                         *)
(* Times and shares are abstracted to what the control flow tests: whether *)
(* a limit is reached, the user is active, the device is in trouble.       *)
(***************************************************************************)
EXTENDS Naturals, Sequences

CONSTANT MaxCalls   \* bound: calls of revoke() and stop()

ASSUME GovernorAssumption == MaxCalls \in Nat

VARIABLES
    state,       \* the public State
    stopFlag,    \* _stopFlag
    worker,      \* "none" before start(), then "live", then "dead"
    starting,    \* what start() awaits, or how it ended
    loop,        \* what _loop() awaits
    monitors,    \* the page listeners that are attached
    backoff,     \* backoffFactor < 1
    emitted,     \* the events the governor's last turn dispatched
    admitted,    \* environment: the manifest verified and declares a share
    limitHit,    \* environment: duration, expiry or energy limit reached
    active,      \* environment: last interaction less than 400 ms ago
    hot,         \* environment: dropped frames or thermal decay
    battery,     \* environment: a member of BatteryLevels, or "none" where
                 \* the browser has no navigator.getBattery
    calls        \* calls of revoke() and stop() so far

control == <<state, stopFlag, worker, starting, loop, monitors, backoff>>
environment == <<admitted, limitHit, active, hot, battery>>
vars == <<control, emitted, environment, calls>>

AllMonitors == {"interaction", "frames"}
Final == {"stopped", "revoked", "expired"}
States == Final \cup {"idle", "running", "preempted", "backoff", "denied"}
BatteryLevels == {"charging", "draining", "floor"}
EventNames == {"state", "tick", "stopped", "fallback", "error"}

-----------------------------------------------------------------------------
(* Parts of a turn.  They take the state and the monitors the turn has      *)
(* reached and the events it has dispatched before.                         *)

\* _setState() dispatches nothing when the state stays the same.
Changed(from, to) == IF from = to THEN <<>> ELSE <<"state">>

\* The definitions named ...Fault are plausible bugs in the one they precede.
\* Nothing uses them: they are there to be swapped in, to see that the
\* properties notice.
FinishLeakingFault(final, from, before) ==
    /\ state' = final
    /\ emitted' = before \o Changed(from, final) \o <<"stopped">>
    /\ stopFlag' = TRUE
    /\ worker' = IF worker = "live" THEN "dead" ELSE worker
    /\ UNCHANGED monitors

FinishGracefulFault(final, from, before) ==
    /\ state' = final
    /\ emitted' = before \o Changed(from, final) \o <<"stopped">>
    /\ stopFlag' = TRUE
    /\ worker' = IF worker = "live" /\ loop # "burst" THEN "dead" ELSE worker
    /\ monitors' = {}

FinishUnnamedFault(final, from, before) ==
    /\ state' = final
    /\ emitted' = before \o Changed(from, final) \o <<final>>
    /\ stopFlag' = TRUE
    /\ worker' = IF worker = "live" THEN "dead" ELSE worker
    /\ monitors' = {}

\* _finish()
Finish(final, from, before) ==
    /\ state' = final
    /\ emitted' = before \o Changed(from, final) \o <<"stopped">>
    /\ stopFlag' = TRUE
    /\ worker' = IF worker = "live" THEN "dead" ELSE worker
    /\ monitors' = {}

\* _updateBackoff()
Reduced == hot \/ battery \in {"draining", "floor"}

\* The user acted: nothing runs until a later pass finds the page quiet.
Preempt(from, before, on) ==
    /\ state' = "preempted"
    /\ emitted' = before \o Changed(from, "preempted")
    /\ loop' = "quiet"
    /\ stopFlag' = FALSE
    /\ monitors' = on
    /\ UNCHANGED <<worker, backoff>>

ResumedFault(from) ==
    IF from \in {"running", "backoff", "preempted"} THEN from
    ELSE IF Reduced THEN "backoff" ELSE "running"

Resumed(from) ==
    IF from \in {"running", "backoff"} THEN from
    ELSE IF Reduced THEN "backoff" ELSE "running"

\* A burst is posted.  Posting to a worker that is gone throws, and the catch
\* clause ends the session.
PostBurst(from, before, on) ==
    /\ backoff' = Reduced
    /\ IF worker = "live"
       THEN /\ state' = Resumed(from)
            /\ emitted' = before \o Changed(from, Resumed(from))
            /\ loop' = "burst"
            /\ stopFlag' = FALSE
            /\ monitors' = on
            /\ UNCHANGED worker
       ELSE /\ Finish("stopped", Resumed(from),
                      before \o Changed(from, Resumed(from)) \o <<"error">>)
            /\ loop' = "exited"

End(final, from, before) ==
    /\ Finish(final, from, before)
    /\ loop' = "exited"
    /\ UNCHANGED backoff

PassUserFirstFault(from, before, on) ==
    \/ active /\ Preempt(from, before, on)
    \/ ~active /\ limitHit /\ End("expired", from, before)
    \/ ~active /\ ~limitHit /\ battery = "floor" /\ End("stopped", from, before)
    \/ ~active /\ ~limitHit /\ battery # "floor" /\ PostBurst(from, before, on)

PassNoFloorFault(from, before, on) ==
    \/ limitHit /\ End("expired", from, before)
    \/ ~limitHit /\ active /\ Preempt(from, before, on)
    \/ ~limitHit /\ ~active /\ PostBurst(from, before, on)

\* One pass through the body of _loop(), up to its first await.
Pass(from, before, on) ==
    \/ limitHit /\ End("expired", from, before)
    \/ ~limitHit /\ battery = "floor" /\ End("stopped", from, before)
    \/ ~limitHit /\ battery # "floor" /\ active /\ Preempt(from, before, on)
    \/ ~limitHit /\ battery # "floor" /\ ~active /\ PostBurst(from, before, on)

\* _maybeTick() dispatches a tick when tickMs have passed since the last one.
Ticks == {<<>>, <<"tick">>}

NextPassFault(before) == Pass(state, before, monitors)

\* The test of _stopFlag at the head of the loop.
NextPass(before) ==
    IF stopFlag
    THEN /\ loop' = "exited"
         /\ emitted' = before
         /\ UNCHANGED <<state, stopFlag, worker, monitors, backoff>>
    ELSE Pass(state, before, monitors)

-----------------------------------------------------------------------------
(* start() *)

Init ==
    /\ state = "idle" /\ stopFlag = FALSE /\ worker = "none"
    /\ starting = "uncalled" /\ loop = "none" /\ monitors = {}
    /\ backoff = FALSE /\ emitted = <<>> /\ calls = 0
    /\ admitted \in BOOLEAN /\ limitHit = FALSE /\ hot = FALSE
    /\ active \in BOOLEAN     \* the page may be less than 400 ms old
    /\ battery \in BatteryLevels \cup {"none"}

Start ==
    /\ starting = "uncalled"
    /\ IF admitted
       THEN /\ worker' = "live"
            /\ starting' = "init"
            /\ emitted' = <<>>
            /\ UNCHANGED state
       ELSE /\ state' = "denied"
            /\ starting' = "denied"
            /\ emitted' = Changed(state, "denied")
            /\ UNCHANGED worker
    /\ UNCHANGED <<stopFlag, loop, monitors, backoff, environment, calls>>

\* The rest of start(), after its last await: _stopFlag is cleared whatever
\* happened meanwhile, and the loop makes its first pass in the same turn.
Begin(before) ==
    /\ starting' = "returned"
    /\ Pass("running", before \o Changed(state, "running"), AllMonitors)

\* The worker answers init.  A worker that was terminated answers nothing.
InitAnswers ==
    /\ starting = "init"
    /\ worker = "live"
    /\ \E fallback \in {<<>>, <<"fallback">>} :
          IF battery # "none"
          THEN /\ starting' = "battery"
               /\ emitted' = fallback
               /\ UNCHANGED <<state, stopFlag, worker, loop, monitors, backoff>>
          ELSE Begin(fallback)
    /\ UNCHANGED <<environment, calls>>

\* Or reports an error: start() rejects, and the worker stays.
InitFails ==
    /\ starting = "init"
    /\ worker = "live"
    /\ starting' = "threw"
    /\ emitted' = <<>>
    /\ UNCHANGED <<state, stopFlag, worker, loop, monitors, backoff, environment, calls>>

BatteryReady ==
    /\ starting = "battery"
    /\ Begin(<<>>)
    /\ UNCHANGED <<environment, calls>>

-----------------------------------------------------------------------------
(* The burst loop *)

\* A burst is answered.  The loop resumes in the turn that delivers the answer,
\* so its test of _stopFlag right after the await never finds it set.  A share
\* already repaid (idleMs = 0) leads straight into the next pass.
BurstDone ==
    /\ loop = "burst"
    /\ worker = "live"
    /\ \E tick \in Ticks :
          \/ /\ loop' = "idle"
             /\ emitted' = tick
             /\ UNCHANGED <<state, stopFlag, worker, monitors, backoff>>
          \/ NextPass(tick)
    /\ UNCHANGED <<starting, environment, calls>>

BurstFails ==
    /\ loop = "burst"
    /\ worker = "live"
    /\ End("stopped", state, <<"error">>)
    /\ UNCHANGED <<starting, environment, calls>>

IdleOver ==
    /\ loop = "idle"
    /\ NextPass(<<>>)
    /\ UNCHANGED <<starting, environment, calls>>

QuietOverFault ==
    /\ loop = "quiet"
    /\ loop' = IF stopFlag \/ active THEN "exited" ELSE "idle"
    /\ emitted' = <<>>
    /\ UNCHANGED <<state, stopFlag, worker, monitors, backoff,
                   starting, environment, calls>>

\* After the 50 ms of a preempted pass, _maybeTick() runs before _stopFlag is
\* looked at.
QuietOver ==
    /\ loop = "quiet"
    /\ \E tick \in Ticks : NextPass(tick)
    /\ UNCHANGED <<starting, environment, calls>>

-----------------------------------------------------------------------------
(* The page and the device *)

\* revoke() and stop(), called by whoever called start().
Call(final) ==
    /\ starting # "uncalled"
    /\ calls < MaxCalls
    /\ calls' = calls + 1
    /\ Finish(final, state, <<>>)
    /\ UNCHANGED <<starting, loop, backoff, environment>>

Revoke == Call("revoked")
Stop == Call("stopped")

LimitReached ==
    /\ ~limitHit
    /\ limitHit' = TRUE
    /\ emitted' = <<>>
    /\ UNCHANGED <<control, admitted, active, hot, battery, calls>>

\* An interaction is only noticed while the listeners are attached.
ActivityChanges ==
    /\ active \/ "interaction" \in monitors
    /\ active' = ~active
    /\ emitted' = <<>>
    /\ UNCHANGED <<control, admitted, limitHit, hot, battery, calls>>

\* The loop learns of dropped frames and thermal decay at its next pass ...
HealthChanges ==
    /\ starting = "returned"
    /\ hot' = ~hot
    /\ emitted' = <<>>
    /\ UNCHANGED <<control, admitted, limitHit, active, battery, calls>>

\* ... and battery events call _updateBackoff() themselves.  Their listeners
\* are never removed.
BatteryChanges ==
    /\ battery # "none"
    /\ battery' \in BatteryLevels \ {battery}
    /\ backoff' = IF starting = "returned" THEN hot \/ battery' # "charging"
                                           ELSE backoff
    /\ emitted' = <<>>
    /\ UNCHANGED <<state, stopFlag, worker, starting, loop, monitors,
                   admitted, limitHit, active, hot, calls>>

Next ==
    \/ Start \/ InitAnswers \/ InitFails \/ BatteryReady
    \/ BurstDone \/ BurstFails \/ IdleOver \/ QuietOver
    \/ Revoke \/ Stop
    \/ LimitReached \/ ActivityChanges \/ HealthChanges \/ BatteryChanges

Spec == Init /\ [][Next]_vars

\* Timers fire, the battery promise settles, and the worker answers what it is
\* asked: a burst ends after 64 shards at the latest (worker.js:118).
FairSpec ==
    /\ Spec
    /\ WF_vars(InitAnswers \/ InitFails)
    /\ WF_vars(BatteryReady)
    /\ WF_vars(BurstDone \/ BurstFails)
    /\ WF_vars(IdleOver)
    /\ WF_vars(QuietOver)

-----------------------------------------------------------------------------
(* Properties *)

\* Type invariant.
TypeOK ==
    /\ state \in States
    /\ stopFlag \in BOOLEAN
    /\ worker \in {"none", "live", "dead"}
    /\ starting \in {"uncalled", "denied", "init", "battery", "returned", "threw"}
    /\ loop \in {"none", "burst", "idle", "quiet", "exited"}
    /\ monitors \in SUBSET AllMonitors
    /\ backoff \in BOOLEAN
    /\ emitted \in Seq(EventNames)
    /\ <<admitted, limitHit, active, hot>> \in BOOLEAN \X BOOLEAN \X BOOLEAN \X BOOLEAN
    /\ battery \in BatteryLevels \cup {"none"}
    /\ calls \in 0 .. MaxCalls

\* "Revocation is unconditional and immediate" (SECURITY.md:67): from the call
\* on no worker computes for the page again, wherever start() and the loop
\* were, although start() may later clear the stop flag and run the loop.
RevocationIsForGood == calls > 0 => worker # "live"

\* A session that reports itself over has released the page: the worker is
\* gone, no listener and no animation frame is left behind.
OverMeansReleased ==
    state \in Final => stopFlag /\ worker # "live" /\ monitors = {}

\* "PREEMPTED = user interacted recently, work is fully paused" (API.md:115):
\* no burst is in flight under that state, whichever way the loop got there.
PreemptedMeansPaused == state = "preempted" => loop # "burst" \/ worker # "live"

\* A burst is only ever posted with every hard stop clear and the user quiet
\* at that moment, on all four ways into a pass (governor.js:195-215).
NoBurstPastALimit ==
    [][loop' = "burst" /\ UNCHANGED <<environment, calls>>
         => ~limitHit /\ battery # "floor" /\ ~active]_vars

\* A session that has reported its end never reports running again, except
\* in one place: the rest of start() after the battery promise (177-178).
OverUnlessOvertaken ==
    [][(state \in Final /\ state' \notin Final)
         => starting = "battery" /\ starting' = "returned"]_vars

\* A session past its limits ends, even if the user never stops interacting.
LimitsEndTheSession == limitHit /\ starting = "returned" ~> worker # "live"

\* Once the user is quiet for good, the session is not left preempted.
QuietUserIsServed == <>[]~active => <>[](state # "preempted")

-----------------------------------------------------------------------------
(* What the documents say, and the code does not always do *)

\* revoke() "must be instant and unconditional" (governor.js:183), and REVOKED
\* is terminal (API.md:105).  A revoke() while start() awaits the battery is
\* overtaken by the rest of start().
RevokedStaysRevoked == [][state = "revoked" => state' = "revoked"]_vars
=============================================================================
