-------------------------- MODULE ShardQueue_proofs --------------------------
(***************************************************************************)
(* Proofs about ShardQueue, for every pool of shards and workers, every    *)
(* redundancy, lease time and attempt limit, and a clock that may step     *)
(* back.                                                                   *)
(***************************************************************************)
EXTENDS ShardQueue, FiniteSetTheorems, SequenceTheorems, TLAPS

\* Only an enqueued shard has leases or is settled.
OnlyQueuedTouched ==
    /\ \A s \in Shards : s \notin Queued => Holders(assignments, s) = {}
    /\ completed \cup abandoned \subseteq Queued

\* The inductive invariant.  SlotBound needs SettledConsistent (a submission
\* must not reach a full shard), which needs SlotBound (a full shard has no
\* running lease) and ReplicaIndependence (an answer of a running lease is a
\* new one).
IInv ==
    /\ TypeOK
    /\ OnlyQueuedTouched
    /\ SlotBound
    /\ ReplicaIndependence
    /\ SettledConsistent
    /\ OneLeasePerWorker

-----------------------------------------------------------------------------
(* Sets of workers are finite, so they can be counted. *)

\* The workers that hold, run or answered a lease of a shard are finitely many.
LEMMA WorkerSetsFinite ==
    ASSUME NEW S, S \subseteq Workers
    PROVE  IsFiniteSet(S) /\ Cardinality(S) \in Nat
<1>1. IsFiniteSet(S)
    BY FS_Subset, QueueAssumption
<1>2. QED
    BY <1>1, FS_CardinalityType

\* A lease keeps its type when only its state changes.
LEMMA LeaseMoved ==
    ASSUME NEW l \in Lease, NEW st \in LeaseState
    PROVE  [l EXCEPT !.state = st] \in Lease
BY DEF Lease

\* What expireLeases() does to the assignments: it keeps their type and who
\* holds what, it only takes running leases away, and it leaves submitted and
\* expired ones alone.
LEMMA ReclaimedFacts ==
    ASSUME TypeOK
    PROVE  /\ Reclaimed \in [Shards -> [Workers -> Lease]]
           /\ \A s \in Shards :
                /\ Holders(Reclaimed, s) = Holders(assignments, s)
                /\ Outstanding(Reclaimed, s) \subseteq Outstanding(assignments, s)
                /\ \A w \in Workers :
                     /\ Reclaimed[s][w].state = "submitted"
                          <=> assignments[s][w].state = "submitted"
                     /\ assignments[s][w].state \in {"submitted", "expired"}
                          => Reclaimed[s][w] = assignments[s][w]
<1>1. ASSUME NEW s \in Shards, NEW w \in Workers
      PROVE  /\ Reclaimed[s][w] \in Lease
             /\ Reclaimed[s][w] = assignments[s][w]
                \/ /\ assignments[s][w].state = "active"
                   /\ Reclaimed[s][w].state = "expired"
  <2>1. assignments[s][w] \in [state : LeaseState, assignedAt : Nat]
    BY DEF TypeOK, Lease
  <2>2. [assignments[s][w] EXCEPT !.state = "expired"] \in Lease
    BY <2>1, LeaseMoved DEF Lease, LeaseState
  <2>3. Reclaimed[s][w] = IF s \in Open /\ Overdue(assignments[s][w])
                          THEN [assignments[s][w] EXCEPT !.state = "expired"]
                          ELSE assignments[s][w]
    BY DEF Reclaimed
  <2>4. CASE s \in Open /\ Overdue(assignments[s][w])
    BY <2>1, <2>2, <2>3, <2>4 DEF Overdue
  <2>5. CASE ~(s \in Open /\ Overdue(assignments[s][w]))
    BY <2>1, <2>3, <2>5 DEF Lease
  <2>6. QED
    BY <2>4, <2>5
<1>2. Reclaimed \in [Shards -> [Workers -> Lease]]
    BY <1>1 DEF Reclaimed
<1>3. ASSUME NEW s \in Shards
      PROVE  /\ Holders(Reclaimed, s) = Holders(assignments, s)
             /\ Outstanding(Reclaimed, s) \subseteq Outstanding(assignments, s)
    BY <1>1 DEF Holders, Outstanding
<1>4. ASSUME NEW s \in Shards, NEW w \in Workers
      PROVE  /\ Reclaimed[s][w].state = "submitted"
                  <=> assignments[s][w].state = "submitted"
             /\ assignments[s][w].state \in {"submitted", "expired"}
                  => Reclaimed[s][w] = assignments[s][w]
    BY <1>1
<1>5. QED
    BY <1>2, <1>3, <1>4

-----------------------------------------------------------------------------
(* Type correctness *)

\* A step of the queue keeps its records' types.
LEMMA TypeStep == TypeOK /\ [Next]_vars => TypeOK'
<1> SUFFICES ASSUME TypeOK, [Next]_vars
             PROVE  TypeOK'
    OBVIOUS
<1> USE QueueAssumption
<1>1. ASSUME NEW s \in Shards, Enqueue(s)
      PROVE  TypeOK'
  <2>1. order' \in Seq(Shards)
    BY <1>1, AppendProperties DEF Enqueue, TypeOK
  <2>2. QED
    BY <1>1, <2>1 DEF Enqueue, TypeOK
<1>2. GivenUp \subseteq Shards
    BY DEF GivenUp, Open, Queued, TypeOK
<1>3. CASE ExpireLeases
    BY <1>2, <1>3, ReclaimedFacts DEF ExpireLeases, TypeOK
<1>4. ASSUME NEW w \in Workers, Assign(w)
      PROVE  TypeOK'
  <2>1. CASE LeaseOldest(w)
    <3>1. PICK i \in DOMAIN order :
                 /\ order[i] \in Eligible(w)
                 /\ assignments' = [Reclaimed EXCEPT ![order[i]][w] = FreshLease]
                 /\ attempts' = [attempts EXCEPT ![order[i]] = @ + 1]
      BY <2>1 DEF LeaseOldest
    <3>2. order[i] \in Shards
      BY DEF TypeOK
    <3>3. FreshLease \in Lease
      BY DEF FreshLease, Lease, LeaseState, TypeOK
    <3>4. assignments' \in [Shards -> [Workers -> Lease]]
      BY <3>1, <3>2, <3>3, ReclaimedFacts
    <3>5. attempts' \in [Shards -> Nat]
      BY <3>1, <3>2 DEF TypeOK
    <3>6. QED
      BY <1>2, <1>4, <3>4, <3>5 DEF Assign, TypeOK
  <2>2. CASE LeaseNothing(w)
    BY <1>2, <1>4, <2>2, ReclaimedFacts DEF Assign, LeaseNothing, TypeOK
  <2>3. QED
    BY <1>4, <2>1, <2>2 DEF Assign
<1>5. ASSUME NEW w \in Workers, NEW s \in Shards, Submit(w, s)
      PROVE  TypeOK'
  <2>1. assignments' \in [Shards -> [Workers -> Lease]]
    <3>1. [assignments[s][w] EXCEPT !.state = "submitted"] \in Lease
      BY LeaseMoved DEF TypeOK, LeaseState
    <3>2. assignments' = [assignments EXCEPT ![s][w] =
                            [assignments[s][w] EXCEPT !.state = "submitted"]]
      BY <1>5 DEF Submit, TypeOK
    <3>3. QED
      BY <3>1, <3>2 DEF TypeOK
  <2>2. [workerId |-> w, elapsedMs |-> now - assignments[s][w].assignedAt]
          \in [workerId : Workers, elapsedMs : Int]
    BY DEF TypeOK, Lease
  <2>3. results' \in [Shards -> Seq([workerId : Workers, elapsedMs : Int])]
    BY <1>5, <2>2, AppendProperties DEF Submit, TypeOK
  <2>4. QED
    BY <1>5, <2>1, <2>3 DEF Submit, TypeOK
<1>6. CASE Tick
  <2>1. now' \in Nat
    BY <1>6 DEF Tick, TypeOK
  <2>2. UNCHANGED <<order, assignments, results, attempts, completed, abandoned>>
    BY <1>6 DEF Tick
  <2>3. QED
    BY <2>1, <2>2 DEF TypeOK
<1>7. CASE StepBack
  <2>1. now > 0 /\ now' = now - 1
    BY <1>7 DEF StepBack
  <2>2. now' \in Nat
    BY <2>1 DEF TypeOK
  <2>3. UNCHANGED <<order, assignments, results, attempts, completed, abandoned>>
    BY <1>7 DEF StepBack
  <2>4. QED
    BY <2>2, <2>3 DEF TypeOK
<1>8. CASE UNCHANGED vars
    BY <1>8 DEF vars, TypeOK
<1>9. QED
    BY <1>1, <1>3, <1>4, <1>5, <1>6, <1>7, <1>8 DEF Next

\* The queue's records always have the types of queue.js:95-102.
THEOREM TypeCorrect == Spec => []TypeOK
<1>1. Init => TypeOK
    BY DEF Init, TypeOK, NoLease, Lease, LeaseState
<1>2. QED
    BY <1>1, TypeStep, PTL DEF Spec

-----------------------------------------------------------------------------
(* The inductive invariant *)

\* A sweep of expireLeases() keeps the invariant of the shards it touches,
\* read on the assignments and give-ups it produces.
LEMMA SweepFacts ==
    ASSUME IInv
    PROVE  /\ GivenUp \subseteq Open
           /\ \A s \in Shards :
                /\ Len(results[s]) \in Nat
                /\ Cardinality(Outstanding(Reclaimed, s)) \in Nat
                /\ Cardinality(Outstanding(Reclaimed, s))
                     <= Cardinality(Outstanding(assignments, s))
                /\ s \in completed \cup abandoned \cup GivenUp
                     => Outstanding(Reclaimed, s) = {}
                /\ s \in GivenUp => /\ s \notin completed
                                    /\ attempts[s] >= MaxAttempts
<1>1. GivenUp \subseteq Open
    BY DEF GivenUp
<1>2. ASSUME NEW s \in Shards
      PROVE  /\ Len(results[s]) \in Nat
             /\ Cardinality(Outstanding(Reclaimed, s)) \in Nat
             /\ Cardinality(Outstanding(Reclaimed, s))
                  <= Cardinality(Outstanding(assignments, s))
  <2>1. Len(results[s]) \in Nat
    BY LenProperties DEF IInv, TypeOK
  <2>2. /\ Outstanding(assignments, s) \subseteq Workers
        /\ Outstanding(Reclaimed, s) \subseteq Outstanding(assignments, s)
    BY ReclaimedFacts DEF IInv, Outstanding
  <2>3. QED
    BY <2>1, <2>2, WorkerSetsFinite, FS_Subset
<1>3. ASSUME NEW s \in Shards, s \in completed \cup abandoned \cup GivenUp
      PROVE  Outstanding(Reclaimed, s) = {}
  <2>1. CASE s \in completed \cup abandoned
    BY <2>1, ReclaimedFacts DEF IInv, SettledConsistent
  <2>2. CASE s \in GivenUp
    BY <2>2 DEF GivenUp
  <2>3. QED
    BY <1>3, <2>1, <2>2
<1>4. ASSUME NEW s \in Shards, s \in GivenUp
      PROVE  s \notin completed /\ attempts[s] >= MaxAttempts
    BY <1>4 DEF GivenUp, Open
<1>5. QED
    BY <1>1, <1>2, <1>3, <1>4

\* expireLeases() keeps the invariant.
LEMMA ExpireStep ==
    ASSUME IInv, TypeOK', ExpireLeases
    PROVE  IInv'
<1> USE QueueAssumption
<1>1. /\ assignments' = Reclaimed
      /\ abandoned' = abandoned \cup GivenUp
      /\ order' = order /\ results' = results
      /\ attempts' = attempts /\ completed' = completed
    BY DEF ExpireLeases
<1>2. TypeOK
    BY DEF IInv
<1>3. \A s \in Shards : Answerers(s)' = Answerers(s)
    BY <1>1 DEF Answerers
<1>4. OnlyQueuedTouched'
  <2>1. \A s \in Shards : Holders(assignments', s) = Holders(assignments, s)
    BY <1>1, <1>2, ReclaimedFacts
  <2>2. GivenUp \subseteq Queued
    BY DEF GivenUp, Open
  <2>3. Queued' = Queued
    BY <1>1 DEF Queued
  <2>4. QED
    BY <1>1, <2>1, <2>2, <2>3 DEF IInv, OnlyQueuedTouched
<1>5. SlotBound'
  <2> SUFFICES ASSUME NEW s \in Shards
               PROVE  Len(results[s]) + Cardinality(Outstanding(Reclaimed, s))
                        <= Redundancy
    BY <1>1 DEF SlotBound
  <2>1. Cardinality(Outstanding(assignments, s)) \in Nat
    BY WorkerSetsFinite DEF Outstanding
  <2>2. QED
    BY <2>1, SweepFacts DEF IInv, SlotBound
<1>6. ReplicaIndependence'
    BY <1>1, <1>2, <1>3, ReclaimedFacts DEF IInv, ReplicaIndependence
<1>7. SettledConsistent'
    BY <1>1, SweepFacts DEF IInv, SettledConsistent
<1>8. OneLeasePerWorker'
    BY <1>1, <1>2, ReclaimedFacts DEF IInv, OneLeasePerWorker
<1>9. QED
    BY <1>4, <1>5, <1>6, <1>7, <1>8 DEF IInv

\* Leasing the oldest eligible shard keeps the invariant: the only shard whose
\* count of running leases grows is one with a replica slot to spare.
LEMMA LeaseStep ==
    ASSUME IInv, TypeOK', NEW w \in Workers, Assign(w), LeaseOldest(w)
    PROVE  IInv'
<1> USE QueueAssumption
<1>1. PICK i \in DOMAIN order :
             /\ order[i] \in Eligible(w)
             /\ assignments' = [Reclaimed EXCEPT ![order[i]][w] = FreshLease]
             /\ attempts' = [attempts EXCEPT ![order[i]] = @ + 1]
    BY DEF LeaseOldest
<1> DEFINE t == order[i]
<1>2. /\ abandoned' = abandoned \cup GivenUp
      /\ order' = order /\ results' = results /\ completed' = completed
    BY DEF Assign
<1>3. TypeOK
    BY DEF IInv
<1>4. /\ t \in Open \ GivenUp
      /\ w \notin Holders(assignments, t)
      /\ w \notin Answerers(t)
      /\ Len(results[t]) + Cardinality(Outstanding(Reclaimed, t)) < Redundancy
      /\ t \in Shards
  <2>1. t \in Shards
    BY <1>3 DEF TypeOK
  <2>2. QED
    BY <1>1, <1>3, <2>1, ReclaimedFacts DEF Eligible
<1>5. /\ \A s \in Shards, v \in Workers :
            assignments'[s][v] = IF s = t /\ v = w THEN FreshLease
                                 ELSE Reclaimed[s][v]
      /\ FreshLease.state = "active"
    BY <1>1, <1>3, <1>4, ReclaimedFacts DEF FreshLease
<1>6. \A s \in Shards : s # t =>
            /\ Holders(assignments', s) = Holders(assignments, s)
            /\ Outstanding(assignments', s) = Outstanding(Reclaimed, s)
  <2> SUFFICES ASSUME NEW s \in Shards, s # t
               PROVE  /\ Holders(assignments', s) = Holders(assignments, s)
                      /\ Outstanding(assignments', s) = Outstanding(Reclaimed, s)
      OBVIOUS
  <2>1. \A v \in Workers : assignments'[s][v] = Reclaimed[s][v]
    BY <1>5
  <2>2. Holders(assignments', s) = Holders(Reclaimed, s)
    BY <2>1 DEF Holders
  <2>3. QED
    BY <1>3, <2>1, <2>2, ReclaimedFacts DEF Outstanding
<1>7. /\ Holders(assignments', t) = Holders(assignments, t) \cup {w}
      /\ Outstanding(assignments', t) = Outstanding(Reclaimed, t) \cup {w}
  <2>1. Holders(assignments', t) = Holders(Reclaimed, t) \cup {w}
    BY <1>4, <1>5 DEF Holders
  <2>2. Outstanding(assignments', t) = Outstanding(Reclaimed, t) \cup {w}
    BY <1>4, <1>5 DEF Outstanding
  <2>3. QED
    BY <1>3, <1>4, <2>1, <2>2, ReclaimedFacts
<1>8. /\ \A s \in Shards : Answerers(s)' = Answerers(s)
      /\ Queued' = Queued
    BY <1>2 DEF Answerers, Queued
<1>9. OnlyQueuedTouched'
  <2>1. t \in Queued /\ GivenUp \subseteq Queued
    BY <1>4 DEF GivenUp, Open
  <2>2. QED
    BY <1>2, <1>6, <1>8, <2>1 DEF IInv, OnlyQueuedTouched
<1>10. SlotBound'
  <2> SUFFICES ASSUME NEW s \in Shards
               PROVE  Len(results[s]) + Cardinality(Outstanding(assignments', s))
                        <= Redundancy
    BY <1>2 DEF SlotBound
  <2>1. /\ Cardinality(Outstanding(assignments, s)) \in Nat
        /\ IsFiniteSet(Outstanding(Reclaimed, s))
    BY WorkerSetsFinite DEF Outstanding
  <2>2. CASE s # t
    BY <1>6, <2>1, <2>2, SweepFacts DEF IInv, SlotBound
  <2>3. CASE s = t
    <3>1. Cardinality(Outstanding(assignments', t))
            <= Cardinality(Outstanding(Reclaimed, t)) + 1
      <4>1. /\ IsFiniteSet(Outstanding(Reclaimed, t))
            /\ Cardinality(Outstanding(Reclaimed, t)) \in Nat
        BY <1>4, <2>1, <2>3, SweepFacts
      <4> DEFINE running == Outstanding(Reclaimed, t)
      <4>2. Cardinality(running \cup {w}) =
              IF w \in running THEN Cardinality(running)
                               ELSE Cardinality(running) + 1
        BY <4>1, FS_AddElement
      <4>3. Outstanding(assignments', t) = running \cup {w}
        BY <1>7
      <4> HIDE DEF running
      <4>4. Cardinality(running) \in Nat
        BY <4>1 DEF running
      <4>5. Cardinality(running \cup {w}) <= Cardinality(running) + 1
        BY <4>2, <4>4
      <4>6. QED
        BY <4>3, <4>5 DEF running
    <3>2. Cardinality(Outstanding(assignments', t)) \in Nat
      BY WorkerSetsFinite DEF Outstanding
    <3>3. QED
      BY <1>4, <2>3, <3>1, <3>2, SweepFacts
  <2>4. QED
    BY <2>2, <2>3
<1>11. ReplicaIndependence'
  <2>1. \A s \in Shards, v \in Workers :
            assignments'[s][v].state = "submitted"
                <=> assignments[s][v].state = "submitted"
    <3> SUFFICES ASSUME NEW s \in Shards, NEW v \in Workers
                 PROVE  assignments'[s][v].state = "submitted"
                          <=> assignments[s][v].state = "submitted"
      OBVIOUS
    <3>1. CASE s = t /\ v = w
      <4>1. assignments[t][w].state = "none"
        BY <1>4 DEF Holders
      <4>2. QED
        BY <1>5, <3>1, <4>1
    <3>2. CASE ~(s = t /\ v = w)
      BY <1>3, <1>5, <3>2, ReclaimedFacts
    <3>3. QED
      BY <3>1, <3>2
  <2>2. QED
    BY <1>2, <1>8, <2>1 DEF IInv, ReplicaIndependence
<1>12. SettledConsistent'
  <2> SUFFICES ASSUME NEW s \in Shards
               PROVE  /\ s \in completed <=> Len(results[s]) = Redundancy
                      /\ s \in abandoned' => /\ attempts'[s] >= MaxAttempts
                                             /\ s \notin completed
                      /\ s \in completed \cup abandoned'
                           => Outstanding(assignments', s) = {}
    BY <1>2 DEF SettledConsistent
  <2>1. CASE s # t
    BY <1>1, <1>2, <1>3, <1>6, <2>1, SweepFacts DEF IInv, SettledConsistent, TypeOK
  <2>2. CASE s = t
    BY <1>2, <1>4, <2>2 DEF IInv, SettledConsistent, Open
  <2>3. QED
    BY <2>1, <2>2
<1>13. OneLeasePerWorker'
  <2> SUFFICES ASSUME NEW s \in Shards
               PROVE  attempts'[s] = Cardinality(Holders(assignments', s))
    BY DEF OneLeasePerWorker
  <2>1. CASE s # t
    BY <1>1, <1>3, <1>6, <2>1 DEF IInv, OneLeasePerWorker, TypeOK
  <2>2. CASE s = t
    <3>1. IsFiniteSet(Holders(assignments, t))
      BY WorkerSetsFinite DEF Holders
    <3>2. Cardinality(Holders(assignments', t))
            = Cardinality(Holders(assignments, t)) + 1
      BY <1>4, <1>7, <3>1, FS_AddElement
    <3>3. attempts'[t] = attempts[t] + 1
      BY <1>1, <1>3, <1>4 DEF TypeOK
    <3>4. QED
      BY <1>4, <2>2, <3>2, <3>3 DEF IInv, OneLeasePerWorker
  <2>3. QED
    BY <2>1, <2>2
<1>14. QED
    BY <1>9, <1>10, <1>11, <1>12, <1>13 DEF IInv

\* An answer is admitted only from a running lease of an enqueued shard, for
\* a worker that has not answered it.
LEMMA AdmittedFacts ==
    ASSUME NEW w \in Workers, NEW s \in Shards, Submit(w, s)
    PROVE  /\ s \in Queued
           /\ w \notin Answerers(s)
           /\ assignments[s][w].state = "active"
<1>1. SubmitReason(w, s) = "accepted"
    BY DEF Submit
<1>2. s \in Queued
    BY <1>1 DEF SubmitReason
<1>3. w \in Holders(assignments, s)
    BY <1>1, <1>2 DEF SubmitReason
<1>4. w \notin Answerers(s)
    BY <1>1, <1>2, <1>3 DEF SubmitReason
<1>5. assignments[s][w].state = "active"
    BY <1>1, <1>2, <1>3, <1>4 DEF SubmitReason
<1>6. QED
    BY <1>2, <1>4, <1>5

\* What an admitted answer does to the shard's leases and results, and that
\* it leaves every other shard alone.
LEMMA SubmitEffect ==
    ASSUME TypeOK, NEW w \in Workers, NEW s \in Shards, Submit(w, s)
    PROVE  /\ \A r \in Shards, v \in Workers :
                ~(r = s /\ v = w) => assignments'[r][v] = assignments[r][v]
           /\ assignments'[s][w].state = "submitted"
           /\ \A r \in Shards : r # s =>
                /\ Holders(assignments', r) = Holders(assignments, r)
                /\ Outstanding(assignments', r) = Outstanding(assignments, r)
                /\ Answerers(r)' = Answerers(r)
                /\ Len(results'[r]) = Len(results[r])
           /\ Holders(assignments', s) = Holders(assignments, s)
           /\ Outstanding(assignments', s) = Outstanding(assignments, s) \ {w}
           /\ Answerers(s)' = Answerers(s) \cup {w}
           /\ Len(results'[s]) = Len(results[s]) + 1
           /\ Len(results[s]) \in Nat
<1>1. \A r \in Shards, v \in Workers :
         assignments'[r][v] = IF r = s /\ v = w
             THEN [assignments[s][w] EXCEPT !.state = "submitted"]
             ELSE assignments[r][v]
    BY DEF Submit, TypeOK
<1>2. assignments'[s][w].state = "submitted"
  <2>1. assignments[s][w] \in Lease
    BY DEF TypeOK
  <2>2. QED
    BY <1>1, <2>1 DEF Lease
<1>3. assignments[s][w].state = "active"
    BY AdmittedFacts
<1>4. ASSUME NEW r \in Shards
      PROVE  /\ Holders(assignments', r) = Holders(assignments, r)
             /\ Outstanding(assignments', r) =
                  IF r = s THEN Outstanding(assignments, s) \ {w}
                  ELSE Outstanding(assignments, r)
  <2>1. CASE r # s
    BY <1>1, <2>1 DEF Holders, Outstanding
  <2>2. CASE r = s
    <3>1. \A v \in Workers : v # w => assignments'[s][v] = assignments[s][v]
      BY <1>1
    <3>2. QED
      BY <1>2, <1>3, <2>2, <3>1 DEF Holders, Outstanding
  <2>3. QED
    BY <2>1, <2>2
<1>5. ASSUME NEW r \in Shards
      PROVE  /\ Answerers(r)' = IF r = s THEN Answerers(s) \cup {w}
                                ELSE Answerers(r)
             /\ Len(results'[r]) = IF r = s THEN Len(results[s]) + 1
                                   ELSE Len(results[r])
             /\ Len(results[r]) \in Nat
  <2> DEFINE Answer == [workerId : Workers, elapsedMs : Int]
             new == [workerId  |-> w,
                     elapsedMs |-> now - assignments[s][w].assignedAt]
  <2>1. results \in [Shards -> Seq(Answer)]
    BY DEF TypeOK
  <2>2. results' = [results EXCEPT ![s] = Append(results[s], new)]
    BY DEF Submit
  <2>3. Len(results[r]) \in Nat /\ DOMAIN results[r] = 1 .. Len(results[r])
    BY <2>1, LenProperties
  <2>4. CASE r # s
    <3>1. results'[r] = results[r]
      BY <2>1, <2>2, <2>4
    <3>2. QED
      BY <2>3, <2>4, <3>1 DEF Answerers
  <2>5. CASE r = s
    <3>1. new \in Answer
      BY DEF TypeOK, Lease
    <3> HIDE DEF new, Answer
    <3>2. results'[r] = Append(results[r], new)
      BY <2>1, <2>2, <2>5
    <3>3. results[r] \in Seq(Answer)
      BY <2>1
    <3>4. Append(results[r], new) \in Seq(Answer)
      BY <3>1, <3>3, AppendProperties
    <3>5. /\ Len(Append(results[r], new)) = Len(results[r]) + 1
          /\ \A i \in 1 .. Len(results[r]) :
                Append(results[r], new)[i] = results[r][i]
          /\ Append(results[r], new)[Len(results[r]) + 1] = new
      BY <3>1, <3>3, AppendProperties
    <3>6. DOMAIN results'[r] = 1 .. Len(results[r]) + 1
      BY <3>2, <3>4, <3>5, LenProperties
    <3>7. new.workerId = w
      BY DEF new
    <3>8. Answerers(r)' = Answerers(r) \cup {w}
      BY <2>3, <3>2, <3>5, <3>6, <3>7 DEF Answerers
    <3>9. QED
      BY <2>3, <2>5, <3>2, <3>5, <3>8
  <2>6. QED
    BY <2>4, <2>5
<1>6. QED
    BY <1>1, <1>2, <1>4, <1>5

\* Admitting an answer keeps the invariant: it turns one running lease into
\* one result, of a worker that had none, on a shard that was not settled.
LEMMA SubmitStep ==
    ASSUME IInv, TypeOK', NEW w \in Workers, NEW s \in Shards, Submit(w, s)
    PROVE  IInv'
<1> USE QueueAssumption
<1>1. TypeOK
    BY DEF IInv
<1>a. /\ \A r \in Shards, v \in Workers :
           ~(r = s /\ v = w) => assignments'[r][v] = assignments[r][v]
      /\ assignments'[s][w].state = "submitted"
    BY <1>1, SubmitEffect
<1>b. \A r \in Shards : r # s =>
           /\ Holders(assignments', r) = Holders(assignments, r)
           /\ Outstanding(assignments', r) = Outstanding(assignments, r)
           /\ Answerers(r)' = Answerers(r)
           /\ Len(results'[r]) = Len(results[r])
    BY <1>1, SubmitEffect
<1>c. /\ Holders(assignments', s) = Holders(assignments, s)
      /\ Outstanding(assignments', s) = Outstanding(assignments, s) \ {w}
      /\ Answerers(s)' = Answerers(s) \cup {w}
      /\ Len(results'[s]) = Len(results[s]) + 1
      /\ Len(results[s]) \in Nat
    BY <1>1, SubmitEffect
<1>2. /\ s \in Queued
      /\ w \notin Answerers(s)
      /\ w \in Outstanding(assignments, s)
    BY AdmittedFacts DEF Outstanding
<1>3. s \notin completed \cup abandoned
    BY <1>2 DEF IInv, SettledConsistent
<1>4. /\ order' = order /\ attempts' = attempts /\ abandoned' = abandoned
      /\ completed' = IF Len(results[s]) + 1 >= Redundancy
                      THEN completed \cup {s} ELSE completed
    BY DEF Submit
<1>5. /\ IsFiniteSet(Outstanding(assignments, s))
      /\ Cardinality(Outstanding(assignments, s)) \in Nat
      /\ Cardinality(Outstanding(assignments, s)) >= 1
      /\ Cardinality(Outstanding(assignments', s))
           = Cardinality(Outstanding(assignments, s)) - 1
      /\ Cardinality(Outstanding(assignments', s)) \in Nat
  <2> DEFINE running == Outstanding(assignments, s)
  <2>1. running \subseteq Workers
    BY DEF Outstanding
  <2>2. Outstanding(assignments', s) = running \ {w}
    BY <1>c
  <2>3. w \in running
    BY <1>2
  <2> HIDE DEF running
  <2>4. IsFiniteSet(running) /\ Cardinality(running) \in Nat
    BY <2>1, WorkerSetsFinite
  <2>5. Cardinality(running \ {w}) = Cardinality(running) - 1
    BY <2>3, <2>4, FS_RemoveElement
  <2>6. Cardinality(running \ {w}) \in Nat
    BY <2>1, WorkerSetsFinite
  <2>7. Cardinality(running) >= 1
    BY <2>4, <2>5, <2>6
  <2>8. QED
    BY <2>2, <2>4, <2>5, <2>6, <2>7 DEF running
<1>6. Len(results[s]) + 1 <= Redundancy
  <2>1. Len(results[s]) \in Nat
    BY <1>c
  <2>2. Len(results[s]) + Cardinality(Outstanding(assignments, s)) <= Redundancy
    BY DEF IInv, SlotBound
  <2>3. QED
    BY <1>5, <2>1, <2>2
<1>7. OnlyQueuedTouched'
  <2>1. Queued' = Queued
    BY <1>4 DEF Queued
  <2>2. \A r \in Shards : Holders(assignments', r) = Holders(assignments, r)
    BY <1>b, <1>c
  <2>3. QED
    BY <1>2, <1>4, <2>1, <2>2 DEF IInv, OnlyQueuedTouched
<1>8. SlotBound'
  <2> SUFFICES ASSUME NEW r \in Shards
               PROVE  Len(results'[r]) + Cardinality(Outstanding(assignments', r))
                        <= Redundancy
    BY DEF SlotBound
  <2>1. Len(results[r]) + Cardinality(Outstanding(assignments, r)) <= Redundancy
    BY DEF IInv, SlotBound
  <2>2. CASE r # s
    BY <1>b, <2>1, <2>2
  <2>3. CASE r = s
    <3>1. Len(results'[s]) = Len(results[s]) + 1 /\ Len(results[s]) \in Nat
      BY <1>c
    <3>2. QED
      BY <1>5, <2>1, <2>3, <3>1
  <2>4. QED
    BY <2>2, <2>3
<1>9. ReplicaIndependence'
  <2> SUFFICES ASSUME NEW r \in Shards
               PROVE  /\ Answerers(r)' =
                           {v \in Workers : assignments'[r][v].state = "submitted"}
                      /\ Cardinality(Answerers(r)') = Len(results'[r])
    BY DEF ReplicaIndependence
  <2>1. /\ Answerers(r) = {v \in Workers : assignments[r][v].state = "submitted"}
        /\ Cardinality(Answerers(r)) = Len(results[r])
    BY DEF IInv, ReplicaIndependence
  <2>2. CASE r # s
    <3>1. \A v \in Workers : assignments'[r][v] = assignments[r][v]
      BY <1>a, <2>2
    <3>2. Answerers(r)' = Answerers(r) /\ Len(results'[r]) = Len(results[r])
      BY <1>b, <2>2
    <3>3. QED
      BY <2>1, <3>1, <3>2
  <2>3. CASE r = s
    <3>1. Answerers(s)' = Answerers(s) \cup {w}
      BY <1>c
    <3>2. /\ assignments'[s][w].state = "submitted"
          /\ \A v \in Workers : v # w => assignments'[s][v] = assignments[s][v]
      BY <1>a
    <3>3. IsFiniteSet(Answerers(s))
      BY <2>1, <2>3, WorkerSetsFinite
    <3>4. Cardinality(Answerers(s) \cup {w}) = Cardinality(Answerers(s)) + 1
      BY <1>2, <3>3, FS_AddElement
    <3>5. Len(results'[s]) = Len(results[s]) + 1
      BY <1>c
    <3>6. QED
      BY <2>1, <2>3, <3>1, <3>2, <3>4, <3>5
  <2>4. QED
    BY <2>2, <2>3
<1>10. SettledConsistent'
  <2> SUFFICES ASSUME NEW r \in Shards
               PROVE  /\ r \in completed' <=> Len(results'[r]) = Redundancy
                      /\ r \in abandoned => /\ attempts[r] >= MaxAttempts
                                            /\ r \notin completed'
                      /\ r \in completed' \cup abandoned
                           => Outstanding(assignments', r) = {}
    BY <1>4 DEF SettledConsistent
  <2>1. CASE r # s
    BY <1>b, <1>4, <2>1 DEF IInv, SettledConsistent
  <2>2. CASE r = s
    <3>1. Len(results'[s]) = Len(results[s]) + 1 /\ Len(results[s]) \in Nat
      BY <1>c
    <3>2. s \in completed' <=> Len(results'[s]) = Redundancy
      BY <1>3, <1>4, <1>6, <3>1
    <3>3. ASSUME s \in completed'
          PROVE  Outstanding(assignments', s) = {}
      <4>1. Cardinality(Outstanding(assignments', s)) = 0
        BY <1>5, <1>8, <3>1, <3>2, <3>3 DEF SlotBound
      <4>2. IsFiniteSet(Outstanding(assignments', s))
        BY WorkerSetsFinite DEF Outstanding
      <4>3. QED
        BY <4>1, <4>2, FS_EmptySet
    <3>4. QED
      BY <1>3, <2>2, <3>2, <3>3
  <2>3. QED
    BY <2>1, <2>2
<1>11. OneLeasePerWorker'
    BY <1>b, <1>c, <1>4 DEF IInv, OneLeasePerWorker
<1>12. QED
    BY <1>7, <1>8, <1>9, <1>10, <1>11 DEF IInv

\* A step that leaves leases, results, attempts and flags alone keeps the
\* invariant.
LEMMA QuietStep ==
    ASSUME IInv, TypeOK', OnlyQueuedTouched',
           UNCHANGED <<assignments, results, attempts, completed, abandoned>>
    PROVE  IInv'
<1>1. \A s \in Shards : Answerers(s)' = Answerers(s)
    BY DEF Answerers
<1>2. SlotBound'
    BY DEF IInv, SlotBound
<1>3. ReplicaIndependence'
    BY <1>1 DEF IInv, ReplicaIndependence
<1>4. SettledConsistent'
    BY DEF IInv, SettledConsistent
<1>5. OneLeasePerWorker'
    BY DEF IInv, OneLeasePerWorker
<1>6. QED
    BY <1>2, <1>3, <1>4, <1>5 DEF IInv

\* No step of the queue breaks the invariant.
LEMMA InductiveStep == IInv /\ [Next]_vars => IInv'
<1> SUFFICES ASSUME IInv, [Next]_vars
             PROVE  IInv'
    OBVIOUS
<1>1. TypeOK'
    BY TypeStep DEF IInv
<1>2. ASSUME NEW s \in Shards, Enqueue(s)
      PROVE  IInv'
  <2>1. /\ UNCHANGED <<assignments, results, attempts, completed, abandoned>>
        /\ order' = Append(order, s)
    BY <1>2 DEF Enqueue
  <2>2. Queued \subseteq Queued'
    <3>1. /\ DOMAIN order = 1 .. Len(order)
          /\ DOMAIN order' = 1 .. Len(order) + 1
          /\ \A i \in 1 .. Len(order) : order'[i] = order[i]
          /\ Len(order) \in Nat
      BY <2>1, AppendProperties, LenProperties DEF IInv, TypeOK
    <3>2. QED
      BY <3>1 DEF Queued
  <2>3. OnlyQueuedTouched'
    BY <2>1, <2>2 DEF IInv, OnlyQueuedTouched, Holders
  <2>4. QED
    BY <1>1, <2>1, <2>3, QuietStep
<1>3. CASE ExpireLeases
    BY <1>1, <1>3, ExpireStep
<1>4. ASSUME NEW w \in Workers, Assign(w)
      PROVE  IInv'
  <2>1. CASE LeaseOldest(w)
    BY <1>1, <1>4, <2>1, LeaseStep
  <2>2. CASE LeaseNothing(w)
    <3>1. ExpireLeases
      BY <1>4, <2>2 DEF Assign, LeaseNothing, ExpireLeases
    <3>2. QED
      BY <1>1, <3>1, ExpireStep
  <2>3. QED
    BY <1>4, <2>1, <2>2 DEF Assign
<1>5. ASSUME NEW w \in Workers, NEW s \in Shards, Submit(w, s)
      PROVE  IInv'
    BY <1>1, <1>5, SubmitStep
<1>6. ASSUME UNCHANGED <<order, assignments, results, attempts,
                         completed, abandoned>>
      PROVE  IInv'
  <2>1. Queued' = Queued
    BY <1>6 DEF Queued
  <2>2. OnlyQueuedTouched'
    BY <1>6, <2>1 DEF IInv, OnlyQueuedTouched
  <2>3. QED
    BY <1>1, <1>6, <2>2, QuietStep
<1>7. CASE Tick
    BY <1>6, <1>7 DEF Tick
<1>8. CASE StepBack
    BY <1>6, <1>8 DEF StepBack
<1>9. CASE UNCHANGED vars
    BY <1>6, <1>9 DEF vars
<1>10. QED
    BY <1>2, <1>3, <1>4, <1>5, <1>7, <1>8, <1>9 DEF Next

\* An empty queue satisfies the invariant.
LEMMA InitialInvariant == Init => IInv
<1> SUFFICES ASSUME Init
             PROVE  IInv
    OBVIOUS
<1> USE QueueAssumption
<1>1. TypeOK
    BY DEF Init, TypeOK, NoLease, Lease, LeaseState
<1>2. ASSUME NEW s \in Shards
      PROVE  /\ Holders(assignments, s) = {}
             /\ Outstanding(assignments, s) = {}
             /\ Answerers(s) = {}
             /\ {w \in Workers : assignments[s][w].state = "submitted"} = {}
             /\ Len(results[s]) = 0
             /\ attempts[s] = 0
    BY DEF Init, NoLease, Holders, Outstanding, Answerers
<1>3. Cardinality({}) = 0
    BY FS_EmptySet
<1>4. OnlyQueuedTouched
    BY <1>2 DEF OnlyQueuedTouched, Init
<1>5. SlotBound
  <2> SUFFICES ASSUME NEW s \in Shards
               PROVE  Len(results[s]) + Cardinality(Outstanding(assignments, s))
                        <= Redundancy
    BY DEF SlotBound
  <2>1. /\ Len(results[s]) = 0
        /\ Cardinality(Outstanding(assignments, s)) = 0
    BY <1>2, <1>3
  <2>2. QED
    BY <2>1
<1>8. ReplicaIndependence /\ OneLeasePerWorker
    BY <1>2, <1>3 DEF ReplicaIndependence, OneLeasePerWorker
<1>6. SettledConsistent
    BY <1>2 DEF SettledConsistent, Init
<1>7. QED
    BY <1>1, <1>4, <1>5, <1>6, <1>8 DEF IInv

\* Every reachable state of the queue satisfies the inductive invariant.
THEOREM Invariance == Spec => []IInv
BY InitialInvariant, InductiveStep, PTL DEF Spec

\* A shard never has more results and running leases than replicas it needs:
\* assign() never over-issues (queue.js:127-129).
THEOREM SlotBoundHolds == Spec => []SlotBound
BY Invariance, PTL DEF IInv

\* The results of a shard come from distinct workers, one per submitted lease
\* (queue.js:9-13).
THEOREM ReplicasAreIndependent == Spec => []ReplicaIndependence
BY Invariance, PTL DEF IInv

\* The completed and abandoned flags agree with the results, exclude each
\* other, and leave no worker computing for a settled shard (queue.js:205,
\* 231-235).
THEOREM SettledShardsConsistent == Spec => []SettledConsistent
BY Invariance, PTL DEF IInv

\* A worker gets one lease per shard, ever (queue.js:122-125).
THEOREM OneLeaseEver == Spec => []OneLeasePerWorker
BY Invariance, PTL DEF IInv

-----------------------------------------------------------------------------
(* What a step may never do, and the refinement *)

\* One step of the queue only adds to its history.
LEMMA HistoryStep ==
    ASSUME IInv, [Next]_vars
    PROVE  HistoryKept
<1>1. TypeOK
    BY DEF IInv
<1>2. \A s \in Shards : Len(results[s]) \in Nat
    BY <1>1, LenProperties DEF TypeOK
<1>3. ASSUME UNCHANGED results, completed \subseteq completed',
             abandoned \subseteq abandoned',
             \A s \in Shards, w \in Workers :
                assignments[s][w].state \in {"submitted", "expired"}
                  => assignments'[s][w] = assignments[s][w]
      PROVE  HistoryKept
    BY <1>2, <1>3 DEF HistoryKept
<1>4. ASSUME UNCHANGED <<assignments, results, completed, abandoned>>
      PROVE  HistoryKept
    BY <1>3, <1>4
<1>5. CASE \E s \in Shards : Enqueue(s)
    BY <1>4, <1>5 DEF Enqueue
<1>6. CASE ExpireLeases
    BY <1>1, <1>3, <1>6, ReclaimedFacts DEF ExpireLeases
<1>7. ASSUME NEW w \in Workers, Assign(w)
      PROVE  HistoryKept
  <2>1. /\ UNCHANGED results
        /\ completed \subseteq completed'
        /\ abandoned \subseteq abandoned'
    BY <1>7 DEF Assign
  <2>2. ASSUME NEW s \in Shards, NEW v \in Workers,
               assignments[s][v].state \in {"submitted", "expired"}
        PROVE  assignments'[s][v] = assignments[s][v]
    <3>1. Reclaimed[s][v] = assignments[s][v]
      BY <1>1, <2>2, ReclaimedFacts
    <3>2. CASE LeaseNothing(w)
      BY <3>1, <3>2 DEF LeaseNothing
    <3>3. CASE LeaseOldest(w)
      <4>1. PICK i \in DOMAIN order :
                   /\ order[i] \in Eligible(w)
                   /\ assignments' = [Reclaimed EXCEPT ![order[i]][w] = FreshLease]
        BY <3>3 DEF LeaseOldest
      <4>2. order[i] \in Shards
        BY <1>1 DEF TypeOK
      <4>3. w \notin Holders(assignments, order[i])
        BY <1>1, <4>1, <4>2, ReclaimedFacts DEF Eligible
      <4>4. ~(s = order[i] /\ v = w)
        BY <2>2, <4>3 DEF Holders
      <4>5. assignments'[s][v] = Reclaimed[s][v]
        BY <1>1, <4>1, <4>2, <4>4, ReclaimedFacts
      <4>6. QED
        BY <3>1, <4>5
    <3>4. QED
      BY <1>7, <3>2, <3>3 DEF Assign
  <2>3. QED
    BY <1>3, <2>1, <2>2
<1>8. ASSUME NEW w \in Workers, NEW s \in Shards, Submit(w, s)
      PROVE  HistoryKept
  <2> DEFINE Answer == [workerId : Workers, elapsedMs : Int]
             new == [workerId  |-> w,
                     elapsedMs |-> now - assignments[s][w].assignedAt]
  <2>1. /\ results \in [Shards -> Seq(Answer)]
        /\ results' = [results EXCEPT ![s] = Append(results[s], new)]
        /\ new \in Answer
    <3>1. results \in [Shards -> Seq(Answer)]
      BY <1>1 DEF TypeOK
    <3>2. results' = [results EXCEPT ![s] = Append(results[s], new)]
      BY <1>8 DEF Submit
    <3>3. new \in Answer
      BY <1>1 DEF TypeOK, Lease
    <3>4. QED
      BY <3>1, <3>2, <3>3
  <2>2. /\ completed \subseteq completed'
        /\ abandoned' = abandoned
    BY <1>8 DEF Submit
  <2> HIDE DEF new, Answer
  <2>3. ASSUME NEW r \in Shards
        PROVE  /\ Len(results[r]) <= Len(results'[r])
               /\ \A i \in DOMAIN results[r] : results'[r][i] = results[r][i]
    <3>1. CASE r # s
      BY <1>2, <2>1, <3>1
    <3>2. CASE r = s
      <4>1. results[r] \in Seq(Answer) /\ results'[r] = Append(results[r], new)
        BY <2>1, <3>2
      <4>2. DOMAIN results[r] = 1 .. Len(results[r])
        BY <4>1, LenProperties
      <4>3. /\ Len(Append(results[r], new)) = Len(results[r]) + 1
            /\ \A i \in 1 .. Len(results[r]) :
                  Append(results[r], new)[i] = results[r][i]
        BY <2>1, <4>1, AppendProperties
      <4>4. QED
        BY <1>2, <4>1, <4>2, <4>3
    <3>3. QED
      BY <3>1, <3>2
  <2>4. s \notin completed \cup abandoned
    BY <1>8, AdmittedFacts DEF IInv, SettledConsistent, Outstanding
  <2>5. \A r \in Shards : r # s => results'[r] = results[r]
    BY <2>1
  <2>6. ASSUME NEW r \in Shards, NEW v \in Workers,
               assignments[r][v].state \in {"submitted", "expired"}
        PROVE  assignments'[r][v] = assignments[r][v]
    <3>1. ~(r = s /\ v = w)
      BY <1>8, <2>6, AdmittedFacts
    <3>2. QED
      BY <1>1, <1>8, <3>1, SubmitEffect
  <2>7. QED
    BY <2>2, <2>3, <2>4, <2>5, <2>6 DEF HistoryKept
<1>9. CASE Tick
    BY <1>4, <1>9 DEF Tick
<1>10. CASE StepBack
    BY <1>4, <1>10 DEF StepBack
<1>11. CASE UNCHANGED vars
    BY <1>4, <1>11 DEF vars
<1>12. QED
    BY <1>5, <1>6, <1>7, <1>8, <1>9, <1>10, <1>11 DEF Next

\* No step reopens a settled shard, drops or rewrites an admitted result, or
\* revives a lease (queue.js:173-196, 222-228).
THEOREM HistoryNeverRewritten == Spec => HistoryOnlyGrows
<1>1. IInv /\ [Next]_vars => [HistoryKept]_vars
    BY HistoryStep
<1>2. QED
    BY <1>1, Invariance, PTL DEF Spec, HistoryOnlyGrows

\* Over every behaviour a worker that repeats an admitted submission is told
\* it is a duplicate, and nobody else is (queue.js:175-192).
THEOREM DuplicatesNamed == Spec => []RepeatIsCalledDuplicate
<1>1. IInv => RepeatIsCalledDuplicate
  <2> SUFFICES ASSUME IInv, NEW s \in Shards, NEW w \in Workers
               PROVE  assignments[s][w].state = "submitted"
                        <=> SubmitReason(w, s) = "duplicate submission"
    BY DEF RepeatIsCalledDuplicate
  <2>1. w \in Answerers(s) <=> assignments[s][w].state = "submitted"
    BY DEF IInv, ReplicaIndependence
  <2>2. s \notin Queued => assignments[s][w].state = "none"
    BY DEF IInv, OnlyQueuedTouched, Holders
  <2>3. w \in Holders(assignments, s) <=> assignments[s][w].state # "none"
    BY DEF Holders
  <2>4. CASE s \notin Queued
    BY <2>2, <2>3, <2>4 DEF SubmitReason
  <2>5. CASE s \in Queued /\ w \notin Holders(assignments, s)
    BY <2>3, <2>5 DEF SubmitReason
  <2>6. CASE s \in Queued /\ w \in Holders(assignments, s)
                           /\ w \in Answerers(s)
    BY <2>1, <2>6 DEF SubmitReason
  <2>7. CASE s \in Queued /\ w \in Holders(assignments, s)
                           /\ w \notin Answerers(s)
    BY <2>1, <2>7 DEF SubmitReason
  <2>8. QED
    BY <2>4, <2>5, <2>6, <2>7
<1>2. QED
    BY <1>1, Invariance, PTL

-----------------------------------------------------------------------------
(* Refinement *)

\* An empty queue is an empty replica set.
LEMMA RefinesInit == Init => RS!Init
<1> SUFFICES ASSUME Init
             PROVE  RS!Init
    OBVIOUS
<1>1. \A s \in Shards : Answerers(s) = {} /\ Outcome(s) = "open"
    BY DEF Init, Answerers, Outcome
<1>2. QED
    BY <1>1 DEF RS!Init

\* Every step of the queue admits one answer, abandons shards, or does not
\* show.
LEMMA RefinesNext == IInv /\ [Next]_vars => [RS!Next]_(RS!replicaVars)
<1> SUFFICES ASSUME IInv, [Next]_vars
             PROVE  [RS!Next]_(RS!replicaVars)
    OBVIOUS
<1> USE QueueAssumption
<1>1. TypeOK
    BY DEF IInv
<1>2. ASSUME UNCHANGED <<results, completed, abandoned>>
      PROVE  UNCHANGED RS!replicaVars
  <2>1. \A s \in Shards : Answerers(s)' = Answerers(s) /\ Outcome(s)' = Outcome(s)
    BY <1>2 DEF Answerers, Outcome
  <2>2. QED
    BY <2>1 DEF RS!replicaVars
<1>3. ASSUME UNCHANGED <<results, completed>>,
             abandoned' = abandoned \cup GivenUp
      PROVE  RS!Abandon(GivenUp)
  <2>1. GivenUp \subseteq Shards
    BY <1>1 DEF GivenUp, Open, Queued, TypeOK
  <2>2. \A s \in GivenUp : s \notin completed \cup abandoned
    BY DEF GivenUp, Open
  <2>3. \A s \in GivenUp : Outcome(s) = "open"
    BY <2>2 DEF Outcome
  <2>4. \A s \in Shards : Answerers(s)' = Answerers(s)
    BY <1>3 DEF Answerers
  <2>5. \A s \in Shards :
           Outcome(s)' = IF s \in GivenUp THEN "abandoned" ELSE Outcome(s)
    BY <1>3, <2>2 DEF Outcome
  <2>6. QED
    BY <2>1, <2>3, <2>4, <2>5 DEF RS!Abandon
<1>4. RS!Abandon(GivenUp) => RS!Next
  <2>1. GivenUp \in SUBSET Shards
    BY <1>1 DEF GivenUp, Open, Queued, TypeOK
  <2>2. QED
    BY <2>1 DEF RS!Next
<1>5. ASSUME NEW w \in Workers, NEW s \in Shards, Submit(w, s)
      PROVE  RS!Answer(s, w)
  <2>1. /\ w \notin Answerers(s)
        /\ s \notin completed \cup abandoned
        /\ Cardinality(Answerers(s)) = Len(results[s])
        /\ IsFiniteSet(Answerers(s))
    <3>1. /\ w \notin Answerers(s)
          /\ s \notin completed \cup abandoned
      BY <1>5, AdmittedFacts DEF IInv, SettledConsistent, Outstanding
    <3>2. /\ Cardinality(Answerers(s)) = Len(results[s])
          /\ Answerers(s) \subseteq Workers
      BY DEF IInv, ReplicaIndependence
    <3>3. QED
      BY <3>1, <3>2, WorkerSetsFinite
  <2>2. /\ completed' = IF Len(results[s]) + 1 >= Redundancy
                        THEN completed \cup {s} ELSE completed
        /\ abandoned' = abandoned
    BY <1>5 DEF Submit
  <2>3. /\ Answerers(s)' = Answerers(s) \cup {w}
        /\ \A r \in Shards : r # s => Answerers(r)' = Answerers(r)
        /\ Len(results'[s]) = Len(results[s]) + 1
        /\ Len(results[s]) \in Nat
    BY <1>1, <1>5, SubmitEffect
  <2>4. Cardinality(Answerers(s) \cup {w}) = Len(results[s]) + 1
    BY <2>1, FS_AddElement
  <2>5. Len(results[s]) + 1 >= Redundancy <=> Len(results[s]) + 1 = Redundancy
    <3>1. Len(results[s]) <= Redundancy
      <4>1. Cardinality(Outstanding(assignments, s)) \in Nat
        BY WorkerSetsFinite DEF Outstanding
      <4>2. Len(results[s]) + Cardinality(Outstanding(assignments, s))
              <= Redundancy
        BY DEF IInv, SlotBound
      <4>3. QED
        BY <2>3, <4>1, <4>2
    <3>2. Len(results[s]) # Redundancy
      BY <2>1 DEF IInv, SettledConsistent
    <3>3. QED
      BY <2>3, <3>1, <3>2
  <2>6. Outcome(s) = "open"
    BY <2>1 DEF Outcome
  <2>7. Outcome(s)' = IF Cardinality(Answerers(s) \cup {w}) = Redundancy
                      THEN "complete" ELSE "open"
    BY <2>1, <2>2, <2>4, <2>5 DEF Outcome
  <2>8. \A r \in Shards : r # s => Outcome(r)' = Outcome(r)
    BY <2>2 DEF Outcome
  <2> DEFINE a == [r \in Shards |-> Answerers(r)]
             o == [r \in Shards |-> Outcome(r)]
  <2>9. a' = [a EXCEPT ![s] = @ \cup {w}]
    BY <2>3
  <2>10. o' = [o EXCEPT ![s] = IF Cardinality(a[s] \cup {w}) = Redundancy
                               THEN "complete" ELSE "open"]
    BY <2>7, <2>8
  <2>11. Cardinality(a[s] \cup {w}) = RS!Cardinality(a[s] \cup {w})
    BY DEF Cardinality, RS!Cardinality
  <2>12. a[s] = Answerers(s) /\ o[s] = Outcome(s)
    OBVIOUS
  <2>13. QED
    BY <2>1, <2>6, <2>9, <2>10, <2>11, <2>12 DEF RS!Answer
<1>6. CASE \E s \in Shards : Enqueue(s)
    BY <1>2, <1>6 DEF Enqueue
<1>7. CASE ExpireLeases
    BY <1>3, <1>4, <1>7 DEF ExpireLeases
<1>8. CASE \E w \in Workers : Assign(w)
    BY <1>3, <1>4, <1>8 DEF Assign
<1>9. CASE \E w \in Workers, s \in Shards : Submit(w, s)
    BY <1>5, <1>9 DEF RS!Next
<1>10. CASE Tick
    BY <1>2, <1>10 DEF Tick
<1>11. CASE StepBack
    BY <1>2, <1>11 DEF StepBack
<1>12. CASE UNCHANGED vars
    BY <1>2, <1>12 DEF vars
<1>13. QED
    BY <1>6, <1>7, <1>8, <1>9, <1>10, <1>11, <1>12 DEF Next

\* The queue implements ReplicaSet: whatever leases, clocks and polls do,
\* consensus is handed a replica set that grew one distinct answer at a time.
THEOREM QueueRefinesReplicaSet == Spec => ImplementsReplicaSet
BY Invariance, RefinesInit, RefinesNext, PTL
   DEF Spec, ImplementsReplicaSet, RS!Spec
=============================================================================
