----------------------------- MODULE ShardQueue -----------------------------
(***************************************************************************)
(* The broker's shard queue, packages/zkpoc-broker/src/queue.js: shards    *)
(* are enqueued, leased to polling workers until Redundancy results are in *)
(* or outstanding, reclaimed when a lease runs out, and either completed   *)
(* or abandoned.  One TLA+ action per method; a call that changes nothing  *)
(* (a refused submission, an assign() that returns null and reclaims       *)
(* nothing) is a stuttering step.                                          *)
(***************************************************************************)
EXTENDS Integers, Sequences, FiniteSets

CONSTANTS
    Shards,           \* shard ids a publisher may enqueue
    Workers,          \* worker identities that may poll
    Redundancy,       \* options of the constructor, queue.js:53-66
    LeaseMs,
    MaxAttempts,
    ClockMayStepBack, \* TRUE: `now` is Date.now, which a host may set back
    Horizon           \* bound: the clock never passes this instant

ASSUME QueueAssumption ==
    /\ IsFiniteSet(Workers)
    /\ Redundancy \in Nat \ {0}
    /\ LeaseMs \in Nat \ {0}
    /\ MaxAttempts \in Nat
    /\ ClockMayStepBack \in BOOLEAN
    /\ Horizon \in Nat

VARIABLES
    now,          \* the injectable clock, in lease-time units
    order,        \* _order: the enqueued shards, oldest first
    assignments,  \* assignments[s][w]: the lease w holds or held on s
    results,      \* results[s]: admitted answers, in submission order
    attempts,     \* attempts[s]: leases granted on s so far
    completed,    \* shards whose `completed` flag is set
    abandoned     \* shards whose `abandoned` flag is set

vars == <<now, order, assignments, results, attempts, completed, abandoned>>

-----------------------------------------------------------------------------
(* State functions *)

\* AssignmentState, and "none" where the assignments map has no entry.
LeaseState == {"none", "active", "submitted", "expired"}
Lease == [state : LeaseState, assignedAt : Nat]
NoLease == [state |-> "none", assignedAt |-> 0]

\* The definitions named ...Fault are plausible bugs in the one they precede.
\* Nothing uses them: they are there to be swapped in, to see that the
\* properties notice.
FreshLeaseFault == [state |-> "active", assignedAt |-> now - LeaseMs]

\* A lease granted now; its expiresAt is assignedAt + LeaseMs.
FreshLease == [state |-> "active", assignedAt |-> now]
ExpiresAt(l) == l.assignedAt + LeaseMs

Queued == {order[i] : i \in DOMAIN order}
Open == Queued \ (completed \cup abandoned)

\* The functions below take the assignments they look at as an argument,
\* because assign() looks at them after its own expireLeases() call.
Holders(asg, s) == {w \in Workers : asg[s][w].state # "none"}
Outstanding(asg, s) == {w \in Workers : asg[s][w].state = "active"}

Answerers(s) == {results[s][i].workerId : i \in DOMAIN results[s]}

\* What expireLeases() leaves in the assignments ...
Overdue(l) == l.state = "active" /\ now >= ExpiresAt(l)
Reclaimed ==
    [s \in Shards |-> [w \in Workers |->
        IF s \in Open /\ Overdue(assignments[s][w])
        THEN [assignments[s][w] EXCEPT !.state = "expired"]
        ELSE assignments[s][w]]]

\* ... and the shards it then gives up.
GivenUpFault ==
    {s \in Open : attempts[s] >= MaxAttempts /\ Len(results[s]) < Redundancy}

GivenUpTooLateFault ==
    {s \in Open : /\ attempts[s] > MaxAttempts
                  /\ Len(results[s]) < Redundancy
                  /\ Outstanding(Reclaimed, s) = {}}

GivenUp ==
    {s \in Open : /\ attempts[s] >= MaxAttempts
                  /\ Len(results[s]) < Redundancy
                  /\ Outstanding(Reclaimed, s) = {}}

\* Eligible: counting answers only, and letting a worker whose lease expired
\* have the shard again.
EligibleOverbookedFault(w) ==
    {s \in Open \ GivenUp :
        /\ w \notin Holders(Reclaimed, s) \cup Answerers(s)
        /\ Len(results[s]) < Redundancy}

EligibleAgainFault(w) ==
    {s \in Open \ GivenUp :
        /\ w \notin Outstanding(Reclaimed, s) \cup Answerers(s)
        /\ Len(results[s]) + Cardinality(Outstanding(Reclaimed, s)) < Redundancy}

\* The shards assign(w) may lease to w, once expireLeases() has run.
Eligible(w) ==
    {s \in Open \ GivenUp :
        /\ w \notin Holders(Reclaimed, s) \cup Answerers(s)
        /\ Len(results[s]) + Cardinality(Outstanding(Reclaimed, s)) < Redundancy}

\* SubmitReason: any holder of an open shard admitted, late answers admitted,
\* and the duplicate test behind the state test.
SubmitReasonAnyHolderFault(w, s) ==
    IF s \in Open /\ w \in Holders(assignments, s)
    THEN "accepted" ELSE "no assignment for this worker"

SubmitReasonLateFault(w, s) ==
    IF w \in Holders(assignments, s) \ Answerers(s)
    THEN "accepted" ELSE "no assignment for this worker"

\* What submit() answers worker w about shard s, in the order it tests.
SubmitReason(w, s) ==
    CASE s \notin Queued                     -> "unknown shard"
      [] s \in Queued /\ w \notin Holders(assignments, s)
                                             -> "no assignment for this worker"
      [] w \in Holders(assignments, s) \cap Answerers(s)
                                             -> "duplicate submission"
      [] OTHER -> IF assignments[s][w].state = "active"
                  THEN "accepted" ELSE "assignment is not active"

-----------------------------------------------------------------------------
(* Actions *)

Init ==
    /\ now = 0
    /\ order = <<>>
    /\ assignments = [s \in Shards |-> [w \in Workers |-> NoLease]]
    /\ results = [s \in Shards |-> <<>>]
    /\ attempts = [s \in Shards |-> 0]
    /\ completed = {}
    /\ abandoned = {}

\* createShard() and enqueue(): a second enqueue of an id throws.
Enqueue(s) ==
    /\ s \notin Queued
    /\ order' = Append(order, s)
    /\ UNCHANGED <<now, assignments, results, attempts, completed, abandoned>>

\* The public expireLeases(), which a broker may also call on its own.
ExpireLeases ==
    /\ assignments' = Reclaimed
    /\ abandoned' = abandoned \cup GivenUp
    /\ UNCHANGED <<now, order, results, attempts, completed>>

\* assign(w): reclaim, then lease the oldest eligible shard, if there is one.
LeaseOldest(w) ==
    \E i \in DOMAIN order :
        /\ order[i] \in Eligible(w)
        /\ \A j \in DOMAIN order : j < i => order[j] \notin Eligible(w)
        /\ assignments' = [Reclaimed EXCEPT ![order[i]][w] = FreshLease]
        /\ attempts' = [attempts EXCEPT ![order[i]] = @ + 1]

LeaseNothing(w) ==
    /\ Eligible(w) = {}
    /\ assignments' = Reclaimed
    /\ UNCHANGED attempts

Assign(w) ==
    /\ LeaseOldest(w) \/ LeaseNothing(w)
    /\ abandoned' = abandoned \cup GivenUp
    /\ UNCHANGED <<now, order, results, completed>>

SubmitFault(w, s) ==
    /\ SubmitReason(w, s) = "accepted"
    /\ assignments' = [assignments EXCEPT ![s][w].state = "submitted"]
    /\ results' = [results EXCEPT ![s] = Append(@,
                     [workerId  |-> w,
                      elapsedMs |-> now - assignments[s][w].assignedAt])]
    /\ completed' = IF Len(results[s]) >= Redundancy
                    THEN completed \cup {s} ELSE completed
    /\ UNCHANGED <<now, order, attempts, abandoned>>

\* submit(): only the lease's state decides, so an answer that arrives after
\* expiresAt but before anybody called expireLeases() is still admitted.
Submit(w, s) ==
    /\ SubmitReason(w, s) = "accepted"
    /\ assignments' = [assignments EXCEPT ![s][w].state = "submitted"]
    /\ results' = [results EXCEPT ![s] = Append(@,
                     [workerId  |-> w,
                      elapsedMs |-> now - assignments[s][w].assignedAt])]
    /\ completed' = IF Len(results[s]) + 1 >= Redundancy
                    THEN completed \cup {s} ELSE completed
    /\ UNCHANGED <<now, order, attempts, abandoned>>

\* Time passes.  The clock is stepped only while some lease is still running:
\* the code reads it only through now >= expiresAt and now - assignedAt, so a
\* tick at any other time changes neither what it does nor what it records,
\* beyond how late an already overdue answer is.
Tick ==
    /\ now < Horizon
    /\ \E s \in Shards, w \in Workers :
          /\ assignments[s][w].state = "active"
          /\ ~Overdue(assignments[s][w])
    /\ now' = now + 1
    /\ UNCHANGED <<order, assignments, results, attempts, completed, abandoned>>

\* The host's clock is set back: Date.now is not monotonic.
StepBack ==
    /\ ClockMayStepBack
    /\ now > 0
    /\ now' = now - 1
    /\ UNCHANGED <<order, assignments, results, attempts, completed, abandoned>>

Next ==
    \/ \E s \in Shards : Enqueue(s)
    \/ ExpireLeases
    \/ \E w \in Workers : Assign(w)
    \/ \E w \in Workers, s \in Shards : Submit(w, s)
    \/ Tick
    \/ StepBack

Spec == Init /\ [][Next]_vars

\* Time passes and every worker keeps polling, the only two things the queue
\* itself relies on.  Nobody is obliged to answer, and nobody calls
\* expireLeases() but assign().
Fairness ==
    /\ WF_vars(Tick)
    /\ \A w \in Workers : WF_vars(Assign(w))

FairSpec == Spec /\ Fairness

-----------------------------------------------------------------------------
(* Properties *)

\* Type invariant of the queue's record per shard, queue.js:95-102.
TypeOK ==
    /\ now \in Nat
    /\ order \in Seq(Shards)
    /\ assignments \in [Shards -> [Workers -> Lease]]
    /\ results \in [Shards -> Seq([workerId : Workers, elapsedMs : Int])]
    /\ attempts \in [Shards -> Nat]
    /\ completed \in SUBSET Shards
    /\ abandoned \in SUBSET Shards

\* No shard ever has more results and running leases together than replicas
\* it needs, whatever expires, is answered late or is polled for in between
\* (assign()'s eligibility test, queue.js:127-129).
SlotBound ==
    \A s \in Shards :
        Len(results[s]) + Cardinality(Outstanding(assignments, s)) <= Redundancy

\* Replica independence (queue.js:9-13, 122-125): the results of a shard come
\* from distinct workers, and are those of the leases marked submitted.  In
\* particular no answer of a reclaimed lease was admitted, and no worker
\* spent a second lease on a shard it had already answered.
ReplicaIndependence ==
    \A s \in Shards :
        /\ Answerers(s) = {w \in Workers : assignments[s][w].state = "submitted"}
        /\ Cardinality(Answerers(s)) = Len(results[s])

\* The two flags tell the truth and exclude each other: a completed shard
\* holds exactly Redundancy results, an abandoned one used up its attempts and
\* holds fewer; neither has a worker still computing for it, whose answer
\* would be admitted into a replica set already handed to consensus.
SettledConsistent ==
    \A s \in Shards :
        /\ s \in completed <=> Len(results[s]) = Redundancy
        /\ s \in abandoned => /\ attempts[s] >= MaxAttempts
                              /\ s \notin completed
        /\ s \in completed \cup abandoned => Outstanding(assignments, s) = {}

\* attempts counts the identities that ever held the shard: a worker gets one
\* lease per shard, ever, across expiries (queue.js:122-124), and the count
\* that gives a shard up misses none of them.
OneLeasePerWorker ==
    \A s \in Shards : attempts[s] = Cardinality(Holders(assignments, s))

\* What a step may never do: reopen a settled shard, touch its results, drop
\* or rewrite an admitted result, or move a lease anywhere but forward.  An
\* expired or submitted lease is final.
HistoryKept ==
    /\ completed \subseteq completed'
    /\ abandoned \subseteq abandoned'
    /\ \A s \in Shards :
          /\ s \in completed \cup abandoned => results'[s] = results[s]
          /\ Len(results[s]) <= Len(results'[s])
          /\ \A i \in DOMAIN results[s] : results'[s][i] = results[s][i]
          /\ \A w \in Workers :
                assignments[s][w].state \in {"submitted", "expired"}
                  => assignments'[s][w] = assignments[s][w]

HistoryOnlyGrows == [][HistoryKept]_vars

\* Every worker is told the truth about its own submission: once its answer
\* is in, any repetition is called a duplicate, never merely "not active"
\* (the order of tests argued for in queue.js:175-178), whatever happened to
\* the shard meanwhile.
RepeatIsCalledDuplicate ==
    \A s \in Shards, w \in Workers :
        assignments[s][w].state = "submitted"
            <=> SubmitReason(w, s) = "duplicate submission"

\* "A worker that takes a shard and vanishes must not strand it" (queue.js:16):
\* every enqueued shard is eventually completed or abandoned.
EventuallySettled ==
    \A s \in Shards : s \in Queued ~> s \in completed \cup abandoned

-----------------------------------------------------------------------------
(* What the queue promises, and that it keeps it *)

Outcome(s) ==
    IF s \in completed THEN "complete"
    ELSE IF s \in abandoned THEN "abandoned" ELSE "open"

RS == INSTANCE ReplicaSet WITH
        answers <- [s \in Shards |-> Answerers(s)],
        outcome <- [s \in Shards |-> Outcome(s)]

\* The queue implements ReplicaSet: leases, polling and the clock never show
\* in what consensus is handed.
ImplementsReplicaSet == RS!Spec
=============================================================================
