------------------------------ MODULE BurstWorker ------------------------------
(***************************************************************************)
(* The burst worker, packages/zkpoc-worker/src/worker.js: what becomes of  *)
(* the messages posted to it.  A step is one turn of the worker's event    *)
(* loop.  On the CPU a handler runs to its end; on the GPU it awaits the   *)
(* device, and the handlers of later messages run meanwhile.               *)
(*                                                                         *)
(* A matrix product is abstracted to whether it has been computed (on the  *)
(* GPU: submitted, as the device executes what it is given in order).      *)
(***************************************************************************)
EXTENDS Naturals, Sequences

VARIABLES
    requests,   \* posted to the worker, oldest first: [id, type]
    replies,    \* posted to the page: [id, type, ok, fellBack, right], where
                \* type is the request's and right that a sample is correct
    path,       \* cfg.path
    buffers,    \* what gpu and cpu hold: "none", or the path allocated for
    computed,   \* the result buffer holds a product
    tasks       \* handlers suspended in an await: [id, type, right]

memory == <<path, buffers, computed>>
workerVars == <<requests, replies, memory, tasks>>

Types == {"init", "burst", "sample"}

-----------------------------------------------------------------------------

WorkerInit ==
    /\ requests = <<>> /\ replies = <<>> /\ tasks = {}
    /\ path = "cpu" /\ buffers = "none"
    /\ computed = FALSE

Reply(m, ok, fellBack, right) ==
    replies' = Append(replies, [id |-> m.id, type |-> m.type, ok |-> ok,
                                fellBack |-> fellBack, right |-> right])

Done(m) == Reply(m, TRUE, FALSE, FALSE)

\* The handler's outer catch.
Failed(m) == Reply(m, FALSE, FALSE, FALSE)

\* Which path is asked for is in the message's payload.
HandleInit(m, requested) ==
    /\ m.type = "init"
    /\ path' = requested
    /\ computed' = FALSE
    /\ IF requested = "gpu"
       THEN /\ tasks' = tasks \cup {[id |-> m.id, type |-> "init", right |-> FALSE]}
            /\ UNCHANGED <<replies, buffers>>
       ELSE /\ \/ Done(m) /\ buffers' = "cpu"
               \/ Failed(m) /\ UNCHANGED buffers       \* no memory
            /\ UNCHANGED tasks

\* The definitions named ...Fault are plausible bugs in the one they precede.
\* Nothing uses them: they are there to be swapped in, to see that the
\* properties notice.
HandleBurstFault(m) ==
    /\ m.type = "burst"
    /\ IF path = "gpu"
       THEN /\ tasks' = tasks \cup {[id |-> m.id, type |-> "burst", right |-> FALSE]}
            /\ UNCHANGED <<replies, computed>>
       ELSE /\ Done(m)
            /\ computed' = TRUE
            /\ UNCHANGED tasks
    /\ UNCHANGED <<path, buffers>>

\* A burst computes one shard before it first awaits or tests its budget.
HandleBurst(m) ==
    /\ m.type = "burst"
    /\ computed' = (computed \/ path = buffers)
    /\ IF path = "gpu" /\ buffers = "gpu"
       THEN /\ tasks' = tasks \cup {[id |-> m.id, type |-> "burst", right |-> FALSE]}
            /\ UNCHANGED replies
       ELSE /\ IF path = buffers THEN Done(m) ELSE Failed(m)
            /\ UNCHANGED tasks
    /\ UNCHANGED <<path, buffers>>

\* The readback buffer is mapped while a sample is read.
Mapped == \E t \in tasks : t.type = "sample"

\* sampleResult() of the worker.  Mapping a buffer whose mapping is pending is
\* refused, which fails the second of two overlapping samples.
HandleSample(m) ==
    /\ m.type = "sample"
    /\ IF path = "gpu" /\ buffers = "gpu" /\ ~Mapped
       THEN /\ tasks' = tasks \cup {[id |-> m.id, type |-> "sample", right |-> computed]}
            /\ UNCHANGED replies
       ELSE /\ IF path = "cpu" /\ buffers = "cpu"
               THEN Reply(m, TRUE, FALSE, computed)
               ELSE Failed(m)
            /\ UNCHANGED tasks
    /\ UNCHANGED memory

\* self.onmessage.  A stop message is never handled: the turn that posts it
\* terminates the worker (governor.js:399-402).
Handle(requested) ==
    /\ requests # <<>>
    /\ requests' = Tail(requests)
    /\ LET m == Head(requests)
       IN  HandleInit(m, requested) \/ HandleBurst(m) \/ HandleSample(m)

SettleInitFault(m) ==
    /\ m.type = "init"
    /\ \/ Reply(m, TRUE, FALSE, FALSE) /\ buffers' = "gpu" /\ UNCHANGED path
       \/ path' = "cpu" /\ buffers' = "cpu" /\ UNCHANGED replies
    /\ UNCHANGED computed

\* initGpu() resolved, or the worker fell back to the CPU, for which there may
\* be no memory either.
SettleInit(m) ==
    /\ m.type = "init"
    /\ \/ Done(m) /\ buffers' = "gpu" /\ UNCHANGED path
       \/ Reply(m, TRUE, TRUE, FALSE) /\ path' = "cpu" /\ buffers' = "cpu"
       \/ Failed(m) /\ path' = "cpu" /\ UNCHANGED buffers
    /\ UNCHANGED computed

\* The budget is spent, or 64 shards are done, or the device was lost.
SettleBurst(m) ==
    /\ m.type = "burst"
    /\ Done(m) \/ Failed(m)
    /\ UNCHANGED memory

SettleSample(m) ==
    /\ m.type = "sample"
    /\ Reply(m, TRUE, FALSE, m.right) \/ Failed(m)
    /\ UNCHANGED memory

SettleFault(m) ==
    /\ m \in tasks
    /\ tasks' = tasks \ {m}
    /\ LET latest == [m EXCEPT !.id = IF replies = <<>> THEN @ ELSE replies[Len(replies)].id]
       IN  SettleInit(m) \/ SettleBurst(latest) \/ SettleSample(m)
    /\ UNCHANGED requests

\* A suspended handler resumes, and ends.
Settle(m) ==
    /\ m \in tasks
    /\ tasks' = tasks \ {m}
    /\ SettleInit(m) \/ SettleBurst(m) \/ SettleSample(m)
    /\ UNCHANGED requests

\* worker.terminate(): the worker computes nothing any more, and messages on
\* their way in either direction are discarded.
Terminate ==
    /\ requests' = <<>> /\ replies' = <<>> /\ tasks' = {}
    /\ path' = "cpu" /\ buffers' = "none"
    /\ computed' = FALSE
=============================================================================
