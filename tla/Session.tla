------------------------------- MODULE Session -------------------------------
(***************************************************************************)
(* A session: the governor and the worker it posts to.  The governor's     *)
(* actions are those of Governor, where "the worker answers" is now the    *)
(* delivery of a reply the worker really posted: _call(), the onmessage    *)
(* handler, sampleResult() and _finish() of governor.js, and worker.js.    *)
(***************************************************************************)
EXTENDS Governor, BurstWorker, FiniteSets

CONSTANT MaxSamples   \* bound: sampleResult() calls under way at a time

ASSUME SessionAssumption == MaxSamples \in Nat

VARIABLES
    pending,    \* _pending: the calls whose promise is not settled, by id
    requested,  \* o.path, the path the page asked for
    script      \* environment: the worker's script "loads" or is "missing"

sessionVars == <<vars, workerVars, pending, requested, script>>

\* An id is only compared for equality, so the next one is any that is free.
Ids == 1 .. MaxSamples + 2

FreshIdFault == 1

FreshId == CHOOSE i \in Ids : i \notin DOMAIN pending

Without(ids) == [i \in DOMAIN pending \ ids |-> pending[i]]

\* From here on, the worker handles this sample after some burst.
BurstAhead == computed \/ \E k \in DOMAIN requests : requests[k].type = "burst"

\* _call(), after the calls named by settled were taken out of _pending.
PostCall(type, settled) ==
    /\ requests' = Append(requests, [id |-> FreshId, type |-> type])
    /\ pending' = [i \in DOMAIN Without(settled) \cup {FreshId} |->
                     IF i = FreshId THEN [type |-> type, afterBurst |-> BurstAhead]
                                    ELSE pending[i]]

\* What a turn of the governor does to the channel.  A turn that ends with the
\* loop awaiting a burst has posted it.
Exchange(settled) ==
    IF worker' # "live"
    THEN Terminate /\ pending' = Without(settled)
    ELSE /\ IF loop' = "burst" THEN PostCall("burst", settled)
            ELSE pending' = Without(settled) /\ UNCHANGED requests
         /\ replies' = IF settled = {} THEN replies ELSE Tail(replies)
         /\ UNCHANGED <<memory, tasks>>

\* A turn of the page in which the governor does nothing.
NoTurn == UNCHANGED vars

-----------------------------------------------------------------------------

SessionInit ==
    /\ Init
    /\ WorkerInit
    /\ pending = <<>>
    /\ requested \in {"gpu", "cpu"}
    /\ script \in {"loads", "missing"}

\* new Worker() and the init message, unless the session is denied.
StartCalls ==
    /\ Start
    /\ IF worker' = "live" THEN PostCall("init", {}) ELSE UNCHANGED <<requests, pending>>
    /\ UNCHANGED <<replies, memory, tasks, requested, script>>

InitReply(reply) ==
    IF reply.ok
    THEN /\ InitAnswers
         /\ reply.fellBack <=> \E k \in DOMAIN emitted' : emitted'[k] = "fallback"
    ELSE InitFails

BurstReply(reply) == IF reply.ok THEN BurstDone ELSE BurstFails

\* worker.onmessage: a reply settles the call of its id, if there is one.
Deliver ==
    /\ worker = "live"
    /\ replies # <<>>
    /\ LET reply == Head(replies)
       IN  IF reply.id \notin DOMAIN pending
           THEN /\ NoTurn
                /\ replies' = Tail(replies)
                /\ UNCHANGED <<requests, memory, tasks, pending>>
           ELSE \/ /\ pending[reply.id].type = "sample"
                   /\ NoTurn
                   /\ pending' = Without({reply.id})
                   /\ replies' = Tail(replies)
                   /\ UNCHANGED <<requests, memory, tasks>>
                \/ /\ \/ pending[reply.id].type = "init" /\ InitReply(reply)
                      \/ pending[reply.id].type = "burst" /\ BurstReply(reply)
                   /\ Exchange({reply.id})
    /\ UNCHANGED <<requested, script>>

\* The turns of the governor that await no reply.
Posting == Exchange({}) /\ UNCHANGED <<requested, script>>
BatteryTurn == BatteryReady /\ Posting
TimerTurn == (IdleOver \/ QuietOver) /\ Posting
CallTurn == (Revoke \/ Stop) /\ Posting

Surroundings ==
    /\ LimitReached \/ ActivityChanges \/ HealthChanges \/ BatteryChanges
    /\ UNCHANGED <<workerVars, pending, requested, script>>

\* sampleResult(), which the page may call as soon as there is a worker.
Sample ==
    /\ worker = "live"
    /\ Cardinality({i \in DOMAIN pending : pending[i].type = "sample"}) < MaxSamples
    /\ NoTurn
    /\ PostCall("sample", {})
    /\ UNCHANGED <<replies, memory, tasks, requested, script>>

\* A worker whose script cannot be fetched handles nothing, and says so only
\* to an error handler that nobody installed.
WorkerHandles ==
    /\ worker = "live" /\ script = "loads"
    /\ Handle(requested)
    /\ UNCHANGED <<vars, pending, requested, script>>

WorkerSettles(type) ==
    /\ worker = "live" /\ script = "loads"
    /\ \E m \in tasks : m.type = type /\ Settle(m)
    /\ UNCHANGED <<vars, pending, requested, script>>

SessionNext ==
    \/ StartCalls \/ Deliver \/ BatteryTurn \/ TimerTurn \/ CallTurn
    \/ Surroundings \/ Sample
    \/ WorkerHandles \/ \E type \in Types : WorkerSettles(type)

SessionSpec == SessionInit /\ [][SessionNext]_sessionVars

\* Messages are delivered, the device finishes what it is given, timers fire.
\* That the worker answers is no longer assumed.
FairSession ==
    /\ SessionSpec
    /\ WF_sessionVars(Deliver)
    /\ WF_sessionVars(WorkerHandles)
    /\ \A type \in Types : WF_sessionVars(WorkerSettles(type))
    /\ WF_sessionVars(BatteryTurn)
    /\ WF_sessionVars(TimerTurn)

-----------------------------------------------------------------------------
(* Properties *)

\* Type invariant of the channel and the worker, and of the governor.
SessionTypeOK ==
    /\ TypeOK
    /\ requests \in Seq([id : Ids, type : Types])
    /\ replies \in Seq([id : Ids, type : Types, ok : BOOLEAN,
                        fellBack : BOOLEAN, right : BOOLEAN])
    /\ tasks \subseteq [id : Ids, type : Types, right : BOOLEAN]
    /\ path \in {"gpu", "cpu"} /\ buffers \in {"none", "gpu", "cpu"}
    /\ computed \in BOOLEAN
    /\ DOMAIN pending \subseteq Ids
    /\ \A i \in DOMAIN pending : pending[i] \in [type : Types, afterBurst : BOOLEAN]

\* Every reply settles the call it answers: handlers of several messages
\* overlap on the GPU and end in another order than they began (worker.js:127).
RepliesMatchCalls ==
    \A k \in DOMAIN replies :
        /\ replies[k].id \in DOMAIN pending
        /\ replies[k].type = pending[replies[k].id].type
        /\ \A j \in DOMAIN replies : replies[j].id = replies[k].id => j = k

\* The worker is never ahead of the governor, which alone decides when it
\* computes (worker.js:10-14): one burst is under way, and only while the loop
\* awaits it.
Bursts ==
    Cardinality({k \in DOMAIN requests : requests[k].type = "burst"})
    + Cardinality({m \in tasks : m.type = "burst"})
    + Cardinality({k \in DOMAIN replies : replies[k].type = "burst"})

OneBurstWhileAwaited ==
    Bursts = IF loop = "burst" /\ worker = "live" THEN 1 ELSE 0

\* A sample asked for once a burst was posted compares right with its
\* reference ("so output can be checked, not trusted", governor.js:337), even
\* where it overtakes the burst on the GPU.
SampleAfterBurstIsRight ==
    \A k \in DOMAIN replies :
        replies[k].type = "sample" /\ replies[k].ok
          /\ pending[replies[k].id].afterBurst => replies[k].right

\* Every call is settled, unless the session ends first or the script never
\* loads: the awaits in start(), in the loop and in sampleResult() return.
CallsSettle ==
    \A i \in Ids :
        script = "loads" /\ i \in DOMAIN pending
            ~> i \notin DOMAIN pending \/ worker # "live"
=============================================================================
