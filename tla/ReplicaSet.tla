----------------------------- MODULE ReplicaSet -----------------------------
(***************************************************************************)
(* What the broker's shard queue promises to whoever runs consensus over a *)
(* shard: answers of distinct workers are gathered one at a time while the *)
(* shard is open; it completes with exactly Redundancy of them, or it is   *)
(* abandoned with fewer; once it has done either, nothing changes again.   *)
(* Leases, clocks and polling are invisible here: ShardQueue implements    *)
(* this module under the mapping given in ShardQueue.tla.                  *)
(***************************************************************************)
EXTENDS Naturals, FiniteSets

CONSTANTS
    Shards,      \* the shard ids a publisher may enqueue
    Workers,     \* the worker identities that may answer
    Redundancy   \* answers a shard needs (queue.js: redundancy)

VARIABLES
    answers,     \* answers[s]: the workers whose answer for s was admitted
    outcome      \* outcome[s]: "open", "complete" or "abandoned"

replicaVars == <<answers, outcome>>

Init ==
    /\ answers = [s \in Shards |-> {}]
    /\ outcome = [s \in Shards |-> "open"]

\* One more worker, new to the shard, has its answer admitted.
Answer(s, w) ==
    /\ outcome[s] = "open"
    /\ w \notin answers[s]
    /\ answers' = [answers EXCEPT ![s] = @ \cup {w}]
    /\ outcome' = [outcome EXCEPT ![s] =
                     IF Cardinality(answers[s] \cup {w}) = Redundancy
                     THEN "complete" ELSE "open"]

\* Open shards are given up, several at once when one sweep finds several.
Abandon(given) ==
    /\ \A s \in given : outcome[s] = "open"
    /\ outcome' = [s \in Shards |->
                     IF s \in given THEN "abandoned" ELSE outcome[s]]
    /\ UNCHANGED answers

Next ==
    \/ \E s \in Shards, w \in Workers : Answer(s, w)
    \/ \E given \in SUBSET Shards : Abandon(given)

Spec == Init /\ [][Next]_replicaVars
=============================================================================
