------------------------------ MODULE Consensus ------------------------------
(***************************************************************************)
(* Redundancy consensus over one shard's replica set,                      *)
(* packages/zkpoc-broker/src/consensus.js: reachConsensus() starts one     *)
(* asynchronous gate check per submission, waits for all of them with      *)
(* Promise.all, and tallies.  A gate check may also throw: it decodes the  *)
(* submission's proof hashes outside any try block (shard.js:383).         *)
(*                                                                         *)
(* A replica is abstracted to the root it committed to; whether it passes  *)
(* verifyRowSubmission() is whatever the check answers.  The workers are   *)
(* distinct (ShardQueue's ReplicaIndependence), so a worker is known by    *)
(* the place of its entry.                                                 *)
(***************************************************************************)
EXTENDS Tally

CONSTANTS
    Roots,         \* the distinct Merkle roots submissions may commit to
    MaxReplicas,   \* bound: entries in one call
    GateMayThrow   \* TRUE: a gate check may reject its promise

ASSUME ConsensusAssumption ==
    /\ MaxReplicas \in Nat
    /\ GateMayThrow \in BOOLEAN
    /\ NoRoot \notin Roots

VARIABLES
    entries,   \* what resultsFor() returned, in submission order
    gate,      \* gate[i]: where entry i's verifyReplica() call stands
    outcome    \* what the caller's await yields, or Pending

vars == <<entries, gate, outcome>>

-----------------------------------------------------------------------------
(* reachConsensus() *)

Pending == [status |-> "pending"]
Rejection == [status |-> "promise rejected"]

Entries == UNION {[1 .. n -> Roots] : n \in 0 .. MaxReplicas}

Init ==
    /\ entries \in Entries
    /\ gate = [i \in DOMAIN entries |-> "running"]
    /\ outcome = Pending

\* One verifyReplica() promise settles; they may settle in any order.
GateAnswers(i) ==
    /\ gate[i] = "running"
    /\ \E answer \in {"ok", "failed"} : gate' = [gate EXCEPT ![i] = answer]
    /\ UNCHANGED <<entries, outcome>>

\* Or throws: the first rejection rejects the whole Promise.all.
GateThrows(i) ==
    /\ GateMayThrow
    /\ gate[i] = "running"
    /\ gate' = [gate EXCEPT ![i] = "threw"]
    /\ outcome' = IF outcome = Pending THEN Rejection ELSE outcome
    /\ UNCHANGED entries

Checked ==
    [i \in DOMAIN entries |-> [root |-> entries[i], ok |-> gate[i] = "ok"]]

TallyFault ==
    /\ outcome = Pending
    /\ entries # <<>> => \E i \in DOMAIN entries : gate[i] = "ok"
    /\ \A i \in DOMAIN entries : gate[i] \in {"ok", "failed"}
    /\ outcome' = TallyVerifiedReplicas(Checked)
    /\ UNCHANGED <<entries, gate>>

Tally ==
    /\ outcome = Pending
    /\ \A i \in DOMAIN entries : gate[i] \in {"ok", "failed"}
    /\ outcome' = TallyVerifiedReplicas(Checked)
    /\ UNCHANGED <<entries, gate>>

Next ==
    \/ \E i \in DOMAIN entries : GateAnswers(i) \/ GateThrows(i)
    \/ Tally

Spec == Init /\ [][Next]_vars

\* Every gate check is a finite computation and the event loop runs its
\* continuation.
FairSpec == Spec /\ WF_vars(Next)

-----------------------------------------------------------------------------
(* Properties *)

Tallied == outcome \notin {Pending, Rejection}

\* Type invariant of one call of reachConsensus().
TypeOK ==
    /\ entries \in Entries
    /\ gate \in [DOMAIN entries -> {"running", "ok", "failed", "threw"}]
    /\ Tallied =>
         /\ outcome.status \in {"confirmed", "disputed", "no_valid_replicas",
                                "insufficient"}
         /\ outcome.confirmedRoot \in Roots \cup {NoRoot}
         /\ outcome.verdict \in
              [DOMAIN entries -> {"confirmed", "minority", "rejected", "unconfirmed"}]

\* The reference definition of the verdict, by roots instead of by a Map
\* scanned in insertion order: a root is confirmed exactly when its votes
\* exceed the fraction of the valid pool, its voters alone are confirmed, and
\* with no such root every valid replica is left for the audit as minority
\* ("Ties are not broken arbitrarily", consensus.js:151-154).
TallyIsTheMajority ==
    Tallied /\ Len(entries) >= 2 =>
        LET pool == Valid(Checked)
            Winner(r) == /\ pool # {}
                         /\ Exceeds(Cardinality(Votes(Checked, r)), Cardinality(pool))
            confirmed == {i \in DOMAIN entries : outcome.verdict[i] = "confirmed"}
        IN  /\ \A r \in Roots : Winner(r) <=> outcome.confirmedRoot = r
            /\ confirmed = Votes(Checked, outcome.confirmedRoot)
            /\ {i \in DOMAIN entries : outcome.verdict[i] = "minority"}
                 = pool \ confirmed
            /\ (confirmed = {}) <=> outcome.status # "confirmed"

\* The verdict does not depend on the order in which answers reached the
\* queue: any reordering of the entries gives every worker the same verdict.
Reorderings ==
    {p \in [DOMAIN entries -> DOMAIN entries] :
        \A i, j \in DOMAIN entries : p[i] = p[j] => i = j}

OrderIrrelevant ==
    Tallied => \A p \in Reorderings :
        LET other == TallyVerifiedReplicas([i \in DOMAIN entries |-> Checked[p[i]]])
        IN  /\ other.status = outcome.status
            /\ other.confirmedRoot = outcome.confirmedRoot
            /\ \A i \in DOMAIN entries : other.verdict[i] = outcome.verdict[p[i]]

\* A replica that failed the gate has no say in what becomes of the others:
\* without it, as long as two are left to cross-check, the status, the root
\* and the other workers' verdicts are the same.
Dropping(i) ==
    [j \in 1 .. Len(entries) - 1 |-> Checked[IF j < i THEN j ELSE j + 1]]

GarbageHasNoVote ==
    Tallied /\ Len(entries) > 2 =>
        \A i \in DOMAIN entries : gate[i] = "failed" =>
            LET other == TallyVerifiedReplicas(Dropping(i))
            IN  /\ other.status = outcome.status
                /\ other.confirmedRoot = outcome.confirmedRoot
                /\ \A j \in 1 .. Len(entries) - 1 :
                      other.verdict[j] = outcome.verdict[IF j < i THEN j ELSE j + 1]

\* A verdict on every replica is reached, in whatever order the checks settle,
\* unless one of them throws: then there is none, on the others neither
\* (Promise.all, consensus.js:200), although a submission that fails the gate
\* should be "rejected outright" (consensus.js:7-10).
JudgedUnlessOneThrew == <>(Tallied \/ \E i \in DOMAIN gate : gate[i] = "threw")
=============================================================================
