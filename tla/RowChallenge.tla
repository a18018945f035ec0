---------------------------- MODULE RowChallenge ----------------------------
(***************************************************************************)
(* Commit, then challenge (zkpoc-broker/src/shard.js): a worker commits to *)
(* the rows it computed, learns from its own root which of them to reveal, *)
(* and the broker checks those row by row.  A full-disclosure audit        *)
(* (audit.js) is the same call with k at least the number of rows.         *)
(*                                                                         *)
(* A row's values are abstracted to which row they are of and how they     *)
(* compare with it: "true"; "near", within the tolerance but rounded to    *)
(* another digest; "unseen", wrong outside the columns that are looked at; *)
(* "wrong"; "short", of the wrong length.                                  *)
(***************************************************************************)
EXTENDS MerkleTree, FiniteSets

CONSTANTS
    MaxN,      \* bound of a shard's size
    Ks,        \* numbers of rows that may be challenged
    ElementsPerRow,  \* columns of a row that are looked at
    MaxFlaws   \* bound of the rows not computed as they should be

ASSUME RowAssumption ==
    /\ MaxN \in Nat \ {0} /\ Ks \subseteq Nat \ {0}
    /\ ElementsPerRow \in Nat \ {0} /\ MaxFlaws \in Nat

VARIABLES
    n,         \* rows of the shard
    worker,    \* the worker's options: [k, memoryHard]
    broker,    \* the broker's, configured on its own
    draw,      \* what the root asks for, by k
    rows,      \* what the worker computed and committed to
    tree,      \* layers of the commitment
    result,    \* what reaches the broker: [shardId, rows]
    todo,      \* required rows still to check
    failures,  \* [index, reason]
    phase      \* "computing", "committed", "checking", or how the call ended

vars == <<n, worker, broker, draw, rows, tree, result, todo, failures, phase>>

Options == [k : Ks, memoryHard : BOOLEAN]
Rows == 0 .. n - 1
Kinds == {"true", "near", "unseen", "wrong", "short"}
RowOf(i, kind) == [row |-> i, kind |-> kind]

\* hashRow(): digests tell kinds apart, and with the memory-hard expansion from
\* without.  A triple, so that no leaf is a node.
HashRow(values, o) == <<values.row, values.kind, o.memoryHard>>

-----------------------------------------------------------------------------
(* The worker *)

\* Plausible bug: the last row is never drawn.
DrawsOfFault(rowSet) ==
    {d \in [Ks -> SUBSET rowSet] :
        \A k \in Ks :
           /\ Cardinality(d[k]) = Min({k, Cardinality(rowSet) - 1})
           /\ \A j \in Ks : j <= k => d[j] \subseteq d[k]}

\* challengeRows(): the first Min(k, n) of one sequence of distinct rows that
\* is fixed by shard and root, and so more for a greater k.
DrawsOf(rowSet) ==
    {d \in [Ks -> SUBSET rowSet] :
        \A k \in Ks :
           /\ Cardinality(d[k]) = Min({k, Cardinality(rowSet)})
           /\ \A j \in Ks : j <= k => d[j] \subseteq d[k]}

Draws == [m \in 1 .. MaxN |-> DrawsOf(0 .. m - 1)]

ChallengeRows(o) == draw[o.k]

\* What a flawed computation leaves in a row: values that are wrong, perhaps
\* only where nobody looks, or another row's.
Flaws(i) ==
    {RowOf(i, "wrong"), RowOf((i + 1) % n, "true")}
    \cup IF n > ElementsPerRow THEN {RowOf(i, "unseen")} ELSE {}

Computed ==
    UNION {{[i \in Rows |-> IF i \in bad THEN f[i] ELSE RowOf(i, "true")] :
                f \in {g \in [bad -> UNION {Flaws(i) : i \in bad}] :
                          \A i \in bad : g[i] \in Flaws(i)}} :
              bad \in UNION {kSubset(m, Rows) : m \in 0 .. MaxFlaws}}

Init ==
    /\ n \in 1 .. MaxN
    /\ worker \in Options /\ broker \in Options
    /\ phase = "computing"
    /\ draw = <<>> /\ rows = <<>> /\ tree = <<>> /\ result = <<>>
    /\ todo = {} /\ failures = {}

\* commitFullResult()
Commit ==
    /\ phase = "computing"
    /\ phase' = "committed"
    /\ rows' \in Computed
    /\ tree' = Layers([p \in 1 .. n |-> HashRow(rows'[p - 1], worker)])
    /\ draw' \in Draws[n]
    /\ UNCHANGED <<n, worker, broker, result, todo, failures>>

\* A row's values with the proof for a place.
Entry(values, place) ==
    [values |-> values, proof |-> ProveInclusion(tree, place)]

\* buildHonestSubmission()
Reveal == [shardId |-> "this",
           rows |-> [i \in ChallengeRows(worker) |-> Entry(rows[i], i)]]

Zeros == <<>>          \* a hash of zero bytes
Undecodable == <<"">>  \* a string fromHex() throws on

WithHash(entry, hash) ==
    [entry EXCEPT !.proof = [p \in DOMAIN @ |-> [@[p] EXCEPT !.hash = hash]]]

\* What may reach the broker for row i in place of its entry: too few values,
\* values computed anew, another row's entry, a proof spoilt on the way.
Altered(i) ==
    {Entry(RowOf(i, kind), i) : kind \in {"short", "true", "near"}}
    \cup {Entry(rows[j], j) : j \in Rows}
    \cup {WithHash(Entry(rows[i], i), hash) : hash \in {Zeros, Undecodable}}

\* What may reach it in all; a ShardResult has at least one row.
Submissions ==
    {Reveal, [Reveal EXCEPT !.shardId = "other"]}
    \cup (UNION {{[Reveal EXCEPT !.rows[i] = entry] : entry \in Altered(i)} :
                   i \in ChallengeRows(worker)})
    \cup {[Reveal EXCEPT !.rows = [j \in DOMAIN @ \ {i} |-> @[j]]] :
            i \in {j \in ChallengeRows(worker) : Cardinality(ChallengeRows(worker)) > 1}}

-----------------------------------------------------------------------------
(* The broker: verifyRowSubmission() *)

Receive ==
    /\ phase = "committed"
    /\ result' \in Submissions
    /\ IF result'.shardId = "this"
       THEN phase' = "checking" /\ todo' = ChallengeRows(broker)
       ELSE phase' = "refused" /\ todo' = {}
    /\ UNCHANGED <<n, worker, broker, draw, rows, tree, failures>>

Revealed(i) == i \in DOMAIN result.rows
LengthFits(i) == result.rows[i].values.kind # "short"

\* fromHex() of a proof's hash throws, and with it the whole call.
Throws(i) ==
    /\ Revealed(i) /\ LengthFits(i)
    /\ \E p \in DOMAIN result.rows[i].proof :
          result.rows[i].proof[p].hash = Undecodable

\* Plausible bug: the promise is tested, not what it resolves to.
IncludedFault(i) == TRUE

Included(i) ==
    VerifyInclusion(HashRow(result.rows[i].values, broker),
                    result.rows[i].proof, Root(tree))

\* The spot check of a few columns of row i.
SpotChecked(values, i) ==
    values.row = i /\ values.kind \in {"true", "near", "unseen"}

\* The first of the checks of row i that fails.
Failure(i) ==
    CASE ~Revealed(i) -> "not revealed"
      [] Revealed(i) /\ ~LengthFits(i) -> "length"
      [] Revealed(i) /\ LengthFits(i) /\ ~Included(i) -> "not included"
      [] OTHER -> IF SpotChecked(result.rows[i].values, i) THEN "none" ELSE "value"

FailuresOf(i) ==
    {f \in {[index |-> i, reason |-> Failure(i)]} : f.reason # "none"}

\* One turn of the loop over the required rows, in ascending order.
CheckRow ==
    /\ phase = "checking"
    /\ todo # {}
    /\ LET i == Min(todo)
       IN  IF Throws(i)
           THEN phase' = "threw" /\ UNCHANGED <<todo, failures>>
           ELSE /\ todo' = todo \ {i}
                /\ failures' = failures \cup FailuresOf(i)
                /\ UNCHANGED phase
    /\ UNCHANGED <<n, worker, broker, draw, rows, tree, result>>

Verdict == IF failures = {} THEN "ok" ELSE "refused"

Conclude ==
    /\ phase = "checking"
    /\ todo = {}
    /\ phase' = Verdict
    /\ UNCHANGED <<n, worker, broker, draw, rows, tree, result, todo, failures>>

Next == Commit \/ Receive \/ CheckRow \/ Conclude

Spec == Init /\ [][Next]_vars

-----------------------------------------------------------------------------
(* Properties *)

Over == phase \in {"ok", "refused", "threw"}

\* A worker that reveals what it committed to is admitted exactly when both
\* sides are configured alike and the draw misses every row it got visibly
\* wrong: the f^k of shard.js:48-52, and that an honest worker is never
\* refused, in trees of every shape (shard.js:307-319, 346-422).
RevealIsJudgedByItsDraw ==
    Over /\ result = Reveal =>
        (phase = "ok" <=>
            /\ worker.memoryHard = broker.memoryHard
            /\ ChallengeRows(broker) \subseteq ChallengeRows(worker)
            /\ \A i \in ChallengeRows(broker) : SpotChecked(rows[i], i))

\* Whatever reaches the broker, what it admits shows, for every row required,
\* values that pass the spot check of that row and that the worker committed
\* to before it knew which rows these would be (shard.js:366-388).
AdmittedRowsWereCommitted ==
    phase = "ok" =>
        \A i \in ChallengeRows(broker) :
            /\ Revealed(i)
            /\ SpotChecked(result.rows[i].values, i)
            /\ \E j \in Rows : rows[j] = result.rows[i].values

\* The proof for a place fits the row committed there and no other, at the
\* right edge of odd layers too (merkle.js:201-253).
ProofsFitTheirRow ==
    phase = "committed" =>
        \A i \in Rows :
            \A v \in {rows[j] : j \in Rows} \cup {RowOf(i, k) : k \in Kinds} :
                VerifyInclusion(HashRow(v, worker), ProveInclusion(tree, i), Root(tree))
                    <=> v = rows[i]

\* A full-disclosure audit, where the broker asks for all rows, is passed only by
\* a commitment in which every row of the shard is found, right as far as it is
\* looked at: with certainty if a row has no more columns than that, and else
\* not ("really did compute the whole shard, with certainty rather than
\* probability", audit.js:31-32).
DisclosureCoversTheShard ==
    phase = "ok" /\ broker.k >= n =>
        \A i \in Rows : \E j \in Rows :
            \/ rows[j] = RowOf(i, "true")
            \/ rows[j] = RowOf(i, "unseen") /\ n > ElementsPerRow
=============================================================================
