-------------------------------- MODULE Tally --------------------------------
(***************************************************************************)
(* The verdicts on one shard's replicas, tallyVerifiedReplicas() of        *)
(* packages/zkpoc-broker/src/consensus.js.  A checked replica is the root  *)
(* it committed to and ok, the answer of its gate check; the replicas are  *)
(* a sequence, in the order in which they were submitted.                  *)
(***************************************************************************)
EXTENDS Integers, Sequences, FiniteSets

CONSTANTS
    MajorityNum,   \* majorityFraction = MajorityNum / MajorityDen
    MajorityDen

ASSUME TallyAssumption ==
    /\ MajorityNum \in Nat
    /\ MajorityDen \in Nat \ {0}

-----------------------------------------------------------------------------
Valid(checked) == {i \in DOMAIN checked : checked[i].ok}
Votes(checked, r) == {i \in Valid(checked) : checked[i].root = r}
Count(checked, i) == Cardinality(Votes(checked, checked[i].root))

\* A Map keeps insertion order and only a strictly larger count takes over,
\* so of the roots with most votes the one submitted first is the top one.
TopRoot(checked) ==
    LET top == CHOOSE i \in Valid(checked) : \A j \in Valid(checked) :
                  \/ Count(checked, i) > Count(checked, j)
                  \/ Count(checked, i) = Count(checked, j) /\ i <= j
    IN  checked[top].root

\* The definitions named ...Fault are plausible bugs in the one they precede.
\* Nothing uses them: they are there to be swapped in, to see that the
\* properties notice.
ExceedsFault(count, total) == count * MajorityDen >= MajorityNum * total

\* topCount / valid.length > majorityFraction
Exceeds(count, total) == count * MajorityDen > MajorityNum * total

IsMajorityFault(checked) ==
    Exceeds(Cardinality(Votes(checked, TopRoot(checked))), Len(checked))

IsMajority(checked) ==
    Exceeds(Cardinality(Votes(checked, TopRoot(checked))),
            Cardinality(Valid(checked)))

NoRoot == "null"

Insufficient(checked) ==
    [status        |-> "insufficient",
     confirmedRoot |-> NoRoot,
     verdict       |-> [i \in DOMAIN checked |->
                          IF checked[i].ok THEN "unconfirmed" ELSE "rejected"]]

NoValidReplicas(checked) ==
    [status        |-> "no_valid_replicas",
     confirmedRoot |-> NoRoot,
     verdict       |-> [i \in DOMAIN checked |-> "rejected"]]

MajorityVerdictFault(checked, i) ==
    IF ~checked[i].ok THEN "rejected"
    ELSE IF checked[i].root = TopRoot(checked) THEN "confirmed" ELSE "minority"

MajorityVerdict(checked, i) ==
    IF ~checked[i].ok THEN "rejected"
    ELSE IF IsMajority(checked) /\ checked[i].root = TopRoot(checked)
         THEN "confirmed" ELSE "minority"

Counted(checked) ==
    [status        |-> IF IsMajority(checked) THEN "confirmed" ELSE "disputed",
     confirmedRoot |-> IF IsMajority(checked) THEN TopRoot(checked) ELSE NoRoot,
     verdict       |-> [i \in DOMAIN checked |-> MajorityVerdict(checked, i)]]

TallyVerifiedReplicas(checked) ==
    IF Len(checked) < 2 THEN Insufficient(checked)
    ELSE IF Valid(checked) = {} THEN NoValidReplicas(checked)
    ELSE Counted(checked)
=============================================================================
