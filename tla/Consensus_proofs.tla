-------------------------- MODULE Consensus_proofs --------------------------
(***************************************************************************)
(* Theorems about Tally and Consensus, for every number of replicas, every *)
(* set of roots and every majority fraction of at least one half.          *)
(***************************************************************************)
EXTENDS Consensus, NaturalOrder, FiniteSetTheorems, FunctionTheorems, SequenceTheorems, TLAPS

-----------------------------------------------------------------------------
(* Counting votes *)

IsReplicas(c) ==
    /\ Len(c) \in Nat
    /\ DOMAIN c = 1 .. Len(c)
    /\ \A i \in DOMAIN c : c[i].ok \in BOOLEAN

\* A root has a majority of the valid replicas.
Winner(c, r) == Exceeds(Cardinality(Votes(c, r)), Cardinality(Valid(c)))

\* Below one half two roots could win (consensus.js:121 does not check it).
HalfOrMore == MajorityDen <= 2 * MajorityNum

\* Votes can be counted, and there is one if the count is not zero.
LEMMA VotesAreFinite ==
    ASSUME NEW c, IsReplicas(c)
    PROVE  /\ IsFiniteSet(Valid(c)) /\ Cardinality(Valid(c)) \in Nat
           /\ Cardinality(Valid(c)) = 0 <=> Valid(c) = {}
           /\ \A r : /\ IsFiniteSet(Votes(c, r))
                     /\ Cardinality(Votes(c, r)) \in 0 .. Cardinality(Valid(c))
                     /\ Cardinality(Votes(c, r)) = 0 <=> Votes(c, r) = {}
<1>1. IsFiniteSet(DOMAIN c)
      BY FS_Interval DEF IsReplicas
<1>2. IsFiniteSet(Valid(c))
      BY <1>1, FS_Subset DEF Valid
<1>3. Cardinality(Valid(c)) \in Nat /\ (Cardinality(Valid(c)) = 0 <=> Valid(c) = {})
      BY <1>2, FS_CardinalityType, FS_EmptySet
<1>4. ASSUME NEW r
      PROVE  /\ IsFiniteSet(Votes(c, r))
             /\ Cardinality(Votes(c, r)) \in 0 .. Cardinality(Valid(c))
             /\ Cardinality(Votes(c, r)) = 0 <=> Votes(c, r) = {}
  <2>1. Votes(c, r) \in SUBSET Valid(c)
        BY DEF Votes
  <2>2. /\ IsFiniteSet(Votes(c, r))
        /\ Cardinality(Votes(c, r)) <= Cardinality(Valid(c))
        BY <1>2, <2>1, FS_Subset
  <2>3. /\ Cardinality(Votes(c, r)) \in Nat
        /\ Cardinality(Votes(c, r)) = 0 <=> Votes(c, r) = {}
        BY <2>2, FS_CardinalityType, FS_EmptySet
  <2> QED
        BY <1>3, <2>2, <2>3
<1> QED
      BY <1>2, <1>3, <1>4

\* The scan of the Map ends with a root that has most votes: the CHOOSE of
\* TopRoot has something to choose.
LEMMA TopHasMostVotes ==
    ASSUME NEW c, IsReplicas(c), Valid(c) # {}
    PROVE  /\ \E i \in Valid(c) : c[i].root = TopRoot(c)
           /\ \A r : Cardinality(Votes(c, r)) <= Cardinality(Votes(c, TopRoot(c)))
<1> DEFINE counts == {Count(c, i) : i \in Valid(c)}
<1>1. /\ Cardinality(Valid(c)) \in Nat
      /\ \A i \in Valid(c) : Count(c, i) \in 0 .. Cardinality(Valid(c))
      BY VotesAreFinite DEF Count
<1>2. PICK g \in counts : \A k \in counts : k <= g
  <2>1. counts \in SUBSET Nat /\ counts # {}
        BY <1>1
  <2>2. \A k \in counts : k <= Cardinality(Valid(c))
        BY <1>1
  <2> HIDE DEF counts
  <2> QED
        BY <1>1, <2>1, <2>2, GreatestExists
<1> DEFINE best == {i \in Valid(c) : Count(c, i) = g}
<1>3. PICK l \in best : \A j \in best : l <= j
  <2>1. best \in SUBSET Nat
        BY DEF Valid, IsReplicas
  <2>2. best # {}
        BY <1>2
  <2> HIDE DEF best
  <2> QED
        BY <2>1, <2>2, LeastExists
<1> DEFINE first(i) == \A j \in Valid(c) :
                          \/ Count(c, i) > Count(c, j)
                          \/ Count(c, i) = Count(c, j) /\ i <= j
           top == CHOOSE i \in Valid(c) : first(i)
<1>4. l \in Valid(c) /\ first(l)
  <2>1. ASSUME NEW j \in Valid(c)
        PROVE  \/ Count(c, l) > Count(c, j)
               \/ Count(c, l) = Count(c, j) /\ l <= j
    <3>1. Count(c, l) = g /\ Count(c, j) <= g
          BY <1>2
    <3>2. g \in Nat /\ Count(c, j) \in Nat
          BY <1>1, <1>2
    <3>3. Count(c, j) = g => l <= j
          BY <1>3
    <3> QED
          BY <3>1, <3>2, <3>3
  <2> QED
        BY <2>1
<1>5. top \in Valid(c) /\ first(top)
  <2> HIDE DEF first
  <2> QED
        BY <1>4
<1>6. TopRoot(c) = c[top].root
      BY DEF TopRoot
<1>7. \A j \in Valid(c) : Count(c, j) <= Count(c, top)
      BY <1>1, <1>5
<1> HIDE DEF top, first
<1>8. ASSUME NEW r
      PROVE  Cardinality(Votes(c, r)) <= Cardinality(Votes(c, TopRoot(c)))
  <2>1. CASE Votes(c, r) = {}
        BY <2>1, VotesAreFinite
  <2>2. CASE Votes(c, r) # {}
    <3>1. PICK j \in Valid(c) : c[j].root = r
          BY <2>2 DEF Votes
    <3> QED
          BY <1>6, <1>7, <3>1 DEF Count
  <2> QED
        BY <2>1, <2>2
<1> QED
      BY <1>5, <1>6, <1>8

\* From one half on at most one root wins, and it is the top one.
LEMMA WinnerIsTop ==
    ASSUME HalfOrMore, NEW c, IsReplicas(c), NEW r, Winner(c, r)
    PROVE  Valid(c) # {} /\ r = TopRoot(c)
<1> DEFINE v == Cardinality(Votes(c, r))
           w == Cardinality(Votes(c, TopRoot(c)))
           p == Cardinality(Valid(c))
<1>1. p \in Nat /\ v \in 0 .. p /\ w \in 0 .. p /\ (p = 0 <=> Valid(c) = {})
      BY VotesAreFinite
<1>2. v * MajorityDen > MajorityNum * p
      BY DEF Winner, Exceeds
<1>3. p < 2 * v
  <2> HIDE DEF v, w, p
  <2> USE TallyAssumption, <1>1
  <2>1. MajorityDen * p <= (2 * MajorityNum) * p
        BY DEF HalfOrMore
  <2>2. (2 * MajorityNum) * p = 2 * (MajorityNum * p)
        OBVIOUS
  <2>3. 2 * (v * MajorityDen) = (2 * v) * MajorityDen
        OBVIOUS
  <2>4. MajorityDen * p = p * MajorityDen
        OBVIOUS
  <2>5. /\ v * MajorityDen \in Nat /\ MajorityNum * p \in Nat
        /\ p * MajorityDen \in Nat /\ (2 * v) * MajorityDen \in Nat
        OBVIOUS
  <2>6. p * MajorityDen < (2 * v) * MajorityDen
        BY <1>2, <2>1, <2>2, <2>3, <2>4, <2>5
  <2>7. \A a, b, d \in Nat : a * d < b * d => a < b
        OBVIOUS
  <2> QED
        BY <2>6, <2>7
<1>4. Valid(c) # {}
      BY <1>1, <1>3
<1>5. v <= w
      BY <1>4, TopHasMostVotes
<1>6. Votes(c, r) \cap Votes(c, TopRoot(c)) # {}
  <2>1. v + w > p
        BY <1>1, <1>3, <1>5
  <2>2. /\ IsFiniteSet(Valid(c))
        /\ Votes(c, r) \subseteq Valid(c) /\ Votes(c, TopRoot(c)) \subseteq Valid(c)
        BY VotesAreFinite DEF Votes
  <2> QED
        BY <2>1, <2>2, FS_MajoritiesIntersect
<1> QED
      BY <1>4, <1>6 DEF Votes

\* The verdict, said of roots and not of a Map that is scanned.
VerdictOf(c, i) ==
    IF ~c[i].ok THEN "rejected"
    ELSE IF Winner(c, c[i].root) THEN "confirmed" ELSE "minority"

StatusOf(c) ==
    IF Valid(c) = {} THEN "no_valid_replicas"
    ELSE IF \E i \in Valid(c) : Winner(c, c[i].root) THEN "confirmed" ELSE "disputed"

\* tallyVerifiedReplicas() does not depend on which of several top roots its
\* scan finds: its verdict is a function of which roots win.
LEMMA TallyByWinner ==
    ASSUME HalfOrMore, NEW c, IsReplicas(c), Len(c) >= 2
    PROVE  LET t == TallyVerifiedReplicas(c)
           IN  /\ t.status = StatusOf(c)
               /\ t.verdict = [i \in DOMAIN c |-> VerdictOf(c, i)]
               /\ \A r : Winner(c, r) => t.confirmedRoot = r
               /\ (\A i \in Valid(c) : ~Winner(c, c[i].root)) => t.confirmedRoot = NoRoot
               /\ \A r : Winner(c, r) => \E i \in Valid(c) : c[i].root = r
<1> DEFINE t == TallyVerifiedReplicas(c)
<1>1. \A r : Winner(c, r) => Valid(c) # {} /\ r = TopRoot(c)
      BY WinnerIsTop
<1>2. CASE Valid(c) = {}
  <2>1. t = NoValidReplicas(c)
        BY <1>2 DEF TallyVerifiedReplicas, IsReplicas
  <2>2. \A i \in DOMAIN c : ~c[i].ok
        BY <1>2 DEF Valid
  <2>3. t.verdict = [i \in DOMAIN c |-> VerdictOf(c, i)]
        BY <2>1, <2>2 DEF NoValidReplicas, VerdictOf
  <2> QED
        BY <1>1, <1>2, <2>1, <2>3 DEF NoValidReplicas, StatusOf
<1>3. CASE Valid(c) # {}
  <2>1. t = Counted(c)
        BY <1>3 DEF TallyVerifiedReplicas, IsReplicas
  <2>2. PICK top \in Valid(c) : c[top].root = TopRoot(c)
        BY <1>3, TopHasMostVotes
  <2>3. IsMajority(c) <=> Winner(c, TopRoot(c))
        BY DEF IsMajority, Winner
  <2>4. IsMajority(c) <=> \E i \in Valid(c) : Winner(c, c[i].root)
        BY <1>1, <2>2, <2>3
  <2>5. t.status = StatusOf(c)
        BY <1>3, <2>1, <2>4 DEF Counted, StatusOf
  <2>6. \A i \in DOMAIN c : MajorityVerdict(c, i) = VerdictOf(c, i)
        BY <1>1, <2>3 DEF MajorityVerdict, VerdictOf
  <2>7. t.verdict = [i \in DOMAIN c |-> VerdictOf(c, i)]
        BY <2>1, <2>6 DEF Counted
  <2>8. t.confirmedRoot = IF IsMajority(c) THEN TopRoot(c) ELSE NoRoot
        BY <2>1 DEF Counted
  <2> QED
        BY <1>1, <2>2, <2>3, <2>4, <2>5, <2>7, <2>8
<1> QED
      BY <1>2, <1>3

\* d lists the replicas of c, in an order that f says, without some of those that
\* failed the gate.
Relists(c, d, f) ==
    /\ IsReplicas(c) /\ IsReplicas(d)
    /\ f \in [DOMAIN d -> DOMAIN c]
    /\ \A j, k \in DOMAIN d : f[j] = f[k] => j = k
    /\ \A j \in DOMAIN d : d[j] = c[f[j]]
    /\ \A i \in Valid(c) : \E j \in DOMAIN d : f[j] = i

\* And it is given the same verdicts.
SameTally(c, d, f) ==
    LET t == TallyVerifiedReplicas(c)
        u == TallyVerifiedReplicas(d)
    IN  /\ u.status = t.status
        /\ u.confirmedRoot = t.confirmedRoot
        /\ \A j \in DOMAIN d : u.verdict[j] = t.verdict[f[j]]

\* Votes do not change when the replicas are listed in another order, or
\* without some of those that failed the gate.
LEMMA SameVotes ==
    ASSUME NEW c, NEW d, NEW f, Relists(c, d, f)
    PROVE  /\ Cardinality(Valid(d)) = Cardinality(Valid(c))
           /\ \A r : Cardinality(Votes(d, r)) = Cardinality(Votes(c, r))
<1> USE DEF Relists
<1>1. ASSUME NEW S \in SUBSET Valid(c), NEW T \in SUBSET Valid(d),
             \A j \in DOMAIN d : j \in T <=> f[j] \in S
      PROVE  Cardinality(T) = Cardinality(S)
  <2> DEFINE g == [j \in T |-> f[j]]
  <2>1. T \subseteq DOMAIN d
        BY DEF Valid
  <2>2. g \in [T -> S]
        BY <1>1, <2>1
  <2>3. \A i \in S : \E j \in T : g[j] = i
    <3> TAKE i \in S
    <3>1. PICK j \in DOMAIN d : f[j] = i
          OBVIOUS
    <3>2. j \in T
          BY <1>1, <3>1
    <3> QED
          BY <3>1, <3>2
  <2>4. \A j, k \in T : g[j] = g[k] => j = k
        BY <2>1
  <2> HIDE DEF g
  <2>5. g \in Bijection(T, S)
        BY <2>2, <2>3, <2>4, Fun_IsInj, Fun_IsSurj DEF Bijection
  <2>6. ExistsBijection(T, S)
        BY <2>5, Fun_ExistsBij
  <2>7. IsFiniteSet(T)
        BY VotesAreFinite, FS_Subset
  <2> QED
        BY <2>6, <2>7, FS_Bijection
<1>2. Cardinality(Valid(d)) = Cardinality(Valid(c))
  <2>1. \A j \in DOMAIN d : j \in Valid(d) <=> f[j] \in Valid(c)
        BY DEF Valid
  <2> QED
        BY <1>1, <2>1
<1>3. ASSUME NEW r
      PROVE  Cardinality(Votes(d, r)) = Cardinality(Votes(c, r))
  <2>1. \A j \in DOMAIN d : j \in Votes(d, r) <=> f[j] \in Votes(c, r)
        BY DEF Votes, Valid
  <2>2. Votes(d, r) \in SUBSET Valid(d) /\ Votes(c, r) \in SUBSET Valid(c)
        BY DEF Votes
  <2> QED
        BY <1>1, <2>1, <2>2
<1> QED
      BY <1>2, <1>3

\* And so the verdicts are the same.
LEMMA SameVerdicts ==
    ASSUME HalfOrMore,
           NEW c, NEW d, NEW f, Relists(c, d, f), Len(c) >= 2, Len(d) >= 2
    PROVE  SameTally(c, d, f)
<1> DEFINE t == TallyVerifiedReplicas(c)
           u == TallyVerifiedReplicas(d)
<1>0. IsReplicas(c) /\ IsReplicas(d)
      BY DEF Relists
<1>1. \A r : Winner(d, r) <=> Winner(c, r)
      BY SameVotes DEF Winner
<1>2. \A j \in DOMAIN d : j \in Valid(d) <=> f[j] \in Valid(c)
      BY DEF Valid, Relists
<1>3. Valid(d) = {} <=> Valid(c) = {}
      BY <1>2 DEF Valid, Relists
<1>4. (\E j \in Valid(d) : Winner(d, d[j].root)) <=> \E i \in Valid(c) : Winner(c, c[i].root)
  <2>1. ASSUME NEW j \in Valid(d), Winner(d, d[j].root)
        PROVE  \E i \in Valid(c) : Winner(c, c[i].root)
    <3>1. j \in DOMAIN d
          BY DEF Valid
    <3>2. f[j] \in Valid(c) /\ Winner(c, c[f[j]].root)
          BY <1>1, <1>2, <2>1, <3>1 DEF Relists
    <3> QED
          BY <3>2
  <2>2. ASSUME NEW i \in Valid(c), Winner(c, c[i].root)
        PROVE  \E j \in Valid(d) : Winner(d, d[j].root)
    <3>1. PICK j \in DOMAIN d : f[j] = i
          BY DEF Relists
    <3> QED
          BY <1>1, <1>2, <2>2, <3>1 DEF Relists
  <2> QED
        BY <2>1, <2>2
<1>t. /\ t.status = StatusOf(c)
      /\ t.verdict = [i \in DOMAIN c |-> VerdictOf(c, i)]
      /\ \A r : Winner(c, r) => t.confirmedRoot = r
      /\ (\A i \in Valid(c) : ~Winner(c, c[i].root)) => t.confirmedRoot = NoRoot
      BY <1>0, TallyByWinner
<1>u. /\ u.status = StatusOf(d)
      /\ u.verdict = [i \in DOMAIN d |-> VerdictOf(d, i)]
      /\ \A r : Winner(d, r) => u.confirmedRoot = r
      /\ (\A i \in Valid(d) : ~Winner(d, d[i].root)) => u.confirmedRoot = NoRoot
      BY <1>0, TallyByWinner
<1> HIDE DEF t, u
<1>5. u.status = t.status
      BY <1>3, <1>4, <1>t, <1>u DEF StatusOf
<1>6. u.confirmedRoot = t.confirmedRoot
  <2>1. CASE \E i \in Valid(c) : Winner(c, c[i].root)
        BY <1>1, <2>1, <1>t, <1>u
  <2>2. CASE ~\E i \in Valid(c) : Winner(c, c[i].root)
        BY <1>4, <2>2, <1>t, <1>u
  <2> QED
        BY <2>1, <2>2
<1>7. ASSUME NEW j \in DOMAIN d
      PROVE  u.verdict[j] = t.verdict[f[j]]
  <2>1. u.verdict[j] = VerdictOf(d, j)
        BY <1>u
  <2>2. t.verdict[f[j]] = VerdictOf(c, f[j])
        BY <1>t DEF Relists
  <2>3. VerdictOf(d, j) = VerdictOf(c, f[j])
        BY <1>1 DEF VerdictOf, Relists
  <2> QED
        BY <2>1, <2>2, <2>3
<1> QED
      BY <1>5, <1>6, <1>7 DEF t, u, SameTally

-----------------------------------------------------------------------------
(* One call of reachConsensus() *)

\* A verdict is the tally of all gate checks, and stays what it was.
TalliedAtTheEnd ==
    /\ entries \in Entries
    /\ gate \in [DOMAIN entries -> {"running", "ok", "failed", "threw"}]
    /\ Tallied =>
         /\ \A i \in DOMAIN entries : gate[i] \in {"ok", "failed"}
         /\ outcome = TallyVerifiedReplicas(Checked)

\* The inductive invariant of one call.
THEOREM Invariance == Spec => []TalliedAtTheEnd
<1>1. Init => TalliedAtTheEnd
      BY DEF Init, TalliedAtTheEnd, Tallied
<1>2. TalliedAtTheEnd /\ [Next]_vars => TalliedAtTheEnd'
  <2> SUFFICES ASSUME TalliedAtTheEnd, [Next]_vars
               PROVE  TalliedAtTheEnd'
      OBVIOUS
  <2> USE DEF TalliedAtTheEnd
  <2>1. ASSUME NEW i \in DOMAIN entries, GateAnswers(i)
        PROVE  TalliedAtTheEnd'
    <3>1. ~Tallied
          BY <2>1 DEF GateAnswers
    <3>2. ~Tallied'
          BY <2>1, <3>1 DEF GateAnswers, Tallied
    <3> QED
          BY <2>1, <3>2 DEF GateAnswers
  <2>2. ASSUME NEW i \in DOMAIN entries, GateThrows(i)
        PROVE  TalliedAtTheEnd'
    <3>1. ~Tallied
          BY <2>2 DEF GateThrows
    <3>2. ~Tallied'
          BY <2>2, <3>1 DEF GateThrows, Tallied
    <3> QED
          BY <2>2, <3>2 DEF GateThrows
  <2>3. ASSUME Tally
        PROVE  TalliedAtTheEnd'
    <3>1. Checked' = Checked
          BY <2>3 DEF Tally, Checked
    <3>2. TallyVerifiedReplicas(Checked)' = TallyVerifiedReplicas(Checked)
          BY <3>1
    <3> QED
          BY <2>3, <3>2 DEF Tally
  <2>4. CASE UNCHANGED vars
    <3>1. Checked' = Checked
          BY <2>4 DEF vars, Checked
    <3>2. TallyVerifiedReplicas(Checked)' = TallyVerifiedReplicas(Checked)
          BY <3>1
    <3> QED
          BY <2>4, <3>2 DEF vars, Tallied
  <2> QED
        BY <2>1, <2>2, <2>3, <2>4 DEF Next
<1> QED
      BY <1>1, <1>2, PTL DEF Spec

\* What is tallied is a sequence of checked replicas.
LEMMA CheckedAreReplicas ==
    ASSUME entries \in Entries
    PROVE  /\ IsReplicas(Checked)
           /\ DOMAIN Checked = DOMAIN entries /\ Len(Checked) = Len(entries)
           /\ DOMAIN entries = 1 .. Len(entries)
           /\ \A i \in DOMAIN entries :
                 Checked[i].root = entries[i] /\ entries[i] \in Roots
<1>1. PICK n \in Nat : entries \in [1 .. n -> Roots]
      BY ConsensusAssumption DEF Entries
<1>2. Len(entries) = n /\ DOMAIN entries = 1 .. n
      BY <1>1
<1>3. Checked = [i \in 1 .. n |-> [root |-> entries[i], ok |-> gate[i] = "ok"]]
      BY <1>2 DEF Checked
<1>4. Len(Checked) = n /\ DOMAIN Checked = 1 .. n
      BY <1>3
<1> QED
      BY <1>1, <1>2, <1>3, <1>4 DEF IsReplicas

\* The verdict of every call, whatever the number of submissions and roots, is
\* that of the order-free definition (consensus.js:151-182), if the majority
\* fraction is at least one half.
THEOREM MajorityDecides ==
    ASSUME HalfOrMore
    PROVE  Spec => []TallyIsTheMajority
<1>1. TalliedAtTheEnd => TallyIsTheMajority
  <2> SUFFICES ASSUME TalliedAtTheEnd, Tallied, Len(entries) >= 2
               PROVE  TallyIsTheMajority
      BY DEF TallyIsTheMajority
  <2> DEFINE c == Checked
             confirmed == {i \in DOMAIN entries : outcome.verdict[i] = "confirmed"}
             minority == {i \in DOMAIN entries : outcome.verdict[i] = "minority"}
  <2>1. /\ IsReplicas(c) /\ Len(c) >= 2 /\ DOMAIN c = DOMAIN entries
        /\ \A i \in DOMAIN entries : c[i].root \in Roots
        BY CheckedAreReplicas DEF TalliedAtTheEnd
  <2>2. outcome = TallyVerifiedReplicas(c)
        BY DEF TalliedAtTheEnd
  <2>3. /\ outcome.status = StatusOf(c)
        /\ outcome.verdict = [i \in DOMAIN c |-> VerdictOf(c, i)]
        /\ \A r : Winner(c, r) => outcome.confirmedRoot = r
        /\ (\A i \in Valid(c) : ~Winner(c, c[i].root)) => outcome.confirmedRoot = NoRoot
        /\ \A r : Winner(c, r) => \E i \in Valid(c) : c[i].root = r
        BY <2>1, <2>2, TallyByWinner
  <2> HIDE DEF c
  <2>4. \A i \in Valid(c) : i \in DOMAIN entries /\ c[i].ok
        BY <2>1 DEF Valid
  <2>5. confirmed = {i \in Valid(c) : Winner(c, c[i].root)}
        BY <2>1, <2>3, <2>4 DEF VerdictOf, Valid
  <2>6. minority = {i \in Valid(c) : ~Winner(c, c[i].root)}
        BY <2>1, <2>3, <2>4 DEF VerdictOf, Valid
  <2>7. \A r \in Roots : Winner(c, r) <=> outcome.confirmedRoot = r
    <3> SUFFICES ASSUME NEW r \in Roots, outcome.confirmedRoot = r
                 PROVE  Winner(c, r)
        BY <2>3
    <3>1. r # NoRoot
          BY ConsensusAssumption
    <3>2. PICK i \in Valid(c) : Winner(c, c[i].root)
          BY <2>3, <3>1
    <3> QED
          BY <2>3, <3>2
  <2>8. confirmed = Votes(c, outcome.confirmedRoot)
    <3>1. CASE confirmed = {}
      <4>1. outcome.confirmedRoot = NoRoot
            BY <2>3, <2>5, <3>1
      <4>2. \A i \in Valid(c) : c[i].root # NoRoot
            BY <2>1, <2>4, ConsensusAssumption
      <4> QED
            BY <3>1, <4>1, <4>2 DEF Votes
    <3>2. CASE confirmed # {}
      <4>1. PICK i \in Valid(c) : Winner(c, c[i].root)
            BY <2>5, <3>2
      <4>2. Winner(c, outcome.confirmedRoot)
            BY <2>3, <4>1
      <4>3. \A j \in Valid(c) : Winner(c, c[j].root) <=> c[j].root = outcome.confirmedRoot
            BY <2>3, <4>2
      <4> QED
            BY <2>5, <4>3 DEF Votes
    <3> QED
          BY <3>1, <3>2
  <2>9. (confirmed = {}) <=> outcome.status # "confirmed"
        BY <2>3, <2>5 DEF StatusOf
  <2>10. \A r \in Roots : Winner(c, r) <=>
            /\ Valid(c) # {}
            /\ Exceeds(Cardinality(Votes(c, r)), Cardinality(Valid(c)))
        BY <2>3 DEF Winner
  <2>11. minority = Valid(c) \ confirmed
        BY <2>5, <2>6
  <2> HIDE DEF confirmed, minority
  <2> QED
        BY <2>7, <2>8, <2>9, <2>10, <2>11 DEF TallyIsTheMajority, c, confirmed, minority
<1> QED
      BY <1>1, Invariance, PTL

\* Which worker answered first decides nothing (consensus.js:160 scans a Map in
\* insertion order).
THEOREM OrderDecidesNothing ==
    ASSUME HalfOrMore
    PROVE  Spec => []OrderIrrelevant
<1>1. TalliedAtTheEnd => OrderIrrelevant
  <2> SUFFICES ASSUME TalliedAtTheEnd, Tallied, NEW p \in Reorderings
               PROVE  LET other == TallyVerifiedReplicas([i \in DOMAIN entries |-> Checked[p[i]]])
                      IN  /\ other.status = outcome.status
                          /\ other.confirmedRoot = outcome.confirmedRoot
                          /\ \A i \in DOMAIN entries : other.verdict[i] = outcome.verdict[p[i]]
      BY DEF OrderIrrelevant
  <2> DEFINE c == Checked
             d == [i \in DOMAIN entries |-> c[p[i]]]
  <2>1. /\ IsReplicas(c) /\ Len(c) = Len(entries)
        /\ DOMAIN c = DOMAIN entries /\ DOMAIN entries = 1 .. Len(entries)
        BY CheckedAreReplicas DEF TalliedAtTheEnd
  <2>2. outcome = TallyVerifiedReplicas(c)
        BY DEF TalliedAtTheEnd
  <2> HIDE DEF c
  <2>3. /\ p \in [DOMAIN c -> DOMAIN c]
        /\ \A j, k \in DOMAIN c : p[j] = p[k] => j = k
        BY <2>1 DEF Reorderings
  <2>4. Len(c) \in Nat /\ DOMAIN c = 1 .. Len(c) /\ d = [i \in 1 .. Len(c) |-> c[p[i]]]
        BY <2>1 DEF IsReplicas
  <2>5. Len(d) = Len(c) /\ DOMAIN d = DOMAIN c /\ \A j \in DOMAIN d : d[j] = c[p[j]]
        BY <2>4
  <2>6. IsReplicas(d)
        BY <2>1, <2>3, <2>5 DEF IsReplicas
  <2>7. \A i \in DOMAIN c : \E j \in DOMAIN c : p[j] = i
    <3>1. IsFiniteSet(DOMAIN c)
          BY <2>4, FS_Interval
    <3>2. p \in Injection(DOMAIN c, DOMAIN c)
          BY <2>3, Fun_IsInj
    <3>3. p \in Surjection(DOMAIN c, DOMAIN c)
          BY <3>1, <3>2, FS_Injection
    <3> QED
          BY <3>3, Fun_SurjectionProperties
  <2> HIDE DEF d
  <2>8. CASE Len(c) >= 2
    <3>1. \A i \in Valid(c) : \E j \in DOMAIN d : p[j] = i
          BY <2>5, <2>7 DEF Valid
    <3>2. p \in [DOMAIN d -> DOMAIN c] /\ \A j, k \in DOMAIN d : p[j] = p[k] => j = k
          BY <2>3, <2>5
    <3>3. Relists(c, d, p)
          BY <2>1, <2>5, <2>6, <3>1, <3>2 DEF Relists
    <3>4. SameTally(c, d, p)
          BY <2>5, <2>8, <3>3, SameVerdicts
    <3> QED
          BY <2>1, <2>2, <2>5, <3>4 DEF SameTally, d, c
  <2>9. CASE Len(c) < 2
    <3>1. /\ TallyVerifiedReplicas(c) = Insufficient(c)
          /\ TallyVerifiedReplicas(d) = Insufficient(d)
          BY <2>5, <2>9 DEF TallyVerifiedReplicas
    <3>2. \A j \in DOMAIN d : Insufficient(d).verdict[j] = Insufficient(c).verdict[p[j]]
          BY <2>3, <2>5 DEF Insufficient
    <3>3. /\ Insufficient(d).status = Insufficient(c).status
          /\ Insufficient(d).confirmedRoot = Insufficient(c).confirmedRoot
          BY DEF Insufficient
    <3> QED
          BY <2>1, <2>2, <2>5, <3>1, <3>2, <3>3 DEF d, c
  <2> QED
        BY <2>4, <2>8, <2>9
<1> QED
      BY <1>1, Invariance, PTL

\* What failed the gate has no say in the verdict on the rest.
THEOREM RejectedHaveNoVote ==
    ASSUME HalfOrMore
    PROVE  Spec => []GarbageHasNoVote
<1>1. TalliedAtTheEnd => GarbageHasNoVote
  <2> SUFFICES ASSUME TalliedAtTheEnd, Tallied, Len(entries) > 2,
                      NEW i \in DOMAIN entries, gate[i] = "failed"
               PROVE  LET other == TallyVerifiedReplicas(Dropping(i))
                      IN  /\ other.status = outcome.status
                          /\ other.confirmedRoot = outcome.confirmedRoot
                          /\ \A j \in 1 .. Len(entries) - 1 :
                                other.verdict[j] = outcome.verdict[IF j < i THEN j ELSE j + 1]
      BY DEF GarbageHasNoVote
  <2> DEFINE c == Checked
             n == Len(entries)
             f == [j \in 1 .. n - 1 |-> IF j < i THEN j ELSE j + 1]
             d == Dropping(i)
  <2>1. /\ IsReplicas(c) /\ Len(c) = n /\ n \in Nat
        /\ DOMAIN c = 1 .. n /\ DOMAIN entries = 1 .. n
        BY CheckedAreReplicas DEF TalliedAtTheEnd, IsReplicas
  <2>2. outcome = TallyVerifiedReplicas(c)
        BY DEF TalliedAtTheEnd
  <2>3. i \notin Valid(c)
        BY DEF Valid, Checked
  <2>4. d = [j \in 1 .. n - 1 |-> c[f[j]]]
        BY DEF Dropping
  <2> HIDE DEF c, n, d
  <2> USE <2>1
  <2>5. /\ f \in [1 .. n - 1 -> 1 .. n]
        /\ \A j, k \in 1 .. n - 1 : f[j] = f[k] => j = k
        OBVIOUS
  <2>6. \A k \in 1 .. n : k # i => \E j \in 1 .. n - 1 : f[j] = k
    <3> TAKE k \in 1 .. n
    <3> HAVE k # i
    <3>1. CASE k < i
      <4>1. k \in 1 .. n - 1 /\ f[k] = k
            BY <3>1
      <4> QED
            BY <4>1
    <3>2. CASE ~(k < i)
      <4>1. k - 1 \in 1 .. n - 1 /\ f[k - 1] = k
            BY <3>2
      <4> QED
            BY <4>1
    <3> QED
          BY <3>1, <3>2
  <2> HIDE DEF f
  <2>7. Len(d) = n - 1 /\ DOMAIN d = 1 .. n - 1 /\ \A j \in DOMAIN d : d[j] = c[f[j]]
    <3>1. n - 1 \in Nat
          BY DEF n
    <3> QED
          BY <2>4, <3>1
  <2>8. n - 1 >= 2 /\ n >= 2
        BY DEF n
  <2>9. IsReplicas(d)
        BY <2>5, <2>7, <2>8 DEF IsReplicas
  <2>10. Relists(c, d, f)
    <3>1. \A k \in Valid(c) : \E j \in DOMAIN d : f[j] = k
          BY <2>3, <2>6, <2>7 DEF Valid
    <3> QED
          BY <2>5, <2>7, <2>9, <3>1 DEF Relists
  <2>11. SameTally(c, d, f)
        BY <2>7, <2>8, <2>10, SameVerdicts
  <2> QED
        BY <2>2, <2>7, <2>11 DEF SameTally, d, c, n, f
<1> QED
      BY <1>1, Invariance, PTL

\* The outcome of a call keeps its type, for every majority fraction.
THEOREM TypeCorrect == Spec => []TypeOK
<1>1. TalliedAtTheEnd => TypeOK
  <2> SUFFICES ASSUME TalliedAtTheEnd, Tallied
               PROVE  /\ outcome.status \in {"confirmed", "disputed",
                                             "no_valid_replicas", "insufficient"}
                      /\ outcome.confirmedRoot \in Roots \cup {NoRoot}
                      /\ outcome.verdict \in
                           [DOMAIN entries ->
                              {"confirmed", "minority", "rejected", "unconfirmed"}]
      BY DEF TypeOK, TalliedAtTheEnd
  <2>1. /\ IsReplicas(Checked) /\ DOMAIN Checked = DOMAIN entries
        /\ \A i \in DOMAIN entries : Checked[i].root \in Roots
        BY CheckedAreReplicas DEF TalliedAtTheEnd
  <2>2. outcome = TallyVerifiedReplicas(Checked)
        BY DEF TalliedAtTheEnd
  <2>3. CASE Len(Checked) < 2
        BY <2>1, <2>2, <2>3 DEF TallyVerifiedReplicas, Insufficient
  <2>4. CASE ~(Len(Checked) < 2) /\ Valid(Checked) = {}
        BY <2>1, <2>2, <2>4 DEF TallyVerifiedReplicas, NoValidReplicas
  <2>5. CASE ~(Len(Checked) < 2) /\ Valid(Checked) # {}
    <3>1. outcome = Counted(Checked)
          BY <2>2, <2>5 DEF TallyVerifiedReplicas
    <3>2. TopRoot(Checked) \in Roots
      <4>1. PICK i \in Valid(Checked) : Checked[i].root = TopRoot(Checked)
            BY <2>1, <2>5, TopHasMostVotes
      <4> QED
            BY <2>1, <4>1 DEF Valid
    <3> QED
          BY <2>1, <3>1, <3>2 DEF Counted, MajorityVerdict
  <2> QED
        BY <2>3, <2>4, <2>5
<1> QED
      BY <1>1, Invariance, PTL
=============================================================================
