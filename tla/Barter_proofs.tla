---------------------------- MODULE Barter_proofs ----------------------------
(***************************************************************************)
(* Theorems about Barter and the ledger it settles on, for every set of    *)
(* workers, slash fraction, majority fraction and sequence of calls.       *)
(***************************************************************************)
EXTENDS Barter, NaturalOrder, FiniteSetTheorems, FunctionTheorems, SequenceTheorems, TLAPS

-----------------------------------------------------------------------------
(* Types *)

EventTypes == {"deposit", "withdraw", "reward", "slash"}
Event == [type : EventTypes, amount : Int]

\* A violation takes no more than there is.
LEMMA ForfeitIsCovered ==
    ASSUME NEW have \in Nat
    PROVE  Forfeit(have) \in Nat /\ Forfeit(have) <= have
<1>1. have * SlashNum \in Nat /\ have * SlashNum <= have * SlashDen
      BY LedgerAssumption
<1>2. \A a, b, d \in Nat : d # 0 /\ a <= b * d => a \div d \in Nat /\ a \div d <= b
      OBVIOUS
<1> QED
      BY <1>1, <1>2, LedgerAssumption DEF Forfeit

\* What _log() does to a history.
LEMMA LogAppends ==
    ASSUME NEW w \in Workers, NEW type \in EventTypes, NEW amount \in Int,
           history \in [Workers -> Seq(Event)], Log(w, type, amount)
    PROVE  /\ history' \in [Workers -> Seq(Event)]
           /\ \A v \in Workers \ {w} : history'[v] = history[v]
           /\ Len(history'[w]) = Len(history[w]) + 1
           /\ DOMAIN history[w] = 1 .. Len(history[w])
           /\ DOMAIN history'[w] = 1 .. Len(history[w]) + 1
           /\ \A i \in DOMAIN history[w] : history'[w][i] = history[w][i]
           /\ history'[w][Len(history[w]) + 1] = [type |-> type, amount |-> amount]
<1> DEFINE e == [type |-> type, amount |-> amount]
<1>1. e \in Event /\ history[w] \in Seq(Event)
      BY DEF Event
<1>2. history' = [history EXCEPT ![w] = Append(history[w], e)]
      BY DEF Log
<1>3. /\ Append(history[w], e) \in Seq(Event)
      /\ Len(Append(history[w], e)) = Len(history[w]) + 1
      /\ \A i \in 1 .. Len(history[w]) : Append(history[w], e)[i] = history[w][i]
      /\ Append(history[w], e)[Len(history[w]) + 1] = e
      BY <1>1, AppendProperties
<1>4. /\ DOMAIN history[w] = 1 .. Len(history[w])
      /\ DOMAIN Append(history[w], e) = 1 .. Len(history[w]) + 1
      BY <1>1, <1>3, LenProperties
<1> QED
      BY <1>2, <1>3, <1>4

\* An event is booked: its amount is well formed, and nothing is overdrawn.
Booked(w, type, amount) ==
    /\ type \in EventTypes
    /\ amount \in Int
    /\ type \in {"deposit", "reward"} => amount > 0
    /\ Log(w, type, amount)
    /\ stake' \in [Workers -> Int]
    /\ \A v \in Workers : stake'[v] >= 0
    /\ balance' \in [Workers -> Nat]

\* Such an event keeps the ledger's types.
LEMMA BookedStep ==
    ASSUME TypeOK, NEW w \in Workers, NEW type, NEW amount, Booked(w, type, amount)
    PROVE  TypeOK'
<1> DEFINE h == history[w]
           g == history'[w]
<1>1. /\ history \in [Workers -> Seq(Event)]
      /\ \A v \in Workers : \A i \in DOMAIN history[v] :
            history[v][i].type \in {"deposit", "reward"} => history[v][i].amount > 0
      BY DEF TypeOK, Event, EventTypes
<1>2. type \in EventTypes /\ amount \in Int /\ Log(w, type, amount)
      BY DEF Booked
<1>3. /\ history' \in [Workers -> Seq(Event)]
      /\ \A v \in Workers \ {w} : history'[v] = history[v]
      /\ Len(g) = Len(h) + 1
      /\ DOMAIN h = 1 .. Len(h)
      /\ DOMAIN g = 1 .. Len(h) + 1
      /\ \A i \in DOMAIN h : g[i] = h[i]
      /\ g[Len(h) + 1] = [type |-> type, amount |-> amount]
      BY <1>1, <1>2, LogAppends
<1>4. ASSUME NEW v \in Workers, NEW i \in DOMAIN history'[v],
             history'[v][i].type \in {"deposit", "reward"}
      PROVE  history'[v][i].amount > 0
  <2>1. CASE v # w
    <3>1. history'[v] = history[v]
          BY <1>3, <2>1
    <3> QED
          BY <1>1, <1>4, <3>1
  <2>2. CASE v = w /\ i \in DOMAIN h
    <3>1. history'[v][i] = h[i]
          BY <1>3, <2>2
    <3> QED
          BY <1>1, <1>4, <2>2, <3>1
  <2>3. CASE v = w /\ i \notin DOMAIN h
    <3>1. Len(h) \in Nat
          BY <1>1, LenProperties
    <3>2. i \in 1 .. Len(h) + 1 /\ i \notin 1 .. Len(h)
          BY <1>3, <1>4, <2>3
    <3>3. i = Len(h) + 1
          BY <3>1, <3>2
    <3>4. history'[v][i] = [type |-> type, amount |-> amount]
          BY <1>3, <2>3, <3>3
    <3> QED
          BY <1>4, <3>4 DEF Booked
  <2> QED
        BY <2>1, <2>2, <2>3
<1> QED
      BY <1>3, <1>4 DEF Booked, TypeOK, RateDefined, Event, EventTypes

\* Every method of the ledger keeps its types.
LEMMA LedgerStep ==
    ASSUME TypeOK, NEW w \in Workers,
           \/ \E amount \in Amounts : Deposit(w, amount) \/ Withdraw(w, amount)
           \/ \E shards \in ShardCounts : Reward(w, shards)
           \/ Reward(w, 1)
           \/ Slash(w)
    PROVE  TypeOK'
<1> USE LedgerAssumption
<1>1. /\ stake \in [Workers -> Int] /\ \A v \in Workers : stake[v] >= 0
      /\ balance \in [Workers -> Nat]
      BY DEF TypeOK, RateDefined
<1>2. ASSUME NEW amount \in Amounts, Deposit(w, amount)
      PROVE  TypeOK'
  <2>1. Booked(w, "deposit", amount)
        BY <1>1, <1>2 DEF Deposit, Booked, EventTypes
  <2> QED
        BY <2>1, BookedStep
<1>3. ASSUME NEW amount \in Amounts, Withdraw(w, amount)
      PROVE  TypeOK'
  <2>1. Booked(w, "withdraw", amount)
        BY <1>1, <1>3 DEF Withdraw, Booked, EventTypes
  <2> QED
        BY <2>1, BookedStep
<1>4. ASSUME NEW shards \in Int, Reward(w, shards)
      PROVE  TypeOK'
  <2>1. shards * RewardPerShard \in Nat /\ shards * RewardPerShard > 0
        BY <1>4 DEF Reward
  <2>2. Booked(w, "reward", shards * RewardPerShard)
        BY <1>1, <1>4, <2>1 DEF Reward, Booked, EventTypes
  <2> QED
        BY <2>2, BookedStep
<1>5. ASSUME Slash(w)
      PROVE  TypeOK'
  <2>1. Forfeit(stake[w]) \in Nat /\ Forfeit(stake[w]) <= stake[w]
        BY <1>1, ForfeitIsCovered
  <2>2. Booked(w, "slash", Forfeit(stake[w]))
        BY <1>1, <1>5, <2>1 DEF Slash, Booked, EventTypes
  <2> QED
        BY <2>2, BookedStep
<1> QED
      BY <1>2, <1>3, <1>4, <1>5

-----------------------------------------------------------------------------
(* What a verdict says of the answers *)

\* The replicas that Judge() tallies.
CheckedBy(o) ==
    [i \in DOMAIN o |-> [root |-> answer[o[i]], ok |-> PassesGate(answer[o[i]])]]

Verdicts == {"none", "confirmed", "minority", "rejected", "unconfirmed"}

\* A root that a worker's answer has in common with a majority of what passed
\* the gate.
Backed(w) ==
    Cardinality(Backers(w)) * MajorityDen > MajorityNum * Cardinality(Gated)

\* The tally rejects only what failed the gate, and confirms only a majority.
LEMMA VerdictSays ==
    ASSUME NEW c, NEW i \in DOMAIN c, \A j \in DOMAIN c : c[j].ok \in BOOLEAN
    PROVE  LET v == TallyVerifiedReplicas(c).verdict[i]
           IN  /\ v \in Verdicts
               /\ v = "rejected" => ~c[i].ok
               /\ v = "confirmed" =>
                     /\ c[i].ok
                     /\ Exceeds(Cardinality(Votes(c, c[i].root)), Cardinality(Valid(c)))
<1> DEFINE v == TallyVerifiedReplicas(c).verdict[i]
<1>1. CASE Len(c) < 2
  <2>1. v = IF c[i].ok THEN "unconfirmed" ELSE "rejected"
        BY <1>1 DEF TallyVerifiedReplicas, Insufficient
  <2> QED
        BY <2>1 DEF Verdicts
<1>2. CASE ~(Len(c) < 2) /\ Valid(c) = {}
  <2>1. v = "rejected"
        BY <1>2 DEF TallyVerifiedReplicas, NoValidReplicas
  <2>2. ~c[i].ok
        BY <1>2 DEF Valid
  <2> QED
        BY <2>1, <2>2 DEF Verdicts
<1>3. CASE ~(Len(c) < 2) /\ Valid(c) # {}
  <2>1. v = MajorityVerdict(c, i)
        BY <1>3 DEF TallyVerifiedReplicas, Counted
  <2> QED
        BY <2>1 DEF MajorityVerdict, IsMajority, Verdicts
<1> QED
      BY <1>1, <1>2, <1>3

\* Whatever the order in which the answers came in, each has one vote.
LEMMA OneVoteEach ==
    ASSUME NEW o \in Orders, NEW w \in Workers, PassesGate(answer[w])
    PROVE  /\ Cardinality(Votes(CheckedBy(o), answer[w])) = Cardinality(Backers(w))
           /\ Cardinality(Valid(CheckedBy(o))) = Cardinality(Gated)
<1> DEFINE n == Cardinality(Workers)
<1>1. n \in Nat /\ IsFiniteSet(Workers)
      BY BarterAssumption, FS_CardinalityType
<1>2. IsFiniteSet(1 .. n) /\ Cardinality(1 .. n) = n
      BY <1>1, FS_Interval
<1>3. o \in [1 .. n -> Workers] /\ \A v \in Workers : \E i \in 1 .. n : o[i] = v
      BY DEF Orders
<1> HIDE DEF n
<1>4. o \in Surjection(1 .. n, Workers)
      BY <1>3, Fun_IsSurj
<1>5. o \in Injection(1 .. n, Workers)
      BY <1>2, <1>4, FS_SurjSameCardinalityImpliesInj DEF n
<1>6. \A i, j \in 1 .. n : o[i] = o[j] => i = j
      BY <1>5 DEF Injection, IsInjective
<1>7. ASSUME NEW S \in SUBSET (1 .. n), NEW T \in SUBSET Workers,
             \A i \in 1 .. n : i \in S <=> o[i] \in T
      PROVE  Cardinality(S) = Cardinality(T)
  <2> DEFINE g == [i \in S |-> o[i]]
  <2>1. g \in [S -> T]
        BY <1>3, <1>7
  <2>2. \A v \in T : \E i \in S : g[i] = v
        BY <1>3, <1>7
  <2>3. \A i, j \in S : g[i] = g[j] => i = j
        BY <1>6
  <2> HIDE DEF g
  <2>4. g \in Bijection(S, T)
        BY <2>1, <2>2, <2>3, Fun_IsInj, Fun_IsSurj DEF Bijection
  <2>5. ExistsBijection(S, T) /\ IsFiniteSet(S)
        BY <1>2, <2>4, Fun_ExistsBij, FS_Subset
  <2> QED
        BY <2>5, FS_Bijection
<1>8. DOMAIN o = 1 .. n
      BY <1>3
<1>9. \A i \in 1 .. n : /\ CheckedBy(o)[i].root = answer[o[i]]
                         /\ CheckedBy(o)[i].ok = PassesGate(answer[o[i]])
      BY <1>8 DEF CheckedBy
<1>10. DOMAIN CheckedBy(o) = 1 .. n
      BY <1>8 DEF CheckedBy
<1>11. Cardinality(Votes(CheckedBy(o), answer[w])) = Cardinality(Backers(w))
  <2>1. /\ Votes(CheckedBy(o), answer[w]) \in SUBSET (1 .. n)
        /\ Backers(w) \in SUBSET Workers
        BY <1>10 DEF Votes, Valid, Backers
  <2>2. ASSUME NEW i \in 1 .. n
        PROVE  i \in Votes(CheckedBy(o), answer[w]) <=> o[i] \in Backers(w)
        BY <1>3, <1>9, <1>10 DEF Votes, Valid, Backers
  <2> QED
        BY <1>7, <2>1, <2>2
<1>12. Cardinality(Valid(CheckedBy(o))) = Cardinality(Gated)
  <2>1. Valid(CheckedBy(o)) \in SUBSET (1 .. n) /\ Gated \in SUBSET Workers
        BY <1>10 DEF Valid, Gated
  <2>2. ASSUME NEW i \in 1 .. n
        PROVE  i \in Valid(CheckedBy(o)) <=> o[i] \in Gated
        BY <1>3, <1>9, <1>10 DEF Valid, Gated
  <2> QED
        BY <1>7, <2>1, <2>2
<1> QED
      BY <1>11, <1>12

-----------------------------------------------------------------------------
(* The inductive invariant *)

\* What a verdict says stays true, because no answer changes; and what was paid
\* or slashed was so for one of the reasons the code has.
VerdictsAreEarned ==
    \A w \in Workers :
        /\ verdict[w] = "rejected" => ~PassesGate(answer[w])
        /\ verdict[w] = "confirmed" => Backed(w)

BarterInv ==
    /\ BarterTypeOK
    /\ VerdictsAreEarned
    /\ HonestIsNotSlashed
    /\ PaidIsRightOrUnseen

\* The variables of one worker's settlement, which the others' leave alone.
Settles(w, how, as) ==
    /\ disclosure' = [disclosure EXCEPT ![w] = how]
    /\ settled' = [settled EXCEPT ![w] = as]
    /\ UNCHANGED <<answer, verdict, draw>>

\* A settlement that slashes no honest worker who answers, and pays a
\* dishonest one only for work that the checks cannot tell, keeps the invariant.
LEMMA SettlementStep ==
    ASSUME BarterInv, TypeOK', NEW w \in Workers, NEW how, NEW as, Settles(w, how, as),
           how \in {"none", "asked", "own", "anew", "refused"},
           as \in {"open", "paid", "slashed"},
           as = "slashed" /\ Honest(w) => how = "refused",
           as = "paid" /\ ~Honest(w) =>
              \/ how = "none" /\ Backed(w)
              \/ how = "own" /\ answer[w] = "unseen"
              \/ how = "anew"
    PROVE  BarterInv'
<1>1. /\ answer' = answer /\ verdict' = verdict /\ draw' = draw
      /\ disclosure' = [disclosure EXCEPT ![w] = how]
      /\ settled' = [settled EXCEPT ![w] = as]
      BY DEF Settles
<1>2. BarterTypeOK'
      BY <1>1 DEF BarterInv, BarterTypeOK
<1>3. /\ \A v \in Workers : Honest(v)' <=> Honest(v)
      /\ \A v \in Workers : Backers(v)' = Backers(v)
      /\ Gated' = Gated
      BY <1>1 DEF Honest, Backers, Gated
<1>4. /\ disclosure'[w] = how /\ settled'[w] = as
      /\ \A v \in Workers \ {w} : disclosure'[v] = disclosure[v] /\ settled'[v] = settled[v]
      BY <1>1 DEF BarterInv, BarterTypeOK
<1>5. VerdictsAreEarned'
      BY <1>1, <1>3 DEF BarterInv, VerdictsAreEarned, Backed
<1>6. HonestIsNotSlashed'
      BY <1>3, <1>4 DEF BarterInv, HonestIsNotSlashed
<1>7. PaidIsRightOrUnseen'
  <2> SUFFICES ASSUME NEW v \in Workers, settled'[v] = "paid", ~Honest(v)
               PROVE  \/ disclosure'[v] = "none" /\ Backed(v)
                      \/ disclosure'[v] = "own" /\ answer[v] = "unseen"
                      \/ disclosure'[v] = "anew"
      BY <1>1, <1>3 DEF PaidIsRightOrUnseen, Backed
  <2>1. CASE v = w
        BY <1>4, <2>1
  <2>2. CASE v # w
        BY <1>4, <2>2 DEF BarterInv, PaidIsRightOrUnseen, Backed
  <2> QED
        BY <2>1, <2>2
<1> QED
      BY <1>2, <1>5, <1>6, <1>7 DEF BarterInv

\* A step that settles nothing keeps it too.
LEMMA LedgerOnlyStep ==
    ASSUME BarterInv, TypeOK', UNCHANGED <<answer, verdict, draw, disclosure, settled>>
    PROVE  BarterInv'
<1>1. BarterTypeOK'
      BY DEF BarterInv, BarterTypeOK
<1>2. VerdictsAreEarned'
      BY DEF BarterInv, VerdictsAreEarned, Backed, Backers, Gated
<1>3. HonestIsNotSlashed'
      BY DEF BarterInv, HonestIsNotSlashed, Honest
<1>4. PaidIsRightOrUnseen'
      BY DEF BarterInv, PaidIsRightOrUnseen, Honest, Backers, Gated
<1> QED
      BY <1>1, <1>2, <1>3, <1>4 DEF BarterInv

\* Consensus gives every verdict for the reason that VerdictsAreEarned says.
LEMMA JudgeStep ==
    ASSUME BarterInv, Judge
    PROVE  BarterInv'
<1>1. PICK o \in Orders :
         verdict' = [w \in Workers |->
            TallyVerifiedReplicas(CheckedBy(o)).verdict[CHOOSE i \in DOMAIN o : o[i] = w]]
      BY DEF Judge, CheckedBy
<1>2. UNCHANGED <<vars, answer, draw, disclosure, settled>>
      BY DEF Judge
<1>3. ASSUME NEW w \in Workers
      PROVE  /\ verdict'[w] \in Verdicts
             /\ verdict'[w] = "rejected" => ~PassesGate(answer[w])
             /\ verdict'[w] = "confirmed" => Backed(w)
  <2> DEFINE i == CHOOSE i \in DOMAIN o : o[i] = w
             c == CheckedBy(o)
  <2>1. \E j \in DOMAIN o : o[j] = w
        BY DEF Orders
  <2>2. i \in DOMAIN o /\ o[i] = w
        BY <2>1
  <2>3. verdict'[w] = TallyVerifiedReplicas(c).verdict[i]
        BY <1>1
  <2> HIDE DEF i
  <2>4. /\ DOMAIN c = DOMAIN o
        /\ c[i].root = answer[w] /\ c[i].ok = PassesGate(answer[w])
        /\ \A j \in DOMAIN c : c[j].ok \in BOOLEAN
        BY <2>2 DEF CheckedBy, PassesGate
  <2> HIDE DEF c
  <2>5. LET v == TallyVerifiedReplicas(c).verdict[i]
        IN  /\ v \in Verdicts
            /\ v = "rejected" => ~c[i].ok
            /\ v = "confirmed" =>
                  /\ c[i].ok
                  /\ Exceeds(Cardinality(Votes(c, c[i].root)), Cardinality(Valid(c)))
        BY <2>2, <2>4, VerdictSays
  <2>6. ASSUME verdict'[w] = "confirmed"
        PROVE  Backed(w)
    <3>1. /\ PassesGate(answer[w])
          /\ Exceeds(Cardinality(Votes(c, answer[w])), Cardinality(Valid(c)))
          BY <2>3, <2>4, <2>5, <2>6
    <3> QED
          BY <3>1, OneVoteEach DEF Exceeds, Backed, c
  <2> QED
        BY <2>3, <2>4, <2>5, <2>6
<1>4. BarterTypeOK'
  <2>1. TypeOK'
        BY <1>2 DEF BarterInv, BarterTypeOK, TypeOK, RateDefined, vars
  <2>2. verdict' \in [Workers -> Verdicts]
        BY <1>1, <1>3
  <2> QED
        BY <1>2, <2>1, <2>2 DEF BarterInv, BarterTypeOK, Verdicts
<1>5. VerdictsAreEarned'
      BY <1>2, <1>3 DEF VerdictsAreEarned, Backed, Backers, Gated
<1>6. HonestIsNotSlashed'
      BY <1>2 DEF BarterInv, HonestIsNotSlashed, Honest
<1>7. PaidIsRightOrUnseen'
      BY <1>2 DEF BarterInv, PaidIsRightOrUnseen, Honest, Backers, Gated
<1> QED
      BY <1>4, <1>5, <1>6, <1>7 DEF BarterInv

\* The inductive invariant of a shard's settlement.
THEOREM BarterInvariance == BarterSpec => []BarterInv
<1>1. BarterInit => BarterInv
      BY LedgerAssumption
      DEF BarterInit, Init, BarterInv, BarterTypeOK, TypeOK, RateDefined,
          VerdictsAreEarned, HonestIsNotSlashed, PaidIsRightOrUnseen
<1>2. BarterInv /\ [BarterNext]_barterVars => BarterInv'
  <2> SUFFICES ASSUME BarterInv, [BarterNext]_barterVars
               PROVE  BarterInv'
      OBVIOUS
  <2>0. /\ TypeOK
        /\ \A w \in Workers : disclosure[w] \in {"none", "asked", "own", "anew", "refused"}
        /\ disclosure \in [Workers -> {"none", "asked", "own", "anew", "refused"}]
        /\ settled \in [Workers -> {"open", "paid", "slashed"}]
        /\ answer \in [Workers -> Kinds]
        BY DEF BarterInv, BarterTypeOK
  <2>1. CASE Bank
    <3>1. TypeOK'
          BY <2>0, <2>1, LedgerStep DEF Bank
    <3> QED
          BY <2>1, <3>1, LedgerOnlyStep DEF Bank
  <2>2. CASE Judge
        BY <2>2, JudgeStep
  <2>3. ASSUME NEW w \in Workers, SettleRejected(w)
        PROVE  BarterInv'
    <3>1. TypeOK'
          BY <2>0, <2>3, LedgerStep DEF SettleRejected, Punish
    <3>2. ~Honest(w)
          BY <2>3 DEF SettleRejected, BarterInv, VerdictsAreEarned, PassesGate, Honest
    <3>3. Settles(w, disclosure[w], "slashed")
          BY <2>0, <2>3 DEF SettleRejected, Punish, Settles
    <3> QED
          BY <2>0, <3>1, <3>2, <3>3, SettlementStep
  <2>4. ASSUME NEW w \in Workers, SettleMinority(w)
        PROVE  BarterInv'
    <3>1. TypeOK'
          BY <2>0, <2>4 DEF SettleMinority, TypeOK, vars
    <3>2. Settles(w, "asked", "open")
          BY <2>0, <2>4 DEF SettleMinority, Settles
    <3> QED
          BY <3>1, <3>2, SettlementStep
  <2>5. ASSUME NEW w \in Workers, SettleConfirmed(w)
        PROVE  BarterInv'
    <3>1. CASE ShouldAudit(draw, Draws, stake[w], RewardPerShard, FALSE)
      <4>1. TypeOK'
            BY <2>0, <2>5, <3>1 DEF SettleConfirmed, TypeOK, vars
      <4>2. Settles(w, "asked", "open")
            BY <2>0, <2>5, <3>1 DEF SettleConfirmed, Settles
      <4> QED
            BY <4>1, <4>2, SettlementStep
    <3>2. CASE ~ShouldAudit(draw, Draws, stake[w], RewardPerShard, FALSE)
      <4>1. TypeOK'
            BY <2>0, <2>5, <3>2, LedgerStep DEF SettleConfirmed, Pay
      <4>2. Settles(w, "none", "paid")
            BY <2>0, <2>5, <3>2 DEF SettleConfirmed, Pay, Settles
      <4>3. Backed(w)
            BY <2>5 DEF SettleConfirmed, BarterInv, VerdictsAreEarned
      <4> QED
            BY <4>1, <4>2, <4>3, SettlementStep
    <3> QED
          BY <3>1, <3>2
  <2>6. ASSUME NEW w \in Workers, NEW how \in {"own", "anew", "refused"}, Audit(w, how)
        PROVE  BarterInv'
    <3>1. CASE PassesAudit(answer[w], how)
      <4>1. TypeOK'
            BY <2>0, <2>6, <3>1, LedgerStep DEF Audit, Pay
      <4>2. Settles(w, how, "paid")
            BY <2>6, <3>1 DEF Audit, Pay, Settles
      <4>3. ~Honest(w) => how = "anew" \/ (how = "own" /\ answer[w] = "unseen")
            BY <3>1 DEF PassesAudit, Honest
      <4> QED
            BY <4>1, <4>2, <4>3, SettlementStep
    <3>2. CASE ~PassesAudit(answer[w], how)
      <4>1. TypeOK'
            BY <2>0, <2>6, <3>2, LedgerStep DEF Audit, Punish
      <4>2. Settles(w, how, "slashed")
            BY <2>6, <3>2 DEF Audit, Punish, Settles
      <4>3. Honest(w) => how = "refused"
            BY <3>2 DEF PassesAudit, Honest
      <4> QED
            BY <4>1, <4>2, <4>3, SettlementStep
    <3> QED
          BY <3>1, <3>2
  <2>7. CASE UNCHANGED barterVars
    <3>1. TypeOK'
          BY <2>0, <2>7 DEF barterVars, vars, TypeOK
    <3> QED
          BY <2>7, <3>1, LedgerOnlyStep DEF barterVars
  <2> QED
        BY <2>1, <2>2, <2>3, <2>4, <2>5, <2>6, <2>7 DEF BarterNext
<1> QED
      BY <1>1, <1>2, PTL DEF BarterSpec

\* Types are kept: no sequence of withdrawals and violations overdraws a stake,
\* so that the audit of a worker never fails for want of a rate.
THEOREM TypeCorrect == BarterSpec => []BarterTypeOK
BY BarterInvariance, PTL DEF BarterInv

\* Honest work is slashed only where its worker refuses to disclose, whatever
\* the others submit and in whatever order verdicts, audits and calls on the
\* ledger come (dispute-resolution.test.js:67).
THEOREM HonestWorkIsSafe == BarterSpec => []HonestIsNotSlashed
BY BarterInvariance, PTL DEF BarterInv

\* Dishonest work is paid only where the checks cannot see it
\* (dispute-resolution.test.js:115, shard.js:393, audit.js:123).
THEOREM PaymentIsExplained == BarterSpec => []PaidIsRightOrUnseen
BY BarterInvariance, PTL DEF BarterInv

-----------------------------------------------------------------------------
(* What a violation leaves *)

\* Where the whole stake is forfeit, nothing is left of it until the next
\* deposit.
ForfeitLeavesNothing ==
    SlashNum = SlashDen =>
        \A w \in Workers : \A i \in Events(w, "slash") :
            LastStakeEvent(w, i) => stake[w] = 0

\* An event that empties the stake if it is a violation, and does not touch it
\* if it is a reward, keeps that.
LEMMA BookedForfeit ==
    ASSUME TypeOK, ForfeitLeavesNothing, NEW w \in Workers, NEW type, NEW amount,
           Booked(w, type, amount),
           \A v \in Workers \ {w} : stake'[v] = stake[v],
           type = "reward" => stake'[w] = stake[w],
           type = "slash" /\ SlashNum = SlashDen => stake'[w] = 0
    PROVE  ForfeitLeavesNothing'
<1> SUFFICES ASSUME SlashNum = SlashDen, NEW v \in Workers,
                    NEW i \in Events(v, "slash")', LastStakeEvent(v, i)'
             PROVE  stake'[v] = 0
    BY DEF ForfeitLeavesNothing
<1> DEFINE h == history[w]
           g == history'[w]
<1>1. history \in [Workers -> Seq(Event)]
      BY DEF TypeOK, Event, EventTypes
<1>2. type \in EventTypes /\ amount \in Int /\ Log(w, type, amount)
      BY DEF Booked
<1>3. /\ \A u \in Workers \ {w} : history'[u] = history[u]
      /\ DOMAIN h = 1 .. Len(h)
      /\ DOMAIN g = 1 .. Len(h) + 1
      /\ \A j \in DOMAIN h : g[j] = h[j]
      /\ g[Len(h) + 1] = [type |-> type, amount |-> amount]
      BY <1>1, <1>2, LogAppends
<1>4. Len(h) \in Nat
      BY <1>1, LenProperties
<1>5. /\ i \in DOMAIN history'[v] /\ history'[v][i].type = "slash"
      /\ \A j \in DOMAIN history'[v] : history'[v][j].type # "reward" => j <= i
      BY DEF Events, LastStakeEvent
<1>6. CASE v # w
  <2>1. history'[v] = history[v] /\ stake'[v] = stake[v]
        BY <1>3, <1>6
  <2>2. i \in Events(v, "slash") /\ LastStakeEvent(v, i)
        BY <1>5, <2>1 DEF Events, LastStakeEvent
  <2> QED
        BY <2>1, <2>2 DEF ForfeitLeavesNothing
<1>7. CASE v = w /\ i = Len(h) + 1
  <2>1. type = "slash"
        BY <1>3, <1>5, <1>7
  <2> QED
        BY <1>7, <2>1
<1>8. CASE v = w /\ i # Len(h) + 1
  <2>1. i \in 1 .. Len(h)
        BY <1>3, <1>4, <1>5, <1>8
  <2>2. type = "reward"
        BY <1>3, <1>4, <1>5, <1>8, <2>1
  <2>3. i \in Events(w, "slash")
        BY <1>3, <1>5, <1>8, <2>1 DEF Events
  <2>4. LastStakeEvent(w, i)
        BY <1>3, <1>4, <1>5, <1>8, <2>1, <2>3 DEF Events, LastStakeEvent
  <2>5. stake[w] = 0
        BY <2>3, <2>4 DEF ForfeitLeavesNothing
  <2> QED
        BY <1>8, <2>2, <2>5
<1> QED
      BY <1>6, <1>7, <1>8

\* Every method of the ledger keeps it.
LEMMA ForfeitStep ==
    ASSUME TypeOK, ForfeitLeavesNothing, NEW w \in Workers,
           \/ \E amount \in Amounts : Deposit(w, amount) \/ Withdraw(w, amount)
           \/ \E shards \in ShardCounts : Reward(w, shards)
           \/ Reward(w, 1)
           \/ Slash(w)
    PROVE  ForfeitLeavesNothing'
<1> USE LedgerAssumption
<1>1. /\ stake \in [Workers -> Int] /\ \A v \in Workers : stake[v] >= 0
      /\ balance \in [Workers -> Nat]
      BY DEF TypeOK, RateDefined
<1>2. ASSUME NEW amount \in Amounts, Deposit(w, amount)
      PROVE  ForfeitLeavesNothing'
  <2>1. Booked(w, "deposit", amount)
        BY <1>1, <1>2 DEF Deposit, Booked, EventTypes
  <2>2. \A v \in Workers \ {w} : stake'[v] = stake[v]
        BY <1>1, <1>2 DEF Deposit
  <2> QED
        BY <2>1, <2>2, BookedForfeit
<1>3. ASSUME NEW amount \in Amounts, Withdraw(w, amount)
      PROVE  ForfeitLeavesNothing'
  <2>1. Booked(w, "withdraw", amount)
        BY <1>1, <1>3 DEF Withdraw, Booked, EventTypes
  <2>2. \A v \in Workers \ {w} : stake'[v] = stake[v]
        BY <1>1, <1>3 DEF Withdraw
  <2> QED
        BY <2>1, <2>2, BookedForfeit
<1>4. ASSUME NEW shards \in Int, Reward(w, shards)
      PROVE  ForfeitLeavesNothing'
  <2>1. shards * RewardPerShard \in Nat /\ shards * RewardPerShard > 0
        BY <1>4 DEF Reward
  <2>2. Booked(w, "reward", shards * RewardPerShard)
        BY <1>1, <1>4, <2>1 DEF Reward, Booked, EventTypes
  <2>3. stake' = stake
        BY <1>4 DEF Reward
  <2> QED
        BY <2>2, <2>3, BookedForfeit
<1>5. ASSUME Slash(w)
      PROVE  ForfeitLeavesNothing'
  <2>1. Forfeit(stake[w]) \in Nat /\ Forfeit(stake[w]) <= stake[w]
        BY <1>1, ForfeitIsCovered
  <2>2. Booked(w, "slash", Forfeit(stake[w]))
        BY <1>1, <1>5, <2>1 DEF Slash, Booked, EventTypes
  <2>3. \A v \in Workers \ {w} : stake'[v] = stake[v]
        BY <1>1, <1>5 DEF Slash
  <2>4. ASSUME SlashNum = SlashDen
        PROVE  stake'[w] = 0
    <3>1. \A a, d \in Nat : d # 0 => (a * d) \div d = a
          OBVIOUS
    <3>2. Forfeit(stake[w]) = stake[w]
          BY <1>1, <2>4, <3>1 DEF Forfeit
    <3> QED
          BY <1>1, <1>5, <3>2 DEF Slash
  <2> QED
        BY <2>2, <2>3, <2>4, BookedForfeit
<1> QED
      BY <1>2, <1>3, <1>4, <1>5

\* Nothing but the ledger's methods changes it.
LEMMA BarterCallsLedger ==
    ASSUME [BarterNext]_barterVars
    PROVE  \/ UNCHANGED vars
           \/ \E w \in Workers :
                 \/ \E amount \in Amounts : Deposit(w, amount) \/ Withdraw(w, amount)
                 \/ \E shards \in ShardCounts : Reward(w, shards)
                 \/ Reward(w, 1)
                 \/ Slash(w)
BY DEF BarterNext, barterVars, Bank, Judge, SettleRejected, SettleMinority,
       SettleConfirmed, Audit, Pay, Punish

\* "Any deviation results in the loss of the staked amount" (ledger.js:46-49):
\* where the whole stake is forfeit, a worker whose stake last moved by a
\* violation is audited whatever the draw.
THEOREM ForfeitIsAudited == BarterSpec => []ForfeitedMeansAudited
<1>1. BarterInit => ForfeitLeavesNothing
      BY DEF BarterInit, Init, ForfeitLeavesNothing, Events
<1>2. BarterInv /\ ForfeitLeavesNothing /\ [BarterNext]_barterVars => ForfeitLeavesNothing'
  <2> SUFFICES ASSUME BarterInv, ForfeitLeavesNothing, [BarterNext]_barterVars
               PROVE  ForfeitLeavesNothing'
      OBVIOUS
  <2>1. CASE UNCHANGED vars
        BY <2>1 DEF ForfeitLeavesNothing, Events, LastStakeEvent, vars
  <2>2. CASE ~UNCHANGED vars
        BY <2>2, BarterCallsLedger, ForfeitStep DEF BarterInv, BarterTypeOK
  <2> QED
        BY <2>1, <2>2
<1>3. ForfeitLeavesNothing => ForfeitedMeansAudited
  <2>1. \A d \in 0 .. 9 : ShouldAudit(d, 10, 0, RewardPerShard, FALSE)
        BY LedgerAssumption DEF ShouldAudit, Drawn
  <2> QED
        BY <2>1 DEF ForfeitLeavesNothing, ForfeitedMeansAudited
<1> QED
      BY <1>1, <1>2, <1>3, BarterInvariance, PTL DEF BarterSpec

-----------------------------------------------------------------------------
(* The books *)

\* A function that adds up terms one by one exists, up to any number: the least
\* number without one would follow a number with one, which extends to it.
LEMMA SumExists ==
    ASSUME NEW term, NEW n \in Nat
    PROVE  \E f : f = [k \in 0 .. n |-> IF k = 0 THEN 0 ELSE f[k - 1] + term[k]]
<1> DEFINE Sums(m, f) == f = [k \in 0 .. m |-> IF k = 0 THEN 0 ELSE f[k - 1] + term[k]]
           Missing == {m \in Nat : ~\E f : Sums(m, f)}
<1>1. SUFFICES ASSUME Missing # {} PROVE FALSE
      OBVIOUS
<1>2. PICK m \in Missing : \A j \in Missing : m <= j
      BY <1>1, LeastExists
<1>3. m # 0
  <2>1. Sums(0, [k \in 0 .. 0 |-> 0])
        OBVIOUS
  <2> QED
        BY <1>2, <2>1
<1>4. m - 1 \in Nat /\ m \in Nat
      BY <1>2, <1>3
<1>5. \E f : Sums(m - 1, f)
  <2>1. m - 1 \notin Missing
        BY <1>2, <1>4
  <2> HIDE DEF Sums
  <2> QED
        BY <1>4, <2>1
<1>6. PICK f : Sums(m - 1, f)
      BY <1>5
<1> DEFINE g == [k \in 0 .. m |-> IF k < m THEN f[k] ELSE f[m - 1] + term[m]]
<1>7. ASSUME NEW k \in 0 .. m
      PROVE  g[k] = IF k = 0 THEN 0 ELSE g[k - 1] + term[k]
  <2>1. CASE k = m
        BY <1>3, <1>4, <2>1
  <2>2. CASE k < m /\ k # 0
        BY <1>4, <1>6, <2>2
  <2>3. CASE k < m /\ k = 0
        BY <1>4, <1>6, <2>3
  <2> QED
        BY <1>4, <2>1, <2>2, <2>3
<1>8. Sums(m, g)
      BY <1>7
<1> QED
      BY <1>2, <1>8

\* So the running totals are what their recursion says.
LEMMA RunningSums ==
    ASSUME NEW h \in Seq(Event), NEW type
    PROVE  /\ Running(h, type)[0] = 0
           /\ \A k \in 1 .. Len(h) :
                 Running(h, type)[k] =
                   Running(h, type)[k - 1] + IF h[k].type = type THEN h[k].amount ELSE 0
<1> DEFINE Sums(f) == f = [k \in 0 .. Len(h) |->
                             IF k = 0 THEN 0
                             ELSE f[k - 1] + IF h[k].type = type THEN h[k].amount ELSE 0]
           term == [k \in 1 .. Len(h) |-> IF h[k].type = type THEN h[k].amount ELSE 0]
           r == Running(h, type)
<1>1. Len(h) \in Nat
      BY LenProperties
<1>2. PICK f : f = [k \in 0 .. Len(h) |-> IF k = 0 THEN 0 ELSE f[k - 1] + term[k]]
      BY <1>1, SumExists
<1>3. Sums(f)
  <2>1. \A k \in 0 .. Len(h) :
           (IF k = 0 THEN 0 ELSE f[k - 1] + term[k]) =
             IF k = 0 THEN 0
             ELSE f[k - 1] + IF h[k].type = type THEN h[k].amount ELSE 0
        BY <1>1
  <2> HIDE DEF term
  <2> QED
        BY <1>2, <2>1
<1>4. r = CHOOSE x : Sums(x)
      BY DEF Running
<1>5. Sums(r)
      BY <1>3, <1>4
<1> HIDE DEF r
<1> QED
      BY <1>1, <1>5 DEF r

\* They are numbers, and an event leaves those before it as they were.
LEMMA RunningAppend ==
    ASSUME NEW h \in Seq(Event), NEW e \in Event, NEW type
    PROVE  LET g == Append(h, e)
           IN  /\ Running(h, type)[Len(h)] \in Int
               /\ Running(g, type)[Len(g)] =
                    Running(h, type)[Len(h)] + IF e.type = type THEN e.amount ELSE 0
<1> DEFINE g == Append(h, e)
           r == Running(h, type)
           q == Running(g, type)
<1>1. /\ g \in Seq(Event) /\ Len(h) \in Nat /\ Len(g) = Len(h) + 1
      /\ \A i \in 1 .. Len(h) : g[i] = h[i] /\ h[i] \in Event
      /\ g[Len(h) + 1] = e
      BY AppendProperties, LenProperties, ElementOfSeq
<1>2. /\ r[0] = 0
      /\ \A k \in 1 .. Len(h) : r[k] = r[k - 1] + IF h[k].type = type THEN h[k].amount ELSE 0
      BY RunningSums
<1>3. /\ q[0] = 0
      /\ \A k \in 1 .. Len(h) + 1 : q[k] = q[k - 1] + IF g[k].type = type THEN g[k].amount ELSE 0
  <2>1. g \in Seq(Event) /\ Len(g) = Len(h) + 1
        BY <1>1
  <2> HIDE DEF g
  <2> QED
        BY <2>1, RunningSums
<1> HIDE DEF r, q, g
<1> DEFINE Apart == {k \in 0 .. Len(h) : ~(r[k] \in Int /\ q[k] = r[k])}
<1>4. Apart = {}
  <2> SUFFICES ASSUME Apart # {} PROVE FALSE
      OBVIOUS
  <2>1. Apart \in SUBSET Nat
        BY <1>1
  <2>2. PICK k \in Apart : \A j \in Apart : k <= j
        BY <2>1, LeastExists
  <2>3. k \in 0 .. Len(h) /\ k # 0
        BY <1>1, <1>2, <1>3, <2>2
  <2>4. k - 1 \in 0 .. Len(h) /\ k - 1 \notin Apart /\ k \in 1 .. Len(h)
        BY <1>1, <2>2, <2>3
  <2>5. r[k - 1] \in Int /\ q[k - 1] = r[k - 1]
        BY <2>4
  <2>6. g[k] = h[k] /\ h[k].amount \in Int
        BY <1>1, <2>4 DEF Event
  <2>7. r[k] \in Int /\ q[k] = r[k]
        BY <1>1, <1>2, <1>3, <2>4, <2>5, <2>6
  <2> QED
        BY <2>2, <2>7
<1>5. r[Len(h)] \in Int /\ q[Len(h)] = r[Len(h)]
      BY <1>1, <1>4
<1>6. q[Len(h) + 1] = q[Len(h)] + IF e.type = type THEN e.amount ELSE 0
      BY <1>1, <1>3
<1> QED
      BY <1>1, <1>5, <1>6 DEF r, q, g

\* What a booked event is worth to each of the accounts.
ToStake(type, amount) ==
    IF type = "deposit" THEN amount
    ELSE IF type \in {"withdraw", "slash"} THEN 0 - amount ELSE 0
ToBalance(type, amount) == IF type = "reward" THEN amount ELSE 0

\* An event that moves the accounts by what it says keeps the books.
LEMMA BookedBooks ==
    ASSUME TypeOK, BooksBalance, NEW w \in Workers, NEW type, NEW amount,
           Booked(w, type, amount),
           \A v \in Workers \ {w} : stake'[v] = stake[v] /\ balance'[v] = balance[v],
           stake'[w] = stake[w] + ToStake(type, amount),
           balance'[w] = balance[w] + ToBalance(type, amount)
    PROVE  BooksBalance'
<1> DEFINE h == history[w]
           e == [type |-> type, amount |-> amount]
           T(t) == Running(h, t)[Len(h)]
           U(t) == Running(Append(h, e), t)[Len(Append(h, e))]
<1>1. history \in [Workers -> Seq(Event)] /\ h \in Seq(Event)
      BY DEF TypeOK, Event, EventTypes
<1>2. type \in EventTypes /\ amount \in Int /\ Log(w, type, amount)
      BY DEF Booked
<1>3. e \in Event /\ e.type = type /\ e.amount = amount
      BY <1>2 DEF Event
<1>4. history' = [history EXCEPT ![w] = Append(h, e)]
      BY <1>2 DEF Log
<1>5. \A t : T(t) \in Int /\ U(t) = T(t) + IF type = t THEN amount ELSE 0
      BY <1>1, <1>3, RunningAppend
<1>6. ASSUME NEW v \in Workers, v # w
      PROVE  /\ stake'[v] = Total(v, "deposit")' - Total(v, "withdraw")' - Total(v, "slash")'
             /\ balance'[v] = Total(v, "reward")'
  <2>1. history'[v] = history[v]
        BY <1>1, <1>4, <1>6
  <2>2. \A t : Total(v, t)' = Total(v, t)
        BY <2>1 DEF Total
  <2> QED
        BY <1>6, <2>2 DEF BooksBalance
<1>7. /\ stake'[w] = Total(w, "deposit")' - Total(w, "withdraw")' - Total(w, "slash")'
      /\ balance'[w] = Total(w, "reward")'
  <2>1. history'[w] = Append(h, e)
        BY <1>1, <1>4
  <2>2. \A t : Total(w, t) = T(t) /\ Total(w, t)' = U(t)
        BY <2>1 DEF Total
  <2> HIDE DEF T, U
  <2>3. /\ stake[w] = T("deposit") - T("withdraw") - T("slash")
        /\ balance[w] = T("reward")
        BY <2>2 DEF BooksBalance
  <2> QED
        BY <1>2, <1>5, <2>2, <2>3 DEF ToStake, ToBalance, EventTypes
<1> QED
      BY <1>6, <1>7 DEF BooksBalance

\* Every method of the ledger moves its accounts by what it logs.
LEMMA BooksStep ==
    ASSUME TypeOK, BooksBalance, NEW w \in Workers,
           \/ \E amount \in Amounts : Deposit(w, amount) \/ Withdraw(w, amount)
           \/ \E shards \in ShardCounts : Reward(w, shards)
           \/ Reward(w, 1)
           \/ Slash(w)
    PROVE  BooksBalance'
<1> USE LedgerAssumption
<1>1. /\ stake \in [Workers -> Int] /\ \A v \in Workers : stake[v] >= 0
      /\ balance \in [Workers -> Nat]
      BY DEF TypeOK, RateDefined
<1>2. ASSUME NEW amount \in Amounts, Deposit(w, amount)
      PROVE  BooksBalance'
  <2>1. Booked(w, "deposit", amount)
        BY <1>1, <1>2 DEF Deposit, Booked, EventTypes
  <2>2. /\ \A v \in Workers \ {w} : stake'[v] = stake[v] /\ balance'[v] = balance[v]
        /\ stake'[w] = stake[w] + ToStake("deposit", amount)
        /\ balance'[w] = balance[w] + ToBalance("deposit", amount)
        BY <1>1, <1>2 DEF Deposit, ToStake, ToBalance
  <2> QED
        BY <2>1, <2>2, BookedBooks
<1>3. ASSUME NEW amount \in Amounts, Withdraw(w, amount)
      PROVE  BooksBalance'
  <2>1. Booked(w, "withdraw", amount)
        BY <1>1, <1>3 DEF Withdraw, Booked, EventTypes
  <2>2. /\ \A v \in Workers \ {w} : stake'[v] = stake[v] /\ balance'[v] = balance[v]
        /\ stake'[w] = stake[w] + ToStake("withdraw", amount)
        /\ balance'[w] = balance[w] + ToBalance("withdraw", amount)
        BY <1>1, <1>3 DEF Withdraw, ToStake, ToBalance
  <2> QED
        BY <2>1, <2>2, BookedBooks
<1>4. ASSUME NEW shards \in Int, Reward(w, shards)
      PROVE  BooksBalance'
  <2>1. shards * RewardPerShard \in Nat /\ shards * RewardPerShard > 0
        BY <1>4 DEF Reward
  <2>2. Booked(w, "reward", shards * RewardPerShard)
        BY <1>1, <1>4, <2>1 DEF Reward, Booked, EventTypes
  <2>3. /\ \A v \in Workers \ {w} : stake'[v] = stake[v] /\ balance'[v] = balance[v]
        /\ stake'[w] = stake[w] + ToStake("reward", shards * RewardPerShard)
        /\ balance'[w] = balance[w] + ToBalance("reward", shards * RewardPerShard)
        BY <1>1, <1>4 DEF Reward, ToStake, ToBalance
  <2> QED
        BY <2>2, <2>3, BookedBooks
<1>5. ASSUME Slash(w)
      PROVE  BooksBalance'
  <2>1. Forfeit(stake[w]) \in Nat /\ Forfeit(stake[w]) <= stake[w]
        BY <1>1, ForfeitIsCovered
  <2>2. Booked(w, "slash", Forfeit(stake[w]))
        BY <1>1, <1>5, <2>1 DEF Slash, Booked, EventTypes
  <2>3. /\ \A v \in Workers \ {w} : stake'[v] = stake[v] /\ balance'[v] = balance[v]
        /\ stake'[w] = stake[w] + ToStake("slash", Forfeit(stake[w]))
        /\ balance'[w] = balance[w] + ToBalance("slash", Forfeit(stake[w]))
        BY <1>1, <1>5, <2>1 DEF Slash, ToStake, ToBalance
  <2> QED
        BY <2>2, <2>3, BookedBooks
<1> QED
      BY <1>2, <1>3, <1>4, <1>5

\* Both accounts can be recomputed from the history (ledger.js:10-22), however
\* long it is and whatever fraction a violation forfeits.
THEOREM BooksAreKept == BarterSpec => []BooksBalance
<1>1. BarterInit => BooksBalance
  <2> SUFFICES ASSUME BarterInit, NEW w \in Workers
               PROVE  /\ stake[w] = 0 /\ balance[w] = 0
                      /\ \A t : Total(w, t) = 0
      BY DEF BooksBalance
  <2>1. history[w] = <<>> /\ stake[w] = 0 /\ balance[w] = 0
        BY DEF BarterInit, Init
  <2>2. <<>> \in Seq(Event) /\ Len(<<>>) = 0
        OBVIOUS
  <2>3. \A t : Running(<<>>, t)[0] = 0
        BY <2>2, RunningSums
  <2> QED
        BY <2>1, <2>2, <2>3 DEF Total
<1>2. BarterInv /\ BooksBalance /\ [BarterNext]_barterVars => BooksBalance'
  <2> SUFFICES ASSUME BarterInv, BooksBalance, [BarterNext]_barterVars
               PROVE  BooksBalance'
      OBVIOUS
  <2>1. CASE UNCHANGED vars
        BY <2>1 DEF BooksBalance, Total, vars
  <2>2. CASE ~UNCHANGED vars
        BY <2>2, BarterCallsLedger, BooksStep DEF BarterInv, BarterTypeOK
  <2> QED
        BY <2>1, <2>2
<1> QED
      BY <1>1, <1>2, BarterInvariance, PTL DEF BarterSpec
=============================================================================
