---------------------------- MODULE NaturalOrder ----------------------------
(***************************************************************************)
(* Sets of natural numbers have a least element, bounded ones a greatest.  *)
(***************************************************************************)
EXTENDS Naturals, WellFoundedInduction, TLAPS

\* A nonempty set of natural numbers has a least element.
LEMMA LeastExists ==
    ASSUME NEW S \in SUBSET Nat, S # {}
    PROVE  \E m \in S : \A j \in S : m <= j
<1>1. IsWellFoundedOn(OpToRel(<, Nat), Nat)
      BY NatLessThanWellFounded
<1>2. PICK m \in S : \A j \in S : ~(<<j, m>> \in OpToRel(<, Nat))
      BY <1>1, WFMin
<1>3. ASSUME NEW j \in S
      PROVE  m <= j
  <2>1. m \in Nat /\ j \in Nat
        OBVIOUS
  <2>2. ~(<<j, m>> \in OpToRel(<, Nat))
        BY <1>2
  <2>3. ~(j < m)
        BY <2>1, <2>2 DEF OpToRel
  <2> QED
        BY <2>1, <2>3
<1> QED
      BY <1>3

\* A nonempty bounded set of natural numbers has a greatest element.
LEMMA GreatestExists ==
    ASSUME NEW S \in SUBSET Nat, S # {}, NEW b \in Nat, \A j \in S : j <= b
    PROVE  \E m \in S : \A j \in S : j <= m
<1> DEFINE T == {b - j : j \in S}
<1>1. T \in SUBSET Nat /\ T # {}
  <2>1. \A j \in S : b - j \in Nat
        OBVIOUS
  <2>2. T \in SUBSET Nat
        BY <2>1
  <2>3. PICK j \in S : TRUE
        OBVIOUS
  <2>4. b - j \in T
        BY <2>3
  <2> QED
        BY <2>2, <2>4
<1>2. PICK t \in T : \A u \in T : t <= u
      BY <1>1, LeastExists
<1>3. PICK m \in S : t = b - m
      BY <1>2
<1>4. ASSUME NEW j \in S
      PROVE  j <= m
  <2>1. t <= b - j
        BY <1>2
  <2> QED
        BY <1>3, <2>1
<1> QED
      BY <1>4
=============================================================================
