----------------------------- MODULE ShardSizing -----------------------------
(***************************************************************************)
(* How large a shard a device tier is given, tiers.js of zkpoc-broker; a   *)
(* challenge is sized the same way (challenge.js 67-78).                   *)
(*                                                                         *)
(* Time is counted in what one unit of an n x n x n product takes on the   *)
(* tier, so a shard of size n computes for Cube(n) and a tier is no more   *)
(* than its dispatch overhead in that unit.  Cube roots are exact here.    *)
(***************************************************************************)
EXTENDS Naturals

Cube(n) == n * n * n

\* wallSeconds()
Wall(overhead, n) == overhead + Cube(n)

Least(S) == CHOOSE m \in S : \A j \in S : m <= j
Greatest(S) == CHOOSE m \in S : \A j \in S : j <= m

\* minShardN(), for maxFraction = num / den: the rounded-up cube root.
MinShardN(overhead, num, den) ==
    IF overhead = 0 THEN 1
    ELSE Least({m \in 0 .. overhead * (den - num) : overhead * (den - num) <= Cube(m) * num})

\* shardNForWallTime(): the rounded-down cube root.
ShardNForWallTime(overhead, budget) ==
    IF budget <= overhead THEN 0
    ELSE Greatest({m \in 0 .. budget - overhead : Cube(m) <= budget - overhead})

\* roundDown() of chooseShardSize(), which rounds up below one granule.
RoundDown(n, granularity) ==
    IF n < granularity THEN granularity ELSE (n \div granularity) * granularity

\* chooseShardSize(), of a measured tier: resolveTier() throws for any other.
ChooseShardSize(overhead, budget, num, den, granularity) ==
    LET floorN  == MinShardN(overhead, num, den)
        budgetN == ShardNForWallTime(overhead, budget)
        rounded == RoundDown(budgetN, granularity)
    IN  IF budgetN < floorN
        THEN [n |-> floorN, budgetExceeded |-> TRUE, floorN |-> floorN]
        ELSE [n |-> IF rounded < floorN THEN floorN ELSE rounded,
              budgetExceeded |-> FALSE, floorN |-> floorN]
=============================================================================
