-------------------------------- MODULE Audit --------------------------------
(***************************************************************************)
(* When a submission must be audited, packages/zkpoc-broker/src/audit.js.  *)
(* Rates and draws are fractions; they are compared by cross-multiplying.  *)
(***************************************************************************)
EXTENDS Naturals

\* minAuditRate(k) = 1 / (1 + k), with k = stake / rewardPerShard: the rate is
\* rewardPerShard out of rewardPerShard + stake.  It throws when k < 0.
RateDefined(stake) == stake >= 0

\* draw / draws < minAuditRate(stake / rewardPerShard)
Drawn(draw, draws, stake, rewardPerShard) ==
    draw * (rewardPerShard + stake) < rewardPerShard * draws

\* shouldAudit(): a forced audit skips the draw.
ShouldAudit(draw, draws, stake, rewardPerShard, force) ==
    force \/ Drawn(draw, draws, stake, rewardPerShard)
=============================================================================
