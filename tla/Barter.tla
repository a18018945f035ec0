------------------------------- MODULE Barter -------------------------------
(***************************************************************************)
(* Barter mode, one shard of it: the answers of its workers are judged by  *)
(* consensus, the verdicts drive the audit, and the audit drives the       *)
(* ledger, while workers deposit and withdraw as they like.  No module of  *)
(* the repository wires these together; its tests do, and what they do is  *)
(* modelled (dispute-resolution.test.js 67-121, adversarial.test.js        *)
(* 185-194), with the audits that docs/architecture.md 217-223 describes.  *)
(***************************************************************************)
EXTENDS CreditLedger, Tally, FiniteSetsExt

CONSTANTS
    Draws,     \* bound: auditDraw() is a multiple of 1 / Draws
    MaxCalls   \* bound: the events after which Bank leaves the ledger alone

ASSUME BarterAssumption ==
    /\ IsFiniteSet(Workers)
    /\ Draws \in Nat \ {0}
    /\ MaxCalls \in Nat

VARIABLES
    answer,      \* what each worker's submission is worth: one of Kinds
    verdict,     \* consensus' verdict, or "none" before there is one
    draw,        \* auditDraw() of the confirmed root
    disclosure,  \* "none", or "asked" for, or what came of it
    settled      \* "open", then "paid" or "slashed"

barterVars == <<vars, answer, verdict, draw, disclosure, settled>>

\* What tells submissions apart.  An answer is "near" if it is right but some
\* digest lies across a rounding boundary, so that its root differs; "wrong" in
\* rows that its own root does not ask for; "unseen" if it is wrong only in
\* columns that no check looks at; "garbage" does not pass the gate.
Kinds == {"true", "near", "wrong", "unseen", "garbage"}

Honest(w) == answer[w] \in {"true", "near"}

PassesGate(kind) == kind # "garbage"

\* auditFull() checks every row of what is disclosed, under the root that comes
\* with it: rows computed anew pass, whatever was submitted.
PassesAudit(kind, how) ==
    \/ how = "anew"
    \/ how = "own" /\ kind \in {"true", "near", "unseen"}

-----------------------------------------------------------------------------

BarterInit ==
    /\ Init
    /\ answer \in [Workers -> Kinds]
    /\ verdict = [w \in Workers |-> "none"]
    /\ draw \in 0 .. Draws - 1
    /\ disclosure = [w \in Workers |-> "none"]
    /\ settled = [w \in Workers |-> "open"]

\* The ledger at any time: workers deposit and withdraw, and are paid for other
\* shards.
Bank ==
    /\ MapThenSumSet(LAMBDA w : Len(history[w]), Workers) < MaxCalls
    /\ \E w \in Workers :
          \/ \E amount \in Amounts : Deposit(w, amount) \/ Withdraw(w, amount)
          \/ \E shards \in ShardCounts : Reward(w, shards)
    /\ UNCHANGED <<answer, verdict, draw, disclosure, settled>>

Orders ==
    {o \in [1 .. Cardinality(Workers) -> Workers] : \A w \in Workers : \E i \in DOMAIN o : o[i] = w}

\* reachConsensus() on the answers, in the order in which they came in.  Answers
\* that are alike share a root: their workers computed, or invented, the same.
Judge ==
    /\ \A w \in Workers : verdict[w] = "none"
    /\ \E o \in Orders :
          LET checked == [i \in DOMAIN o |-> [root |-> answer[o[i]],
                                              ok   |-> PassesGate(answer[o[i]])]]
              result  == TallyVerifiedReplicas(checked)
          IN  verdict' = [w \in Workers |->
                            result.verdict[CHOOSE i \in DOMAIN o : o[i] = w]]
    /\ UNCHANGED <<vars, answer, draw, disclosure, settled>>

Pay(w) ==
    /\ Reward(w, 1)
    /\ settled' = [settled EXCEPT ![w] = "paid"]

Punish(w) ==
    /\ Slash(w)
    /\ settled' = [settled EXCEPT ![w] = "slashed"]

\* A submission that failed the gate is slashed.
SettleRejected(w) ==
    /\ verdict[w] = "rejected" /\ settled[w] = "open"
    /\ Punish(w)
    /\ UNCHANGED <<answer, verdict, draw, disclosure>>

\* The definitions named ...Fault are plausible bugs in the one they precede.
\* Nothing uses them: they are there to be swapped in, to see that the
\* properties notice.

\* Slashed at once, for a root that is not the majority's.
SettleMinorityFault(w) ==
    /\ verdict[w] = "minority" /\ settled[w] = "open"
    /\ Punish(w)
    /\ UNCHANGED <<answer, verdict, draw, disclosure>>

\* A disputed answer is audited, whatever the stake: its worker is asked to
\* disclose all rows.
SettleMinority(w) ==
    /\ verdict[w] = "minority" /\ settled[w] = "open"
    /\ disclosure[w] = "none"
    /\ disclosure' = [disclosure EXCEPT ![w] = "asked"]
    /\ UNCHANGED <<vars, answer, verdict, draw, settled>>

\* A confirmed one is audited if the draw is below the rate for its stake as it
\* is now, and else paid.
SettleConfirmed(w) ==
    /\ verdict[w] = "confirmed" /\ settled[w] = "open"
    /\ disclosure[w] = "none"
    /\ IF ShouldAudit(draw, Draws, stake[w], RewardPerShard, FALSE)
       THEN /\ disclosure' = [disclosure EXCEPT ![w] = "asked"]
            /\ UNCHANGED <<vars, settled>>
       ELSE Pay(w) /\ UNCHANGED disclosure
    /\ UNCHANGED <<answer, verdict, draw>>

AuditFault(w, how) ==
    /\ disclosure[w] = "asked"
    /\ disclosure' = [disclosure EXCEPT ![w] = how]
    /\ IF how # "refused" THEN Pay(w) ELSE Punish(w)
    /\ UNCHANGED <<answer, verdict, draw>>

\* The rows the worker computed then, or rows computed anew; or no answer.
Audit(w, how) ==
    /\ disclosure[w] = "asked"
    /\ disclosure' = [disclosure EXCEPT ![w] = how]
    /\ IF PassesAudit(answer[w], how) THEN Pay(w) ELSE Punish(w)
    /\ UNCHANGED <<answer, verdict, draw>>

BarterNext ==
    \/ Bank
    \/ Judge
    \/ \E w \in Workers :
          \/ SettleRejected(w) \/ SettleMinority(w) \/ SettleConfirmed(w)
          \/ \E how \in {"own", "anew", "refused"} : Audit(w, how)

BarterSpec == BarterInit /\ [][BarterNext]_barterVars

-----------------------------------------------------------------------------
(* Properties *)

\* Type invariant, of the ledger too.
BarterTypeOK ==
    /\ TypeOK
    /\ answer \in [Workers -> Kinds]
    /\ verdict \in [Workers -> {"none", "confirmed", "minority", "rejected", "unconfirmed"}]
    /\ draw \in 0 .. Draws - 1
    /\ disclosure \in [Workers -> {"none", "asked", "own", "anew", "refused"}]
    /\ settled \in [Workers -> {"open", "paid", "slashed"}]

\* Honest work is not slashed, also where it is in the minority ("the honest
\* one is paid", dispute-resolution.test.js:67): not for a rounding boundary
\* between two honest workers (merkle.js:43), nor because more workers agreed on
\* something else; only for refusing to disclose.
HonestIsNotSlashed ==
    \A w \in Workers :
        Honest(w) /\ settled[w] = "slashed" => disclosure[w] = "refused"

\* "A dishonest replica must not be paid" (dispute-resolution.test.js:115).  It
\* is paid exactly where the checks cannot see: its root had a majority of what
\* passed the gate and it was not drawn, or it is wrong only in columns that no
\* audit looks at (shard.js:393), or it disclosed rows computed anew, under
\* another root, of which the audit is not told (audit.js:123).
Backers(w) == {v \in Workers : answer[v] = answer[w]}
Gated == {v \in Workers : PassesGate(answer[v])}

PaidIsRightOrUnseen ==
    \A w \in Workers : settled[w] = "paid" /\ ~Honest(w) =>
        \/ /\ disclosure[w] = "none"
           /\ Cardinality(Backers(w)) * MajorityDen > MajorityNum * Cardinality(Gated)
        \/ disclosure[w] = "own" /\ answer[w] = "unseen"
        \/ disclosure[w] = "anew"
=============================================================================
