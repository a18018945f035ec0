---------------------------- MODULE CreditLedger ----------------------------
(***************************************************************************)
(* Stake, earnings and slashing, packages/zkpoc-broker/src/ledger.js.  One *)
(* action per method that changes the ledger; a call that throws changes   *)
(* nothing.  Amounts are whole units, small enough that every forfeit is   *)
(* exact; an event keeps its type and amount, not its time or its reason.  *)
(***************************************************************************)
EXTENDS Integers, Sequences, Audit

CONSTANTS
    Workers,
    Amounts,         \* what callers pass to deposit() and withdraw()
    ShardCounts,     \* what callers pass to reward()
    RewardPerShard,  \* options of the constructor, ledger.js:52-59
    SlashNum,        \* slashFraction = SlashNum / SlashDen
    SlashDen,
    MaxEvents        \* bound: events in a worker's history

ASSUME LedgerAssumption ==
    /\ Amounts \subseteq Int
    /\ ShardCounts \subseteq Int
    /\ RewardPerShard \in Nat \ {0}
    /\ SlashNum \in Nat \ {0}
    /\ SlashDen \in Nat \ {0}
    /\ SlashNum <= SlashDen
    /\ MaxEvents \in Nat

VARIABLES
    stake,     \* _stake, 0 where the map has no entry
    balance,   \* _balance, likewise
    history    \* _history: each worker's events, oldest first

vars == <<stake, balance, history>>

-----------------------------------------------------------------------------

Init ==
    /\ stake = [w \in Workers |-> 0]
    /\ balance = [w \in Workers |-> 0]
    /\ history = [w \in Workers |-> <<>>]

\* _log()
Log(w, type, amount) ==
    /\ Len(history[w]) < MaxEvents
    /\ history' = [history EXCEPT ![w] =
                     Append(@, [type |-> type, amount |-> amount])]

Deposit(w, amount) ==
    /\ amount > 0
    /\ stake' = [stake EXCEPT ![w] = @ + amount]
    /\ Log(w, "deposit", amount)
    /\ UNCHANGED balance

\* The definitions named ...Fault are plausible bugs in the one they precede.
\* Nothing uses them: they are there to be swapped in, to see that the
\* properties notice.
WithdrawFault(w, amount) ==
    /\ stake' = [stake EXCEPT ![w] = @ - amount]
    /\ Log(w, "withdraw", amount)
    /\ UNCHANGED balance

\* Only an amount above the stake is refused.
Withdraw(w, amount) ==
    /\ amount <= stake[w]
    /\ stake' = [stake EXCEPT ![w] = @ - amount]
    /\ Log(w, "withdraw", amount)
    /\ UNCHANGED balance

Reward(w, shards) ==
    /\ shards > 0
    /\ balance' = [balance EXCEPT ![w] = @ + shards * RewardPerShard]
    /\ Log(w, "reward", shards * RewardPerShard)
    /\ UNCHANGED stake

\* The bound that keeps amounts whole: never reached where the amounts posted
\* are multiples of SlashDen ^ MaxEvents.
Exact(have) == (have * SlashNum) % SlashDen = 0

ForfeitFault(have) == IF have >= SlashNum THEN SlashNum ELSE have

Forfeit(have) == (have * SlashNum) \div SlashDen

SlashFault(w) ==
    /\ Exact(stake[w])
    /\ stake' = [stake EXCEPT ![w] = @ - Forfeit(@)]
    /\ Log(w, "slash", Forfeit(stake'[w]))
    /\ UNCHANGED balance

\* Slashing an empty stake is not an error: it forfeits nothing, and counts.
Slash(w) ==
    /\ Exact(stake[w])
    /\ stake' = [stake EXCEPT ![w] = @ - Forfeit(@)]
    /\ Log(w, "slash", Forfeit(stake[w]))
    /\ UNCHANGED balance

Next ==
    \E w \in Workers :
        \/ \E amount \in Amounts : Deposit(w, amount) \/ Withdraw(w, amount)
        \/ \E shards \in ShardCounts : Reward(w, shards)
        \/ Slash(w)

Spec == Init /\ [][Next]_vars

-----------------------------------------------------------------------------
(* Properties *)

\* Type invariant.  Only a withdrawal's amount is not checked for its sign.  No
\* sequence of withdrawals and violations overdraws a stake, so the audit of a
\* worker never fails for want of a rate (minAuditRate throws below 0,
\* audit.js:52-54).
TypeOK ==
    /\ stake \in [Workers -> Int]
    /\ \A w \in Workers : RateDefined(stake[w])
    /\ balance \in [Workers -> Nat]
    /\ history \in [Workers -> Seq([type : {"deposit", "withdraw", "reward", "slash"},
                                     amount : Int])]
    /\ \A w \in Workers : \A i \in DOMAIN history[w] :
          history[w][i].type \in {"deposit", "reward"} => history[w][i].amount > 0

Events(w, type) == {i \in DOMAIN history[w] : history[w][i].type = type}

\* The events of one type among the first k, added up, for every k.
Running(events, type) ==
    LET sum[k \in 0 .. Len(events)] ==
          IF k = 0 THEN 0
          ELSE sum[k - 1] + IF events[k].type = type THEN events[k].amount ELSE 0
    IN  sum

Total(w, type) == Running(history[w], type)[Len(history[w])]

\* Both accounts can be recomputed from the history alone: every unit of stake
\* was posted and not yet withdrawn or forfeited, every unit earned was
\* rewarded, and no violation ever touched what was earned (ledger.js:10-22).
BooksBalance ==
    \A w \in Workers :
        /\ stake[w] = Total(w, "deposit") - Total(w, "withdraw") - Total(w, "slash")
        /\ balance[w] = Total(w, "reward")

\* "Any deviation results in the loss of the staked amount" (ledger.js:46-49):
\* where the whole stake is forfeit, a worker whose stake last moved by a
\* violation is audited at every later submission, whatever the draw, until
\* it posts stake again.
LastStakeEvent(w, i) ==
    /\ i \in DOMAIN history[w] \ Events(w, "reward")
    /\ \A j \in DOMAIN history[w] \ Events(w, "reward") : j <= i

ForfeitedMeansAudited ==
    SlashNum = SlashDen =>
        \A w \in Workers : \A i \in Events(w, "slash") :
            LastStakeEvent(w, i) =>
                \A draw \in 0 .. 9 :
                    ShouldAudit(draw, 10, stake[w], RewardPerShard, FALSE)
=============================================================================
