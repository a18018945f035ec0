# zkpoc: a verification development

TLA+ specifications of the zkpoc packages (`src/packages/`), the TLC
configurations that check them, and TLAPS proofs about them. Paths below are
relative to `src/`; `queue.js`, `consensus.js`, `audit.js`, `ledger.js`,
`shard.js`, `merkle.js`, `tiers.js` and `challenge.js` are in
`packages/zkpoc-broker/src/`, `governor.js` and `worker.js` in
`packages/zkpoc-worker/src/`, `ccm.js` and `schema.js` in
`packages/zkpoc-ccm/src/`, `session.js` in `packages/zkpoc-sdk/src/`.

## 1. The system

zkpoc lets a page spend a visitor's compute, under a signed declaration of how
much. In *barter* mode a broker cuts work into shards, has each computed by
several workers, compares their answers and pays or punishes; in *challenge*
mode one answer admits or denies a visitor.

| Component | State it keeps | Operations | Interacts with |
| --- | --- | --- | --- |
| Shard queue (`queue.js`) | per shard: assignments by worker, results by worker, attempts, completed, abandoned; FIFO order | `createShard`/`enqueue`, `assign`, `submit`, `expireLeases`, read-only accessors | polled by workers; hands replica sets to consensus |
| Shard and gate (`shard.js`) | none (pure; asynchronous hashing) | `challengeRows`, `commitFullResult`, `verifyRowSubmission` | used by workers, consensus, audit, challenge mode |
| Merkle (`merkle.js`) | none | build, prove, verify, hex | used by the gate |
| Consensus (`consensus.js`) | none beyond the promises in flight | `verifyReplica`, `tallyVerifiedReplicas`, `reachConsensus` | reads the queue's results; its verdicts drive audit and ledger |
| Audit (`audit.js`) | none | `minAuditRate`, `auditDraw`, `shouldAudit`, `auditFull` | reads the ledger's stake |
| Ledger (`ledger.js`) | stake, balance and history per worker | `deposit`, `withdraw`, `reward`, `slash`, `summary` | driven by whoever wires the verdicts (only the tests do) |
| Tiers (`tiers.js`) | measured tiers | `resolveTier`, `chooseShardSize` | sizes shards and challenges |
| Challenge mode (`challenge.js`, zkpoc-challenge) | none | `issueChallenge`, `solveChallenge`, `resolveChallenge` | gate, tiers |
| Manifest (`ccm.js`, `schema.js`) | the verifier's set of seen nonces | build, sign, `verifyManifest`, policy | its result admits a session to the governor |
| Governor (`governor.js`) | public state, stop flag, worker handle, accounting, throttle signals | `start`, `revoke`, `stop`, the burst loop, telemetry | burst worker (messages), page events, battery |
| Burst worker (`worker.js`) | its buffers | `init`, `burst`, `sample`, `stop` messages | governor |
| SDK (`session.js`) | none | `issueSession`, `attachGovernor`, `runSession` | manifest, governor |

Circuits, the Solidity verifier, the ZK build scripts, the benchmarks and the
demo page are listed in `PROJECT.json` with the reason each is left out.

What is hard here:

- *The queue* is called by workers in any order, at any time: leases expire only
  when somebody calls in, answers arrive late, twice, or never, and the clock is
  `Date.now`. Its correctness: replicas are independent, never more than needed,
  settled once, never rewritten, and every shard settles.
- *Consensus* starts all gate checks at once and waits for all: they settle in
  any order, and one may throw. Its correctness: the verdict is the order-free
  majority of the valid answers, and every answer is judged.
- *The ledger* outlives many verdicts, and workers withdraw between a verdict and
  what follows from it. Its correctness: both accounts can be recomputed from the
  history, the stake always supports an audit rate, honest work is not slashed,
  and wrong work is paid only where no check can see it.
- *The governor* is asynchronous code suspended in awaits while the page calls
  `revoke()`, the user moves, the battery drains and limits pass. Its
  correctness: a call that stops it stops the compute for good, nothing is
  posted past a limit, the average share stays within the ceiling, and sessions
  end.
- *The burst worker* overlaps its handlers on the GPU: a sample may overtake a
  burst, and answers come out of order. Its correctness: each answer settles the
  call it belongs to, and a sample is of something computed.
- *The manifest* is verified across awaits, by several calls at once that share
  the nonces seen, while the publisher may put new code behind its URLs. Its
  correctness: a manifest is admitted once, only as it was signed and for the code
  that was hashed, and the publisher's own is not refused.
- *The row challenge and Merkle trees* are sequential; their hard part is at the
  boundaries (odd layers, what is committed when, two sides configured apart).
  Their correctness: what is admitted was committed before it was asked for, and
  an honest worker is admitted.

Every hazard found is in `PROJECT.json`, at its line.

## 2. The modules

| Module | Models |
| --- | --- |
| `ReplicaSet` | what the queue promises: answers of distinct workers gathered one at a time, then complete or abandoned, then frozen |
| `ShardQueue` | the queue, one action per method; contains the refinement mapping to `ReplicaSet` |
| `MCShardQueue` | symmetry for TLC |
| `Tally` | `tallyVerifiedReplicas()` as operators |
| `Consensus` | one call of `reachConsensus()`: the gate checks in flight, then the tally |
| `MerkleTree` | `buildMerkleTree()`, `proveInclusion()`, `verifyInclusion()` over symbolic hashes |
| `RowChallenge` | commitment, challenge, reveal and `verifyRowSubmission()`, one row at a time |
| `Audit` | `minAuditRate()` and `shouldAudit()` by cross-multiplication |
| `CreditLedger` | the ledger, one action per method |
| `Barter`, `MCBarter` | `Tally`, `Audit` and `CreditLedger` composed: one shard from its answers to payment or slashing, while the ledger is used for other things |
| `ShardSizing` | `minShardN()`, `shardNForWallTime()`, `chooseShardSize()` as operators |
| `Governor` | one session of the governor, without numbers: how it starts, pauses and ends |
| `BurstWorker` | the burst worker's message loop and its asynchronous handlers |
| `Session` | `Governor` and `BurstWorker` composed over their two message queues, with `_call()` and `sampleResult()` |
| `ShareControl` | the governor's loop with its numbers: shares, idle times, ticks, energy |
| `ConsentManifest`, `MCConsentManifest` | issuing, verifying and starting sessions under signed manifests |
| `NaturalOrder` | least and greatest members of sets of natural numbers, for the proofs |
| `ShardQueue_proofs`, `Consensus_proofs`, `Barter_proofs`, `Session_proofs`, `ShareControl_proofs`, `ConsentManifest_proofs` | TLAPS theorems about the module they are named after and what it is composed of |
| `Challenge_proofs` | TLAPS theorems about `ShardSizing`, `MerkleTree` and `RowChallenge` |

How they fit: the results that `ShardQueue` gathers are the entries of
`Consensus`, whose gate outcomes (`ok`, `failed`, `threw`) are the ways a call of
`RowChallenge` ends; `Barter` uses the same tally and lets its verdicts drive the
audit and the ledger, where an audit is what a call of `RowChallenge` with all
rows asked for shows (`DisclosureCoversTheShard`); a session that
`ConsentManifest` launches is one `Session`, and `ShareControl` is the same loop
seen with its numbers.

Definitions named `...Fault` are plausible bugs in the definition they precede.
No specification uses them; swapping one in must make TLC report the property
it is paired with under `mutants` in `PROJECT.json`.

### ShardQueue

| TLA+ | `queue.js` |
| --- | --- |
| `order`, `attempts`, `completed`, `abandoned` | `_order`, the fields of a shard's record |
| `assignments[s][w]` | `rec.assignments.get(w)`, `NoLease` where there is none |
| `results[s]` | `rec.results` in insertion order, as worker and `elapsedMs` |
| `Enqueue` | `createShard` and `enqueue` (79-105) |
| `ExpireLeases` | a direct call of `expireLeases` (218-238) |
| `Assign(w)` = `LeaseOldest` or `LeaseNothing` | `assign` (113-145), its `expireLeases` call included |
| `Submit(w, s)` | the admitted branch of `submit` (194-209); `SubmitReason` gives the refusals |
| `Tick`, `StepBack` | the injectable clock |

Choices: `assign()` reads the clock twice (219 and 116); the model reads it once,
as the two readings are microseconds apart in one synchronous call. A refused
submission, and an `assign()` that returns null and reclaims nothing, change
nothing and are stuttering steps. `Tick` is enabled only while some lease is
still running: the code reads the clock only to compare it with `expiresAt` and
to record `elapsedMs`, so ticks at other times change nothing but how late an
overdue answer is. Nonces, shard contents and `issuedAt` are data no property
depends on.

### Tally and Consensus

A replica is its root and whether it passed the gate; the entries have distinct
workers, which is what the queue guarantees (`ReplicaIndependence`, proved), so
that a worker is known by its place. `GateAnswers`, `GateThrows` are the
settling of one `verifyReplica()` promise; a rejection rejects the `Promise.all`
at once, and the other checks run on unheard. `TopRoot` follows the Map's
insertion order, as the code does; `TallyIsTheMajority` is the reference
definition without any order. Timing anomalies are advisory metadata and left
out.

### MerkleTree and RowChallenge

A digest is the pair it was made of and a leaf is a triple, so digests are equal
exactly if what was hashed is, and no leaf is a node: in the code, what is
hashed differs in length, unless a row has just 16 values. A row's values are a
row number and a kind: `true`, `near` (within the tolerance, other digest),
`unseen` (wrong, but in no column that is looked at), `wrong` and `short`.

| TLA+ | code |
| --- | --- |
| `Layers`, `Stack`, `LayerAbove` | `buildMerkleTree` (merkle.js 201-216) |
| `ProveInclusion`, `Path`, `Sibling` | `proveInclusion` (223-237) |
| `VerifyInclusion`, `Climb` | `verifyInclusion` (245-253) |
| `draw[k]` | `challengeRows` (shard.js 210-222): a longer draw extends a shorter one |
| `Commit` | `commitFullResult` (237-247) |
| `Reveal` | `buildHonestSubmission` (307-319) |
| `Receive`, `CheckRow`, `Conclude` | `verifyRowSubmission` (346-422): up to the loop, one required row, the verdict |

Choices: which rows a root asks for is any draw, fixed once the worker has
committed. `worker` and `broker` are the options (`k`, `memoryHard`) that the two
sides configure on their own. A submission is the reveal, or the reveal with one
row missing or replaced: too short, computed anew, another row's entry, a proof
of zeros, a proof that cannot be decoded (the alterations of
`shard.test.js` 262-314). An "unseen" error needs more columns than
`ElementsPerRow`. `auditFull()` is the same call with `k` at least `n`.
`solveChallenge()` and `resolveChallenge()` of challenge mode are the reveal and
the gate.

### CreditLedger, Audit and Barter

`Deposit`, `Withdraw`, `Reward` and `Slash` are the ledger's methods (68-140),
`Log` its `_log()`. Amounts are whole units; `Exact` is the bound that keeps
forfeits whole. Not modelled: NaN amounts, the reason and the time of an event.

No module of the repository wires consensus, audit and ledger together: its
tests do (`dispute-resolution.test.js` 67-121, `adversarial.test.js` 185-194),
and `docs/architecture.md` 217-223 says when audits are due. `Barter` is that
wiring for one shard:

| TLA+ | wiring |
| --- | --- |
| `answer[w]` | what the submission is worth: `true`, `near`, `wrong`, `unseen` or `garbage`, fixed when consensus reads it |
| `Judge` | `reachConsensus()`, with the answers in any order |
| `SettleRejected`, `SettleMinority`, `SettleConfirmed` | what follows from each verdict: slash, ask for full disclosure, or the draw of `shouldAudit()` and payment |
| `Audit(w, how)` | `auditFull()` of what was disclosed: the rows computed `own`, rows computed `anew`, or a refusal |
| `Bank` | the ledger at any time: deposits, withdrawals, rewards for other shards |

Answers that are alike share a root. With fewer than two answers the verdict is
`unconfirmed` and nothing is settled, as in the tests. The stake that decides the
audit of a confirmed answer is the one at that moment, which a withdrawal may
have emptied since the answer was given.

### Governor, BurstWorker and Session

A step is one turn of the event loop: from where a function resumes to its next
await. `starting` says what `start()` awaits (the worker's init answer, the
battery promise) or how it ended; `loop` says what `_loop()` awaits (a burst, the
idle time, the 50 ms of a preempted pass). A *pass* is one run through the body
of `_loop()`; `start()` makes the first one in its own last turn, and a burst
whose share is already repaid runs straight into the next one. `emitted` holds
the events of the last turn, in dispatch order.

In `Session` an answer of the worker is no longer an assumption but the delivery
of a reply that the worker posted:

| TLA+ | code |
| --- | --- |
| `pending`, `PostCall`, `Deliver` | `_pending`, `_call()` and the `onmessage` handler (governor.js 155-163, 346-354) |
| `Sample` | `sampleResult()` (335-343), with the `sample` message of the worker |
| `requests`, `replies` | the two message queues |
| `Handle` = `HandleInit`, `HandleBurst`, `HandleSample` | worker.js `onmessage` up to its first await; on the CPU to its end |
| `Settle` = `SettleInit`, `SettleBurst`, `SettleSample` | the rest of a handler on the GPU, the fallback to the CPU included |
| `Terminate` | `worker.terminate()` in `_finish()` (399-402) |

Choices: durations, expiry and energy are one environment flag (`limitHit`), the
frame and thermal signals another (`hot`), the battery has the three levels the
code tells apart. A worker that was terminated delivers nothing, as the HTML
standard has it, so the `_stopFlag` test right after a burst's await is never
true and has no branch of its own. `start()` is called once per object, as the
SDK and the demo do, and `revoke()`/`stop()` only after it. Handlers that call
back into the governor while an event is dispatched are not modelled. The ids of
calls are only compared, so `FreshId` takes any free one. A script that cannot be
fetched is an environment choice (`script`): the worker then never answers.

### ShareControl

Times are whole milliseconds since `startedAt`, shares are parts of `Whole`,
back-off factors 80ths (which makes all of `_updateBackoff()`'s products whole).
`NextIdleMs` is `nextIdleMs()` (43-47) with its floor and its clamp; `MaybeTick`
is `_maybeTick()`, with the energy counted as the busy time it is proportional
to. Bursts take any length of a set, answers and timers may be late.
`DeclaredShare` is the getter (121-124), which reads the path asked for, while
`actualPath` is where the worker computes after a fallback.

### ShardSizing

Time is counted in what one unit of the product takes on the tier, so a tier is
its dispatch overhead and a fraction is a pair of numbers. Cube roots are exact,
where the code rounds the floating-point ones.

### ConsentManifest

| TLA+ | code |
| --- | --- |
| `LoadWorker`, `LoadKernels` | `loadCodeFromUrls` (session.js 162-168) |
| `Issue`, `VerifyOwn` | `issueSession` (51-86) with `buildManifest` and `signManifest` |
| `VerifyPresented` | a third party's `verifyManifest` up to its first await (ccm.js 139-151) |
| `Authenticate` | from the signature to the nonce (153-188), and on to the verdict where no code was supplied |
| `Conclude` | code binding, policy, verdict (190-220) |
| `Launch` | `runSession` going on to `start()` (session.js 133-148), which fetches the worker's URL again |
| `Deploy`, `Tick` | the publisher's server and the clocks |

Cryptography is symbolic: a digest stands for its text, a thumbprint for its key,
a signature says who signed what. `failed` holds the names of the checks that
failed. What reaches a third party is what was signed, or that with its limits,
its code or its expiry changed (the tamper buttons of `demo/index.html`); code
that a third party supplies is any version, or none.

Choices: limits are a share, an energy budget that may be undefined, and an access
level; the structure check is reduced to what these and the times can fail. The
nonce is random, so a new one for each manifest. A policy is always given. All
kernels are fetched in one turn, and what `new Worker` fetches is one version. The
awaits for the digests of the code are one: nothing that changes is read between
them. `verifyManifest()` reads its clock once, when it is called.

## 3. The runs

| Run | Instance | Shows |
| --- | --- | --- |
| `queue_safety` | 2 shards, 3 workers, redundancy 2, 2 attempts, clock 0..2 that may step back | all safety and action properties of the queue, and the refinement of `ReplicaSet` |
| `queue_liveness` | 2 shards, 3 workers, redundancy 1, 3 attempts, clock 0..6 | every enqueued shard settles, if there are as many identities as attempts |
| `queue_stranded` | 1 shard, 2 workers, 8 attempts | *violation*: a shard pending for ever |
| `consensus_tally` | up to 4 replicas, 3 roots, gate checks that may throw, fair | the verdict is the majority, whatever the order, and garbage has no vote; a verdict is reached unless a check threw |
| `barter_settle` | 3 workers with any answers, total forfeiture, 3 calls on the ledger beside the settlement, 2 draws | who is slashed and who is paid for wrong work; the books balance; the forfeited are audited |
| `row_gate` | shards of 1 to 5 rows, `k` of 2 or 8 and `memoryHard` on either side, 1 flawed row, 1 altered row | the gate admits what was committed and right where it looks, and nothing else; what a full disclosure covers |
| `governor_session` | GPU or CPU, with and without a battery promise, 1 stop call, 1 sample at a time, fair | revocation, release, preemption and limits in every interleaving of page and worker; replies reach their calls; limits end a session, a quiet user is served, calls are settled |
| `governor_undone` | 1 stop call | *violation*: a revoked session that runs again |
| `share_control` | ceilings 4/10 and 2/10, bursts of 1 or 3, delays of 0 or 1, idle times up to 12, ticks of 6, three back-off factors, 40 time units, energy for 6 | the average share is within the ceiling whenever a burst is posted; the energy limit within one tick |
| `share_fallback` | the same, with twice the energy | *violation*: a session on the CPU at the GPU's ceiling |
| `manifest_admit` | 1 session, 2 concurrent verifications, 2 keys, 2 versions of the code, 3 sets of limits, clock 0..1 with a drift of 0 or -2 | one admission per nonce, only of what was signed for exactly the code supplied; the publisher's own manifest stands |
| `manifest_deploy` | 1 session, 1 verification | *violation*: a session that runs code it did not declare |

The bounds and why they suffice.

- *Queue.* Three workers and redundancy two let one worker's lease expire, a
  second answer and a third take over, with two attempts used up on the way; two
  shards exercise the FIFO scan and sweeps that give up several shards. A lease
  of one unit and a clock of 0..2 allow a lease, its expiry and a second lease's
  expiry; the proofs cover every other value. In the liveness run the clock's
  horizon is shards x workers x lease time, which is as long as all leases
  together can run, so it never stops time while a lease does.
- *Consensus.* Four replicas give every shape of tie (2:2, 2:1:1) with and
  without failed gates; the proofs cover the rest.
- *Barter.* Three workers are the least with a majority that is not everybody.
  `MaxCalls` counts the ledger's events over all workers after which `Bank` stops,
  and `MaxEvents` bounds one worker's history; with 3 and 4 a deposit, a
  withdrawal before the verdict is settled, the slash, and a reward fit.
  `Draws` = 2 gives a draw below and one above the rate of a staked worker. The
  slash fraction is one, so that `Exact` never binds; the proofs cover every
  fraction.
- *Session.* One stop call; the proofs cover any number, `stop()` after
  `revoke()`, and any number of samples under way. With `MaxSamples` = 1 a
  second sample is asked for only after the first was answered, so two samples
  never overlap in the run (the second would fail, see `HandleSample`); a sample
  does overlap bursts and the init call.
- *ShareControl.* Bursts of 3 at a share of 2/10 take 15 units of wall time and
  the clamp is 12, so debts that are repaid in parts occur as well as bursts for
  which the ceiling cannot be enforced; 18 of 80 is the lowest factor there is.
  The energy of 6 is used up after the first tick and before the last, so an
  estimate may go stale in between.
- *Manifest.* A manifest that is presented twice needs two verifications; the
  proofs cover any number of sessions, verifications and manifests. Two versions
  of the code that differ in the worker and in the number of kernels let a
  deployment fall into each gap; a drift of -2 with a skew of 1 makes a manifest
  come from the future, and a lifetime of 1 makes it expire.
- *Rows.* Five rows give layers of 5, 3, 2 and 1 nodes, odd at the bottom and in
  the middle, and one column more than is looked at; `k` of 2 and 8 are a sample
  and a full disclosure; the proofs cover every size, `k` and number of flaws.
  One flawed row decides every check, as rows are checked apart.

`CHECK_DEADLOCK FALSE` appears where the modelled thing ends: a consensus call
returns, a shard is settled and the ledger's bound reached, a session is over, a
row challenge is decided. The queue and the manifests never deadlock.

Fairness. *Queue*: time passes while a lease runs, and each worker keeps polling
(`WF` of `Tick` and of each `Assign(w)`); nobody is obliged to answer, and nobody
else calls `expireLeases()`. *Consensus*: gate checks are finite and the event
loop runs their continuations. *Session*: timers fire, the battery promise
settles, posted messages are delivered in order, and the device finishes what it
was given (a burst ends after 64 shards at the latest, `worker.js:118`); users,
signals and limits owe nothing, and that calls are answered follows
(`CallsSettle`). A worker whose script never loads answers nothing, and the code
has no timeout for it: `CallsSettle` says so, and the limits cannot end such a
session either (`LimitsEndTheSession` starts where the loop runs).

### Where the code and its documents disagree

Each of these is a violation run, with the quoted line under `findings`:

1. With fewer identities than `maxAttempts`, a shard nobody answers is stranded.
2. `revoke()` during the battery await is overtaken by `start()`: the session
   reports RUNNING again. `RevocationIsForGood` shows that no compute happens, and
   `OverUnlessOvertaken` that this is the only way.
3. A session runs whatever is behind its URL when it starts, not the text that was
   hashed, signed and verified.
4. After a fallback from GPU to CPU the session keeps to the GPU's ceiling.

Others are exceptions that a passing property names:

- One submission that makes the gate throw loses every verdict of the shard
  (`JudgedUnlessOneThrew`).
- An audit that discloses every row still looks at four columns of each
  (`DisclosureCoversTheShard`), and is not told which root was disputed, so rows
  computed anew pass it (`PaidIsRightOrUnseen`).
- A ceiling below 0.001, or one that a burst overran by more than two seconds of
  idle time repay, is not kept (`Enforceable`).
- The energy limit may be overrun by the energy of one tick
  (`EnergyWithinOneTick`).

More can be read off the models without a run. *Queue*: a shard may be leased
more than `maxAttempts` times (`queue.js:50`), because `LeaseOldest` does not
test the count and `GivenUp` waits for running leases. *Consensus*: one valid
replica next to one that failed the gate is confirmed with nobody agreeing
(`consensus.js:28-29` promises another party; `MajorityVerdict` counts valid
replicas only). *Ledger*: `withdraw()` of a negative amount raises the stake
(`ledger.js:73`; `Withdraw`). *Governor*: a `tick` can follow `stopped`
(`API.md:103`; `QuietOver`), a denied session dispatches no `stopped`
(`API.md:105`; `Start`), and a session that backs off while RUNNING does not
show BACKOFF (`API.md:116`; `Resumed`). *Manifest*: a nonce is used up by a
manifest whose signature does not verify (`Remembered`, `ccm.js:187`), and one
that declares no energy limit passes a policy that sets one (`WithinPolicy`,
`schema.js:208`).

## 4. The proofs

`ShardQueue_proofs` proves, for every finite set of workers, any shards, any
redundancy and lease time above zero, any attempt limit and either kind of
clock (`QueueAssumption`): `TypeOK`, `SlotBound`, `ReplicaIndependence`,
`SettledConsistent`, `OneLeasePerWorker`, `HistoryOnlyGrows`, the refinement of
`ReplicaSet`, and `RepeatIsCalledDuplicate`, which no run checks.

The inductive invariant `IInv` joins the five state invariants with
`OnlyQueuedTouched` (a shard that was never enqueued has no leases, results or
flags). The properties need each other: that a submission keeps the results'
workers distinct needs `ReplicaIndependence` (only submitted leases answered);
that it completes a shard at exactly `Redundancy` needs `SlotBound`; that nobody
still computes for a completed shard follows from `SlotBound` at equality; that
an abandoned shard stays below `Redundancy` needs that sweeps only give up
shards with no running lease. The argument follows the code: `ReclaimedFacts`
says what a sweep does to the leases, `SweepFacts` that a sweep keeps every
invariant, `LeaseStep` adds one lease on a swept queue, `SubmitEffect` and
`SubmitStep` move one lease to submitted and append one result. The refinement
maps `Submit` to `Answer`, a sweep to `Abandon` of what it gives up, and
everything else to a stutter.

`Consensus_proofs` proves `TallyIsTheMajority`, `OrderIrrelevant` and
`GarbageHasNoVote` for any number of replicas and roots and any majority fraction
of at least one half (`HalfOrMore`, which the code does not check: below it two
roots can both exceed the fraction and insertion order decides). The scan's
`CHOOSE` has something to choose (`TopHasMostVotes`: a set of counts has a
greatest, its places a least); two roots above one half would share a replica
(`WinnerIsTop`), so the tally is a function of which roots win (`TallyByWinner`);
and a bijection between the votes of two listings leaves that alone
(`SameVotes`), for a reordering as for a listing without a rejected replica. The
invariant only says that a verdict is the tally of checks that all settled.

`Barter_proofs` proves `BarterTypeOK`, `HonestIsNotSlashed`,
`PaidIsRightOrUnseen` and `ForfeitedMeansAudited` for any finite set of workers,
amounts, rewards, slash and majority fractions (`LedgerAssumption`,
`TallyAssumption`, `BarterAssumption`). The strengthening is `VerdictsAreEarned`:
who is rejected failed the gate, and who is confirmed shares a root with a
majority of those who passed (the order in which answers came in is a bijection,
`OneVoteEach`). Without it a verdict could not be traced back to the answers when
it is settled, many calls later. For the ledger, `BookedStep` and
`BookedForfeit` say once what any logged event does, and each method is shown to
be one; the stake stays non-negative because `withdraw` tests it and a forfeit
is at most all of it. `BooksBalance` is about a sum over a history of any length:
`RunningAppend` says that one more event adds its own amount and leaves the sums
before it alone, `BookedBooks` that what a method books is what it does to the
accounts.

`Session_proofs` is about `Governor` first, for a worker that answers anything at
any time, any number of stop calls, with and without a battery promise:
`RevocationIsForGood`, `OverMeansReleased`, `PreemptedMeansPaused`,
`NoBurstPastALimit` and `OverUnlessOvertaken`. The strengthening is `StartOrder`
(there is no worker before `start()`, it constructs the only one, and there is no
loop before its last turn) and `StopFlagTold` (a set stop flag means a released
session; a preempted one means a loop that will look again).

Then it shows that `Session` implements `Governor` (`SessionImplementsGovernor`):
every turn of page or worker is a step of the governor or leaves it alone, so the
five properties hold with the real worker (`SessionsAreGoverned`). What `Session`
adds is proved from the invariant `ChannelInv`. Its core is `Matched`: while the
worker lives, each pending call has exactly one message in exactly one place,
among the requests, the suspended handlers or the replies, of the call's kind and
with its id. That needs ids to be fresh, which needs them not to run out: at most
one call besides the samples is pending (`Awaited`), so there are fewer calls than
ids. `RepliesMatchCalls` and `OneBurstWhileAwaited` follow, for any number of
samples under way and handlers that end in any order. `SampleAfterBurstIsRight`
needs `Behind` as well: in front of a request for a sample that was asked for
after a burst there is that burst, or a product is held already, because messages
stay in order; and `ComputedLate`: nothing is computed before `start()` has
returned.

`ShareControl_proofs` proves `TypeOK`, `PostedWithinShare` and
`EnergyWithinOneTick` for any ceilings, burst lengths, delays, clamp, tick and
schedule of back-offs and preemptions (`ShareAssumption`). The invariant `Repaid`
says that wherever the loop is, it is within the share by the time at which it
next posts a burst. It is inductive because the debt before a burst was repaid,
so the new debt is one burst's, and that is either asked for in full
(`DesiredWallRepays`) or larger than the clamp, which `Enforceable` excludes; a
back-off factor only asks for more, and lateness only adds wall time. What
`setTimeout()` drops of an idle time is less than a millisecond, which the
property allows for. `EnergyIsRecent` says that the estimate is at most one tick
of busy time old.

`ConsentManifest_proofs` proves `TypeOK`, `OneAdmissionPerNonce`,
`AdmittedAsIssued` and `OwnManifestStands` for any sessions, verifications,
keys, versions, limits, policy, lifetime, skew and clocks
(`ManifestAssumption`). Its inductive invariant says what a call at each of its
awaits has behind it. The nonce: a third party's verification past
`Authenticate` has recorded its nonce, and no two that found theirs unseen have
the same, because the set only grows and the test and the recording are one
step. Authenticity: past `Authenticate` with nothing failed, the signature was
the trusted key's, of this very body; `Conclude` adds that the code matches,
kernel by kernel and in number. The publisher's own: from `Issue` on, a
session's body, its signature and its loaded code agree, and its nonce is never
looked up.

`Challenge_proofs` proves of `ChooseShardSize`, which has no behaviours to run:
the overhead of a chosen shard is within its fraction of the wall time whatever
the budget (`OverheadIsAmortised`); a shard chosen without a report fits the
budget if one granule does (`SilentShardsFit`); and a report means that no size
keeps both (`ReportsAreTrue`).

Of Merkle trees with any number of leaves it proves that the proof of every leaf
verifies (`ProofsVerify`: a node and its sibling make the node above, `OneUp`, so
verification follows the path of the leaf, `ClimbFollowsPath`), that a proof fits
one leaf only (`OneLeafPerProof`, downwards from the root), and that no proof at
all takes to the root what was not committed (`VerifiedMeansCommitted`: what is in
the tree is a leaf or made of two digests in the tree). `IsTree` is what these
need of `Layers`; `LayersMakeTree` provides it, as layers shrink down to one node
(`StackShrinks`).

From these follow `ProofsFitTheirRow`, `AdmittedRowsWereCommitted`,
`DisclosureCoversTheShard` and `RevealIsJudgedByItsDraw`, for shards of every size
up to `MaxN`, which may be any number, any `k`, any number of flawed rows and any
draw (`RowAssumption`). The invariant `RowInv` says what the worker committed to
and what may have arrived, that the failures so far are those of the rows checked
so far, and what each end of the call says of the rows required.

Arithmetic over recursive functions (the sums of a history, the layers of a tree,
the climb of a verification) is by least counterexample: the numbers for which a
statement fails have a least member (`LeastExists`), which is not 0 and has a
predecessor for which it holds. That each such function exists at all is proved
the same way (`SumExists`, `StackExists`, `PathExists`, `ClimbExists`).

With this every safety invariant and action property that a run checks is proved.
Only model-checked: liveness (`EventuallySettled`, `JudgedUnlessOneThrew`,
`LimitsEndTheSession`, `QuietUserIsServed`, `CallsSettle`), which the installed
provers cannot do under fairness, and of course that the code disagrees with its
documents, in the violation runs.

## 5. Not modelled, and why

- *ZK circuit, proving scripts and on-chain verifier*: arithmetic constraints
  over a large field and a generated Groth16 verifier; there is no small instance.
- *Benchmarks and measurement tools*: offline numerical analysis, no part of the
  running system. *Demo page*: rendering around the governor.
- *Governor*: the throughput window behind the thermal flag, whose outcome is any;
  a second `start()` of one object, which nothing in the repository calls.
- *Manifest*: canonical JSON, base64 and ECDSA, which are symbolic; the structure
  check beyond limits and times.
- *Challenge mode*: the timing ratio is advisory, the widget's requests are I/O;
  what remains are `RowChallenge` and `ShardSizing`.
- *Session SDK*: `ConsentManifest` and `Session` are not composed. What passes
  from one to the other is the verdict and the code, and `Launch` has both.
- *Numbers*: floating point is exact everywhere; rounding across a Merkle digest's
  boundary is the kind `near`.

What a next step would take up: `ShardQueue` composed with `Barter`, so that
shards settle one after another on one ledger, and the gate outcomes of
`Consensus` replaced by calls of `RowChallenge`.
