# A verification development for tari-wallet-benchmarks

The repository is a harness that measures three ways of driving a Tari wallet (mode 1, the
console wallet over gRPC; mode 2, the Rust library with offline signing; mode 3, the payment
processor with its payment receiver) against a public network. It moves real test funds, so its
hard part is not arithmetic but what survives a failure: a transaction that has left for the
network must be found again, must not be signed twice, and a result must not claim more than
the chain shows.

These modules model that part in TLA+. TLC checks them on small instances; the modules named
`*_proofs` prove theorems about them for every value of the constants with TLAPS.

    tlc -workers 2 -config S0Funding_safety.cfg MCS0Funding.tla
    tlc -workers 2 -config Scenarios.cfg MCScenarios.tla
    tlapm S0FundsOnce_proofs.tla

## 1. Inventory

The implementation is the Rust crate in `src/src`. Its parts, the state each keeps, and what
makes it correct:

| part | code | state | operations | correct when |
|---|---|---|---|---|
| **S0 funding** (`fund-s0`) | `runner.rs` 418-656, `live_minotari.rs` 4080-4900 | the namespace lock, the evidence file, the three benchmark wallets, the source wallet's rows and checkpoint files | recover the checkpoint, write the evidence, create wallets, sign, persist, submit, record, observe, gate on the recipients, remove the checkpoints | a repeated command never pays twice, never loses a transaction, never claims one that is not final |
| **Prepared-transaction records** | `live_minotari.rs` 4380-4900 | one row and one checkpoint file per transaction | persist, submit, mark accepted, mark rejected, remove | row, file and network can be reconciled after a crash between any two of them |
| **Baseline workflow, B0** | `runner.rs` 248-420, 658-760; `live_minotari.rs` 400-560 | namespace lock per stage, the B0 checkpoint | `prepare-b0`, `fund-s0`, `run` in order | each stage works on the target that B0 fixed |
| **Fixed-target scan** | `live_minotari.rs` 557-703, `live_minotari/scan.rs` | the wallet's scan cursor (height and block hash) | scan a range, test progress, test canonicity | a finished scan stands at the target height on the canonical chain |
| **Scenario orchestration** | `runner.rs`, `mode1.rs`, `mode2.rs`, `mode3.rs` | status of S1 to S7 | run S1, then the rest in order; a failed S1 blocks them | no scenario reports success on top of a failed one |
| **S1 split rounds** | `live_minotari.rs` 1441-1479, `mode2.rs` 491-707 | outputs per round | plan rounds; send a round, wait, verify, use its outputs in the next | the round count and the output count agree |
| **S4 concurrent dispatch** | `mode2.rs` 749-943 | a `JoinSet` of sends | spawn a batch, collect to an absolute deadline, abort the rest | a send that may have reached the network is accounted for |
| **Confirmation and verification** | `live_minotari/verification.rs` | pending confirmations, at most 16 queries at a time | query, compare with the tip, repeat to the deadline | confirmed is reported only at C_min depth |
| **Balance accounting** | `live_minotari.rs` 1057-1190, 3496-3531 | balances before and after | compare with the fees and amounts sent | no loss passes as success |
| **Managed processes** | `managed_process.rs` | a child process and its group | spawn, TERM, grace, KILL, check for descendants | no process survives its scenario |
| **Payment processor** | `payment_processor.rs`, `mode3.rs` | batches in its database, the receiver's balance | request a batch, poll the database, ask the chain, wait for the balance | a success is settled at the chain and in the balance |
| **Result profile** | `result_profile.rs`, `profile_validation` | the result file | write, validate | (a durable write, and data checks) |
| **Inputs** | `seeds.rs`, `config.rs`, `cli.rs`, `guards.rs`, `main.rs` | none that changes | parse, validate; `main` turns SIGINT and SIGTERM into a dropped future | |
| **Provenance** | `build_manifest.rs`, `env_capture.rs`, `build.rs` | none | hash, collect | |

How they interact. `main` runs one command and drops its future on a signal. `runner` takes the
lock of a run namespace (`<data_dir>/.wallet-bench.lock`, removed by its `Drop`, left behind by
SIGKILL) and calls the live-wallet code. That code keeps everything durable in three places
that no transaction spans: the wallet's SQLite database, checkpoint files
`<db>.<tx_id>.prepared-transaction.json` beside it, and JSON evidence written with a rename.
The base node is reached by HTTP; a request whose caller timed out may still arrive. All
poll loops (recovery, observation, confirmation, readiness, scan) test a deadline each turn.
`run` then goes through the modes one after the other: it starts a mode's programs, measures S0,
splits the funded output in the rounds of S1, scans, dispatches S4 at once and S5 one by one,
scans again, shuts the programs down and writes the profile so far as a checkpoint.

What is hard. (1) The order of the durable writes against the request leaving the process,
with a crash between any two. (2) A timed-out request that arrives late. (3) Reorganisations
between two reads of the node. (4) One source wallet shared by several namespaces whose locks
do not know of each other. (5) Aborted concurrent sends. (6) Multi-round splits that fail half
way. (7) Processes that ignore a signal. `PROJECT.json` lists each at its line.

## 2. How the development is divided

The order is that of the system's most important behaviour: what may happen to money first,
what is reported about it next, the rest of the run last.

| modules | what | abstract specification, theorems | composition |
|---|---|---|---|
| `PreparedTransaction`, `S0Funding`, `FundOnce` | funding and its recovery | `FundOnce`; type, safety and refinement, in `S0Funding_proofs` and `S0FundsOnce_proofs` | `S0Funding` on `PreparedTransaction`, implements `FundOnce` |
| `NodeChain`, `FixedTipScan`, `PrepareB0` | scans against a chain that reorganises; the B0 checkpoint | `ScanCorrect`, `CheckpointCorrect`, in `PrepareB0_proofs` | `PrepareB0` on `FixedTipScan` on `NodeChain` |
| `Confirmation` | what counts as final | `ConfirmationCorrect`, `EndsCorrect`, `ConfirmationsStand`, in `Confirmation_proofs` | on `NodeChain` |
| `SendDispatch` | S4's sends at once, and what the next command recovers of them | `SendsCorrect`, `RecordStands`, in `SendDispatch_proofs` | on `PreparedTransaction` |
| `ManagedProcess`, `PaymentProcessor`, `Mode3` | mode 3 with its programs, its sends and its ways out | `Mode3Correct`, `ProofsCorrect`, in `Mode3_proofs` | `Mode3` composes the other two |
| `Scenarios`, `CoinSplit` | S0 to S7 of the three modes, the rounds of S1 and their amounts, cells, checkpoints, the final profile | `ScenariosCorrect` and the three planners' theorems, in `Scenarios_proofs` | `MCScenarios` takes the planners' arithmetic from `CoinSplit` |

`InductionLemmas` holds what the last two need of numbers, finite sets and sums. It is about no
part of the code.

What is left out, and why, is in section 8.

## 3. The modules

### PreparedTransaction

What survives of one transaction, and the base node's view of it. `row`, `ckpt` and `node`
are functions of the transaction; `late` holds the requests whose caller has gone, `sent` is a
history variable (everything ever handed to the network). The durable steps are the helper
operators `LockFunds`, `ClosePending`, `CreateCompleted`, `PersistPrepared`, `HandToNetwork`,
`MarkRow`, `MarkCkpt`: each is one SQL statement or one file rename, hence atomic.
The base node is external and is modelled from how the code reads its answers (accepted,
AlreadyMined, refused; NotStored, InMempool, Mined with a height). Its chain is abstracted to
one location per transaction; "confirmed" means buried by C_min blocks and is final, which is
the assumption C_min stands for. Everything shallower may be reorganised, and a mempool may
forget.

### S0Funding

`fund_s0_from_checkpoint_inner` and everything it calls, one action per durable write, request
or read of shared state, with `pc[n]` at the point the code has reached in namespace `n`:

    Start           RunNamespaceLock::acquire (create_new: an existing file fails)
    LoadNone, LoadOne, Query, Resubmit, ResubmitAnswered, RecordAccepted, PollAgain,
    RecoveredPending, Reconcile
                    recover_prepared_transaction_checkpoint_at and its loop
    Checks          worktree, B0, fingerprints, ports, preflight, authority
    WriteInitialized, ReadEvidence, InitializeWallets
                    the evidence file and the benchmark wallets, in the order that matters
    Adopt, SubmissionKnown, Construct
                    the recovered transaction, the one on record, or a new one
    PersistPending, PersistSigned, PersistCheckpoint, Submit, SubmitAnswered,
    MarkRowBroadcast, MarkCkptAccepted, RecordBroadcast, RejectRow, RejectCkpt
                    finalize_signed_transaction_and_broadcast_without_retry and on_broadcast
    Observe, ObserveAgain, RecordConfirmed
                    observe_s0_funding
    RecipientsReady, RemoveCheckpoint, Finish
                    recipient readiness and the removal of every listed checkpoint
    Bail, Deadline  the code's own errors and deadlines
    Fault, Kill     anything else: a dropped future (the lock goes), SIGKILL (it stays)

`hand`, `call`, `resent`, `doomed` are the memory of an invocation and vanish with it; a request
that was waiting then joins `late`. The lock is the namespace's. The source wallet is shared,
and nothing in the code keeps two namespaces from using it. `Discipline` names what the
operator does about that: "none", "serial" (one invocation at a time, as RUNBOOK.md's list of
commands has it), or "forward" (besides, never back in a namespace left for another).

A query of a transaction and of the tip are two requests in the code; `Observe` and `Query`
take them as one read, for the model's size. What the chain may do between the two is the subject
of `Confirmation`, where `fund-s0`'s observation is the kind "funding". The recovery deadline can
expire only after a first query, as in the code, since it is tested at the end of a turn.

### FundOnce

The promise without files, faults and recovery: a namespace commits to one transaction, then
comes to one outcome that stands. `S0Funding` implements it under the refinement mapping at its
end (`Funding(n)` = what was sent for n; `Outcome(n)`).

### NodeChain

The base node's selected chain, external. A block hash commits to everything below it, so a
block is the sequence of choices that leads to it (`Block`), its height is the length and
"on the chain" is "a prefix". `Extend` appends a block; `Reorganise` selects any other tip,
a lower one included (more work is not more blocks).

### FixedTipScan

`scan_to_fixed_tip` and its three callers. `cursor` is the wallet's last scanned block and is
durable; `pc`, `call`, `before` (`previous_height`), `idle` (`consecutive_no_progress`) and
`fetched` are one call's memory.

    ScanToTip, ScanWallet, ScanFresh
                    scan_to_tip, scan_wallet_db, run_library_fresh_scan (which resets the wallet)
    AlreadyThere    the early return at the target height
    EnterLoop, Invoke, Fetch, Persist, Return
                    the loop; Scanner::run between Invoke and Return is external
    CheckHeader, Complete
                    the header at the target height, then the completion tip
    Bail, Deadline, Fault, Crash
                    the code's own errors, the timeout around each invocation, other errors, death

The scanner library is not in the repository. It is any process that downloads blocks of the
chain selected at that moment and commits them later, may stop at any time, may go one block
past the range it was asked for, and finds its way back from a branch that was given up. That
makes the interval between a download and its commit, and between the commit and the header
query, places where the chain may move.

`stood` is a history variable: the target was selected at some moment since the cursor last
moved. It is what the header query is there to establish.

### PrepareB0

`prepare_b0_profile_inner` on top of `FixedTipScan`: launch the console wallet and wait for the
tip of its launch (`Launch`, `ConsoleReachedTip`), read its cursor (`ReadCursor`), stop it, ask
for the header at that cursor (`ConsoleVerified`); then, for each library mode, a fresh scan to
that anchor (`StartLibraryScan`, `LibraryScans`) and its measurement (`Measure`,
`InfrastructureFailure`); then `WriteCheckpoint` under `validate_prefunding_b0_metrics`. The
console wallet is a process of its own (`ConsoleScans`) and keeps scanning until it is stopped.
`Stop` ends the command anywhere; the earlier checkpoint stays. `scan_repetitions` is 1, which
`annotate_prefunding_b0` insists on. The lock of the namespace admits one `prepare-b0`.

### Confirmation

How a transaction comes to count as final. A verdict combines the height a transaction was mined
at with the height of the tip, two requests between which the chain may move. `kind` says whose
loop it is: "kernel" (mode 2, `verify_mode2_transactions_with_client` and the loop around it),
"processor" (mode 3, `verify_pp_snapshot_chain`), "console" (mode 1,
`verify_mode1_transactions`), "funding" (`observe_s0_funding`), "query" (`query-tx`). The first
three read the tip first, the others last, and that decides what a verdict is worth.

    Verify          a new call; it knows nothing of an earlier one
    BeginRound, DeadlineAtTop, Pause
                    the loops around the rounds
    ReadTip, TipFails, Ask, PassOver, Answered, QueryFails
                    one round: the tip, at most QueryCap (16) queries open at once
    CloseRound      Confirmed, Merge: the depth test, and what is added up over the rounds
    GiveUp, ProcessorDone, Expire
                    the other ways out, and time

`deep` is a history variable (what had `CMin` blocks on top at some moment of the call), `moved`
and `got.short` record what the chain did between the two requests, and `doubtful` collects the
confirmations that the order of the requests does not vouch for. Blocks hold transactions
(`Holds`), and no chain holds one twice.

### SendDispatch

S4 in mode 2 on `PreparedTransaction`: every attempt is a task with its transaction.

    Construct, ConstructFails, Checkpoint, Submit, Answered, Unanswered,
    MarkTheRow, MarkTheFile, MarkFails
                    construct_sign_broadcast_one_sided, one action per durable step
    Dropped         abort_all, which takes effect only where a task awaits: in the request,
                    or before it ran at all
    Collect, AllCollected, CollectDeadline
                    run_send_attempts_concurrent
    Verified, EndVerification, VerificationFails, Refresh, Expire
                    run_s4_batches: one absolute deadline for dispatch, verification and scan
    ProcessEnds     of itself or not: tasks and memory go, files and rows stay
    RunAgain, Load, Query, Resubmitted, Mark, Remove, RecoveryEnds
                    recover_prepared_transaction_checkpoints of the next command

An aborted task that is signing or writing goes on beside the next batch. Its result is received
by nobody; what it leaves on disk is what the recovery has to find.

### ManagedProcess, PaymentProcessor, Mode3

`ManagedProcess` is one process group: the leader, the children that outlive it, and the four
ways the harness is done with it (`wait`, `shutdown`, `Drop`, or finding that it ended). `told` is
the strongest signal the group was sent. A process may end at any time and need not heed SIGTERM;
SIGKILL is final but takes its time. `PaymentProcessor` is the service, its database, the chain
and the receiver's balance as the harness meets them over HTTP and SQLite: a request may be
accepted with its response lost, or arrive after its caller gave up.

`Mode3` composes them: `StartSigner` to `Healthy` (`start_mode3_topology`), `Gate` (S0, S1 and the
scans between, which are in `Scenarios`), `Submit` to `SubmitDeadline` (the requests of an arm of
S4 at once, those of S5 one by one), `ObserveOnce` and `AddBatch` (`observe_db` and the merge of
the arms), `BalanceRead` and `BalanceTimesOut` (`wait_for_pp_receiver_balance`), `RecordS4` and
`RecordS5` (`record_pp_summary`), then `Shutdown`, `DropNext` and their answers. Since the service
takes nothing back, a snapshot is the set of batches it shows as confirmed or failed, and `shot` the
merge of them; `expired` is the last observation's word on its time, and `Outcome` the four outcomes
of `transaction_observations` (confirmed, rejected, timed out, stalled). `Interrupt` is the
signal that makes `main` drop the future, wherever it awaits. A process that dies while the
scenarios run stays dead and nobody is told: the processor's death leaves the database as it is.

### Scenarios

A whole `run`: `mode` is the mode it is at, `cells` the repetitions recorded for its cells, and
`pc` the scenario. A round of S1 goes through `BeginRound` or `RefuseRound`, `Submit` and
`SubmitFails` for every call, the verification of its mode (`VerifyMode1`, `VerifyMode2`,
`ObserveMode3`), `WalletShows`, and the verdict of its mode (`JudgeMode1` to `JudgeMode3`). `view`
is what the wallet shows as spendable and `late` what it will show of accepted transactions:
each wallet shows an accepted transaction's outputs at its own time and may have selected more
inputs than the round has transactions, which is why the count of outputs and the balance are
both part of the verdict. `RecordS1Mode1` to `3`, `Scan`, `SendMode1` to `3` record the other
cells; `Block` fills those that a failure makes pointless; `WriteCheckpoint` and `WriteFinal` write
the profile, and `Abort` is an error that leaves through the whole run, at the places that
`ErrorLeaves` lists. The plan of the rounds
(`s1_round_plan` with its cap) is the recursive function `Doubled`; `TxCount` is the number of
transactions of each round and `TxUpTo` their sum.

A finished mode's part of the profile is kept as what the final validation will say of it
(`Entry`): `FinalValid` for every profile, `SubmissionValid` for one that claims the canonical
configuration.

### CoinSplit

How much each output of an S1 transaction gets: `mode1_coin_split_plan`, `exact_pp_split_with_change`
and `normal_change_split_amounts`, with the width of u64 as `MaxAmount`. None of the planners spends
the last output, it is the wallet's change.

## 4. The runs

| run | instance | what it asks | result |
|---|---|---|---|
| `s0_safety` | 2 namespaces, 3 transactions, "forward" | type, the safety invariants, `EvidenceNeverReplaced`, and the refinement of `FundOnce` | holds, 461,146 states |
| `s0_liveness` | 1 namespace, 2 transactions | every invocation ends; repeating it settles the namespace | holds, 12,772 states |
| `s0_new_namespace` | as `s0_safety` | a new namespace adopts only its own transaction | **violated**, see 6 |
| `s0_old_namespace` | as `s0_safety`, "serial" | funded once | **violated**, see 6 |
| `fixed_tip_scan` | 2 branches, chains of 2 blocks | `TypeOK`, `EndsAtTarget`, `TargetStood`, `ScanEnds` | holds, 49,114 states |
| `prepare_b0` | as `fixed_tip_scan`, branches symmetric | `B0TypeOK`, `AnchorOutlivesScans` | holds, 1,085,413 states |
| `confirmation` | 2 transactions, blocks with one each or none, chains of 2 blocks, depth 1 | `ConfirmedWasDeep`, `ConfirmationStands`, `NobodyStopsEarly`, `ObservationEnds` | holds, 79,728 states |
| `send_dispatch` | 2 sends, in one batch or in two | `NothingLost`, `SuccessIsFinal`, `OneObservationPerCall`, `ObservationStands`, `S4Ends` | holds, 313,808 states |
| `s4_rejected` | as `send_dispatch` | an attempt called rejected is not at the node | **violated**, see 6 |
| `mode3` | 2 batches: of S4 in one arm or in two, or one of S4 and one of S5 | `OkIsSettled`, `RowsMatchObservations`, `NoChildSurvives`, `ProofsStand`, `ObserveEnds`, `LeavingEnds` | holds, 195,580 states |
| `scenarios` | rounds of 1, 2 and 4 transactions, 4 configurations | `NothingOnFailedS1`, `EarlierRoundsWhole`, `EveryCellSettled` | holds, 596,767 states |
| `s1_success` | the reference configuration | a successful S1 has all its outputs | **violated**, see 6 |

Each run also checks its module's type invariant.

In the scan's runs two branches are enough for a target on one and a chain on the other, and
two blocks for a target below the tip, an overshoot by one and a branch point at either height.
`MaxHeight` bounds the chain and nothing else; the number of reorganisations, scans and
restarts is not bounded. Deadlock is checked: a caller can always scan again.

Why the bounds are enough. Everything S0 does wrong needs at most one transaction of another
namespace, one of its own and one signed by mistake: two namespaces and three transactions hold
all three. Namespaces and transactions are never compared but for equality, so TLC may treat
them as symmetric; the liveness run does not (symmetry is unsound there). No counter is
bounded: every variable ranges over a finite set, and a run of any length is covered.
`CHECK_DEADLOCK FALSE` in S0's runs because the system really may stop: every namespace is
finished, or was killed and keeps a stale lock that no command removes; in `mode3` and the
runs of `Scenarios` because a run ends.

`confirmation`: two transactions that can sit in either order, apart, or on branches that exclude
each other, and an empty block to bury them with. A depth of one on chains of two blocks has the
boundary (not deep, just deep), chains that become shorter and a block replaced at the same
height. `QueryCap` 1 makes the queries of two transactions wait for one another.

`send_dispatch`: one send beside another in the same batch, and one that outlives its batch beside
the next batch; both with a recovery of none, one or two checkpoints. Batches are numbered without
gaps (`BatchAssumption`); a third would repeat the second.

`mode3`: the configurations are the three ways two batches can meet (at once, arm after arm, S4 and
S5), and the costs 2 and 3 keep the balances of different sets of batches apart, as `CostAssumption`
asks: no batches of S4 take from the balance exactly what batches of S5 take. A batch of S4 is one
payment and its fee, one of S5 is S5_K payments of the same amount with one fee, which is less
than S5_K fees in the reference parameters (S5_K = 10). `config.rs:347` admits S5_K = 1 for runs that
are not canonical; then a late batch of S4 could stand in for one of S5 in
`wait_for_pp_receiver_balance`, and what the model says of S5's balance is not said of such a run. Three processes
are all that mode 3 has. While the scenarios run the children of a dead leader are not looked at:
nothing of the harness asks about them before it leaves, and whether there are any is decided
when it does. `None` stands for a balance that was not read.

`scenarios`: two doubling rounds and a fan-out by three to `volume_target` = 12 stand for the
reference's six, eight and 512, with the same shape: a first round of one input, a middle one, and
a last one of another width whose product is the target. `Calls` = 1 keeps the calls of S4 and S5
apart into all confirmed, none confirmed and refused; their interleavings are in `send_dispatch` and
`mode3`. The configurations are the reference, one with mode 2 alone and repeated scans, one with
mode 3 alone, and one without scans whose S1 in mode 1 is capped in the middle of a doubling
round. Readings of S0 are 0, 1 and 2 of what was funded: less, exactly and more.

`MCScenarios` also evaluates `EveryRoundIsPlanned`: the reference funding of 10,000 T at 5 microtari
per gram, in fees per gram, lasts for all seven rounds in all three planners.

## 5. Fairness

`InvocationFairness` is what the code justifies: an `await` ends (each has a timeout), and a
poll loop tests its deadline on every turn, so once the deadline has passed the loop takes it
(`SF` of `RecoveredPending` and `Deadline`). `InvocationEnds` needs no more, and in particular
nothing of the base node.

`FixedTipScan` assumes weak fairness of the scan's own steps and strong fairness of `Deadline`:
`time::timeout(remaining, scan)` is around every invocation, so a call that keeps scanning is
stopped by it. The requests after the loop have the HTTP client's timeout (`Fault` or the
answer). Nothing is assumed of the chain or of the scanner.

`Confirmation`, `SendDispatch` and `Mode3` assume that time passes (weak fairness of `Expire`) and
that the harness's own loop takes the step it can take: every await in it has a timeout, and each
such timeout is an alternative of the same step (`QueryFails`, `TipFails`, `CollectDeadline`,
`WaitExpires`, `DropExpires`). Nothing is assumed of the chain, the node's answers, the tasks of S4
(one may hang for ever), the programs (they may ignore SIGTERM, and linger after SIGKILL) or the
signals. `Scenarios` has no liveness property: its loops are those of the other modules.

`FundingSettles` is conditional, and says so in the formula: *if* the operator repeats the
command (RUNBOOK.md 304-318, 408), the network keeps answering and mining, and arbitrary faults
stop at some point, *then* the namespace settles: it is ready, or refused and waiting for the
operator, or was killed with a stale lock, or lost the bounded supply of transactions.

## 6. Findings

* `s0_new_namespace`: `runner.rs:570` adopts the recovered transaction of the shared source
  wallet whatever namespace it pays. After an interrupted `fund-s0` and a stale lock the runbook
  sends the operator to a new namespace; its evidence then names a transaction that pays other
  addresses, and its readiness gate fails for ever (no money is lost, no false PASS:
  `ReadyMeansFunded` holds).
* `s0_old_namespace`: `runner.rs:623` removes every checkpoint of the source wallet. A `fund-s0`
  repeated in a namespace that is funded already removes the checkpoint of another namespace's
  transaction in flight, and that namespace then pays twice.
* `s4_rejected`: `live_minotari.rs:3317` calls every attempt that is not accepted rejected by the base
  node, an aborted one and one whose request timed out included, while the node may hold or have
  confirmed its transaction. The status of S4 is not affected (`SuccessIsFinal` holds), and the next
  command finds the transaction (`NothingLost` holds).
* `s1_success`: `mode3.rs:1090` takes the status from the batches attempted and confirmed. An S1 whose
  first round is refused has attempted none, is recorded as a success, and blocks S2 to S7 because
  it failed; the final validation then refuses the whole profile (no false PASS).

Seen while modelling, without a run of its own: an error of the verification in mode 2's S4, and of
the verification or scan in S5, ends the run (`Abort`), where RUNBOOK.md 341-343 has S6 and S7 follow
a failed S5. And `add_batch` extends the scenario's metrics with each arm's (`live_minotari.rs:1816`), so
that the last arm observed decides `db_observation_timed_out` for all: a batch that was pending when
an earlier arm of mode 3's S4 ran out of time is called stalled, not timed out, if a later arm ends in
time (`AddBatch`, `Outcome`).

## 7. What is proved

Every invariant and every action property of the passing runs, and the refinement, is a theorem, for
every value of the constants, from the assumptions named in the modules: `None` is no namespace, no
transaction, no block and no process; `Discipline` is one of the three; chains may have a block; the
batches of mode 3 are finitely many and cost something, with `CostAssumption` above; the parameters
of S1's rounds are numbers.

| theorem | statement | under |
|---|---|---|
| `TypeCorrect` | `Spec => []TypeOK` | any discipline |
| `RecordsCorrect` | `[](RecordsAgree /\ RejectedNotResubmitted)` | one invocation at a time |
| `FundedOnceForward` | `[](FundedOnce /\ NothingUnaccounted /\ EvidenceIsTrue)` | "forward" |
| `ReadyCorrect` | `[]ReadyMeansFunded` | "forward" |
| `ResumeCorrect` | `[]ResumableInitialization` | any discipline |
| `EvidenceStands` | `EvidenceNeverReplaced` | "forward" |
| `FundsOnceForward` | `Spec => FundsOnce`, the refinement of `FundOnce` | "forward" |
| `ScanCorrect` | `Spec => [](TypeOK /\ EndsAtTarget /\ TargetStood)` | any branches, any height |
| `CheckpointCorrect` | `B0Spec => [](B0TypeOK /\ AnchorOutlivesScans)` | any branches, any height |
| `ConfirmationCorrect` | `Spec => [](TypeOK /\ ConfirmedWasDeep)` | any blocks, any depth, any cap |
| `EndsCorrect` | `Spec => []NobodyStopsEarly` | the same |
| `ConfirmationsStand` | `Spec => ConfirmationStands` | the same |
| `SendsCorrect` | `Spec => [](TypeOK /\ NothingLost /\ SuccessIsFinal /\ OneObservationPerCall)` | any sends, batches without gaps |
| `RecordStands` | `Spec => ObservationStands` | the same |
| `Mode3Correct` | `Spec => [](TypeOK /\ OkIsSettled /\ RowsMatchObservations /\ NoChildSurvives)` | any finite set of batches in any arms, costs as above |
| `ProofsCorrect` | `Spec => ProofsStand` | the same |
| `ScenariosCorrect` | `Spec => [](TypeOK /\ NothingOnFailedS1 /\ EarlierRoundsWhole /\ EveryCellSettled)` | any configurations, doubling rounds, fan-out, target, cap and number of calls |
| `Mode1SplitIsExact`, `PPSplitIsExact` | outputs, change and fee are exactly the input, and none is smaller than the fee | any input, rate and number of outputs the planner accepts |
| `NormalSplitFitsEveryInput` | mode 2's plan is paid for by any input of the round, with a change no smaller than the rest | a fee of at most the reserve |

The argument of the scans. `TargetStood` needs to know what was established where: `PlaceInv`
says that the cursor equals the target after the loop, that `stood` holds once the header has
been compared, and that a call starts with `stood` where its target was just read (`tip`), while
a fresh scan starts from genesis and so cannot return early. `StoodInv` (whatever is selected now
has been selected) is what makes the comparison of the header set `stood`. For the checkpoint
`B0Inv` adds `AnchorInv` (the anchor is a block above genesis once it is read, so the fresh
scans have something to scan), `CallInv` (a library scan in progress is for the anchor) and
`CellInv` (a cell in order names the anchor and `stood`). `PrepareB0_proofs` reuses the scan's
lemmas `NodeStep`, `CallStep` and `ProgressStep` for the steps it shares.

The argument of S0. None of these is inductive. `RecordsInv` (in `S0Funding_proofs`) adds what an
invocation knows at each place: `HandInv` (it has a transaction in hand exactly where the code
has), `SerialInv` (at most one invocation is up), `PlaceInv` (the row and the checkpoint of the
transaction in hand, by place: e.g. a completed row before the checkpoint is written, a
checkpoint before the request leaves). That gives the records' agreement and that a rejected
transaction is never on its way.

`FundingInv` (in `S0FundsOnce_proofs`) adds what "forward" buys: `ForwardInv` (a namespace that is
not the last one used stays as it is), `WorkInv` (what the invocation's transaction is, by
place), `CheckpointInv` (at most one checkpoint, and it is that of the only transaction
in flight), `AdoptedInv` (the evidence names a transaction that pays it or one whose checkpoint
was adopted), `ReadyInv` and `RefusedInv`. Each conjunct is needed: without `CheckpointInv`
a second checkpoint could be signed, without `WorkInv` nothing links the hand to the file, and
without `ForwardInv` the removal of all checkpoints could take another namespace's (which is
what `s0_old_namespace` shows under "serial"). One lemma per conjunct shows that every action
preserves it; TLC checked the invariant on the small instance first.

The refinement is proved step by step from `FundingInv`: only `Resubmit` and `Submit` may change
`Funding`, and they commit a transaction for a namespace that has none (or stutter); only
`RejectRow` and `Finish` change `Outcome`, and no later step takes it back.

The argument of the confirmations. `ConfirmedWasDeep` speaks of verdicts and not of the answers they
are made from. `AnswerInv` says what an answer is worth by the order of the requests: with the
tip read first, the verdict is decided when the answer comes (the block lies below a tip that the
chain still has, unless it became shorter); with the tip read last, the answer stands until the
tip is read unless the chain reorganises, and an extension moves no block (`ChainStep`). `PlaceInv`
says where a round has no answers yet, and `DeepInv` that the history knows the present.

The argument of the sends. `NothingLost` says nothing of who may still remove a file. `TaskInv` gives
every task that has handed over or may its checkpoint, `FileInv` says that the file is marked
rejected only after the row, and `RecoveryInv` that recovery has the files to itself and removes
one only where it has seen the transaction final or refused; no task and no recovery live at
the same time. `RecordInv` says that every batch before the present one has all its observations.

That a call ends no earlier than it should (`EndsCorrect`) needs `TypeOK` only, since every way to
"done" is tested where it is taken; `DoneStep` goes through all of them, the ones that do not lead
there included. `ResumeCorrect` adds `PlannedFirst` to the type: the wallets are created at one place
only, and the evidence is there by then.

The argument of mode 3 has two halves that share only the place. `PlaceInv` is about the processes:
by place, which of them the harness holds, which one it is busy with, and (`HandInv`) that whatever
it does not hold any more is gone or was killed; `NoChildSurvives` follows. `DataInv` is about the batches:
`CallsInv` (what was not asked for is unknown to everybody, so a batch is never late before its
scenario), `ObservedInv` (what was proved is in a snapshot, as confirmed), and `BaseInv`: the balance a scenario began
with is what some batches of *earlier* scenarios left of it. From it `BalanceTells` derives the one
fact that is not local: when the balance stands at the expected figure, the batches of this
scenario that are missing from the debits cost together as much as the late ones of S4 that came in
their place. In S4 nothing can be late, so what is missing costs nothing and is nothing; in S5
`CostAssumption` says the same. `SettledInv` carries this to the record, while later debits only add.

The argument of the scenarios. The rounds are those whose number exceeds what the cap has left; the
plan lemmas show that they are 1 to `LastRound` without a gap (`RoundsAreFirst`), that the recursive
function has the values its recursion asks for (`DoubledRounds`), and that `TxUpTo` of the next round
adds that round's transactions (`TxUpToNext`). `RoundInv` then says, by place, what the wallet and the
totals hold within a round; `ExactInv` that without a failure S1 ends only when no round is left, with
exactly the target in the wallet; `CellsInv` which cells are complete, open and empty at each place.
`NothingOnFailedS1` needs the second, `EarlierRoundsWhole` the first, `EveryCellSettled` the third. The
verdict of a round (`EndRoundStep`) is where they meet: an exact count and a matching balance are what
lets the next round start, and a failed round leads to `Block` and never to a scan or a send.

Induction. The library's induction theorems take an operator as a parameter, which the provers at
hand cannot instantiate. `InductionLemmas` therefore states induction over sets: a set of numbers has
a least member (`LeastNumber`), a set that holds 0 and every successor holds all numbers (`Induct`), a
non-empty collection of subsets of a finite set has a smallest one (`SmallestSet`). These carry the recursive
function `Doubled` and the sums of `Balance` and `TxUpTo` (`SumRemove`, `SumApart`: a sum does not depend on
the order in which the fold takes the elements).

Model-checked only: the liveness properties (`InvocationEnds`, `FundingSettles`, `ScanEnds`,
`ObservationEnds`, `S4Ends`, `ObserveEnds`, `LeavingEnds`), since the provers at hand do no ENABLED and so no
fairness; and the four violations, which are counterexamples.

## 8. Not modelled

* Data: amounts and fees beyond the planners of `CoinSplit`, keys, JSON layout, addresses (an address list is the namespace it is
  for), the wallet's coin selection (`Tx` bounds what can still be signed).
* The order of the three commands. `prepare-b0`, `fund-s0` and `run` each hold the lock of the namespace
  and are modelled one by one. What one leaves for the next are whole files, compared field by field
  (run id, executable, environment, addresses, funding heights above the tip at the end of
  `prepare-b0`), and a difference is refused; a model of the three together would restate
  those comparisons. `run` reads the evidence before it takes the lock, and validates it again
  after (`validate_s0_funding_evidence`).
* Balance figures: the reconciliation metrics are recorded and compared once. Where a balance decides
  something (a round of S1, S0, mode 3's receiver) it is in `Scenarios` and `Mode3`.
* The validation of a profile beyond what `Scenarios` and `PrepareB0` take from it (cells, S1's outputs
  and rounds, the B0 contract): a pure function of one document, most of it comparisons of
  figures. A checkpoint's validation is taken to succeed.
* Within mode 3: a service that changes its mind about a batch it called confirmed or failed, and a
  reorganisation of what is `C_min` deep (that is `Confirmation`'s subject); descendants that leave
  their process group; SIGKILL of the harness itself, which leaves its children behind by nature.
* Mode 1's S4 collector and call, in `Scenarios` by their outcomes only: `run_mode1_transfers_concurrent`
  has the shape of `run_send_attempts_concurrent`, and the transactions are the console wallet's.
* `fund-one-sided`, the standalone command that sends one payment without evidence.
* The check of the listen ports, which keeps two runs of one configuration apart by accident but
  not two namespaces.
* A request given up before a refusal was recorded may still be mined. The model contains it
  (`ArriveLate`); the program promises nothing about it and stops for the operator.
* Configuration, seeds, build manifests, environment capture, scripts, patches
  and baselines: parsing, hashing and validation of data without state that changes.
* `account_snapshot(..).unwrap_or_default()`: a cursor that cannot be read at the start of a scan
  counts as height 0 (`live_minotari.rs:595`). `FixedTipScan` reads it without error.
* What the scan finds (outputs, balances, history) and its expectations in B0, all zero there.
