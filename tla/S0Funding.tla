----------------------------- MODULE S0Funding -----------------------------
(***************************************************************************)
(* fund-s0: fund_s0_from_checkpoint_inner of src/src/runner.rs with the    *)
(* recovery, submission and observation it calls in                        *)
(* src/src/live_minotari.rs.  One source wallet pays the three benchmark   *)
(* wallets of a run namespace with one transaction.  The command may fail, *)
(* be interrupted or be killed at any step, and is then run again, or run  *)
(* in another namespace with the same source wallet.                       *)
(*                                                                         *)
(* What an invocation holds is volatile; the namespace lock, the evidence  *)
(* file, the benchmark wallets and everything of PreparedTransaction are   *)
(* durable.                                                                *)
(***************************************************************************)
EXTENDS PreparedTransaction, Integers, FiniteSets

CONSTANTS
    Namespace,  \* run namespaces (paths.data_dir) that share one source wallet
    Discipline  \* how the operator uses namespaces; the code enforces none of it:
                \*   "none"     invocations of different namespaces may overlap
                \*   "serial"   one at a time, in any namespace
                \*   "forward"  one at a time, and never back in a namespace left for another

ASSUME DisciplineAssumption == Discipline \in {"none", "serial", "forward"}
ASSUME NoneIsNoNamespace == None \notin Namespace

VARIABLES
    pc,         \* where the invocation of a namespace is, "down" when there is none
    hand,       \* the transaction it recovers or has signed
    call,       \* its submit_transaction request
    resent,     \* whether recovery has submitted already
    doomed,     \* the checkpoints it has listed and will remove
    lock,       \* whether <data_dir>/.wallet-bench.lock exists
    evidence,   \* the S0FundingEvidence file
    wallets,    \* whether the benchmark wallet databases exist
    ready,      \* whether the command has ended with "S0 recipient readiness PASS"
    pays,       \* the namespace whose three addresses a transaction pays
    started     \* history: the namespaces used so far, and the last of them

memory == <<pc, hand, call, resent, doomed>>
nsVars == <<lock, evidence, wallets, ready, pays, started>>
vars   == <<txVars, memory, nsVars>>

----------------------------------------------------------------------------
\* Where an invocation can be.

Recovering == {"load", "query", "resubmit", "resubmitting", "recordAccepted", "pause",
               "reconcile"}
Preparing  == {"checks", "evidence", "initialize", "choose"}
Signing    == {"close", "complete", "prepare", "submit"}
Sending    == {"submitting", "markRow", "markCkpt", "record"}
Rejecting  == {"rejectRow", "rejectCkpt", "rejected"}
Observing  == {"observe", "observeWait", "confirm"}
Settling   == {"synchronize", "cleanup"}
Place      == {"down"} \cup Recovering \cup Preparing \cup Signing \cup Sending
                 \cup Rejecting \cup Observing \cup Settling

Call   == {"idle", "waiting"} \cup Answer
Status == {"absent", "initialized", "broadcast", "confirmed"}

TypeOK ==
    /\ TxTypeOK
    /\ pc \in [Namespace -> Place]
    /\ hand \in [Namespace -> Tx \cup {None}]
    /\ call \in [Namespace -> Call]
    /\ resent \in [Namespace -> BOOLEAN]
    /\ doomed \in [Namespace -> SUBSET Tx]
    /\ lock \in [Namespace -> BOOLEAN]
    /\ evidence \in [Namespace -> [status : Status, tx : Tx \cup {None}]]
    /\ wallets \in [Namespace -> BOOLEAN]
    /\ ready \in [Namespace -> BOOLEAN]
    /\ pays \in [Tx -> Namespace \cup {None}]
    /\ started \in [all : SUBSET Namespace, last : Namespace \cup {None}]

Init ==
    /\ TxInit
    /\ pc = [n \in Namespace |-> "down"]
    /\ hand = [n \in Namespace |-> None]
    /\ call = [n \in Namespace |-> "idle"]
    /\ resent = [n \in Namespace |-> FALSE]
    /\ doomed = [n \in Namespace |-> {}]
    /\ lock = [n \in Namespace |-> FALSE]
    /\ evidence = [n \in Namespace |-> [status |-> "absent", tx |-> None]]
    /\ wallets = [n \in Namespace |-> FALSE]
    /\ ready = [n \in Namespace |-> FALSE]
    /\ pays = [t \in Tx |-> None]
    /\ started = [all |-> {}, last |-> None]

At(n, place) == pc[n] = place
Jump(n, place) == pc' = [pc EXCEPT ![n] = place]
Goto(n, place) == Jump(n, place) /\ UNCHANGED <<hand, call, resent, doomed>>

\* The future is dropped or the process dies: a request it was waiting for may still
\* be on its way to the node.
Vanish(n) ==
    /\ Jump(n, "down")
    /\ hand' = [hand EXCEPT ![n] = None]
    /\ call' = [call EXCEPT ![n] = "idle"]
    /\ resent' = [resent EXCEPT ![n] = FALSE]
    /\ doomed' = [doomed EXCEPT ![n] = {}]
    /\ late' = IF call[n] = "waiting" THEN late \cup {hand[n]} ELSE late
    /\ UNCHANGED <<node, row, ckpt, sent, evidence, wallets, pays, started>>

\* RunNamespaceLock::drop
Unlock(n) == lock' = [lock EXCEPT ![n] = FALSE]

----------------------------------------------------------------------------
\* Taking the namespace lock, and the recovery of the source wallet's checkpoint.

MayStart(n) ==
    /\ Discipline # "none" => \A m \in Namespace : At(m, "down")
    /\ Discipline = "forward" => n = started.last \/ n \notin started.all

Start(n) ==
    /\ At(n, "down")
    /\ ~lock[n]
    /\ MayStart(n)
    /\ lock' = [lock EXCEPT ![n] = TRUE]
    /\ started' = [all |-> started.all \cup {n}, last |-> n]
    /\ Goto(n, "load")
    /\ UNCHANGED <<txVars, evidence, wallets, ready, pays>>

\* Mutant of LoadNone: a checkpoint on disk is not looked for.
LoadNothing(n) ==
    /\ At(n, "load")
    /\ Goto(n, "checks")
    /\ UNCHANGED <<txVars, nsVars>>

LoadNone(n) ==
    /\ At(n, "load")
    /\ Checkpointed = {}
    /\ Goto(n, "checks")
    /\ UNCHANGED <<txVars, nsVars>>

LoadOne(n) ==
    /\ At(n, "load")
    /\ \E t \in Tx :
         /\ Checkpointed = {t}
         /\ ~KnownRejected(t)
         /\ hand' = [hand EXCEPT ![n] = t]
    /\ Jump(n, "query")
    /\ UNCHANGED <<txVars, call, resent, doomed, nsVars>>

\* Mutant of Query: recovery waits for the chain and never submits again.
QueryOnly(n) ==
    /\ At(n, "query")
    /\ Goto(n, IF node[hand[n]] = "confirmed" THEN "reconcile" ELSE "pause")
    /\ UNCHANGED <<txVars, nsVars>>

\* One turn of the recovery loop: where is the transaction now?
Query(n) ==
    /\ At(n, "query")
    /\ LET found == node[hand[n]] IN
       Goto(n, CASE found = "confirmed" -> "reconcile"
                 [] found = "notStored" /\ ~resent[n] -> "resubmit"
                 [] OTHER -> "pause")
    /\ UNCHANGED <<txVars, nsVars>>

\* Handing the transaction to submit_transaction_without_retry, in recovery and in
\* finalize_signed_transaction_and_broadcast_without_retry.
Send(n, from, to) ==
    /\ At(n, from)
    /\ HandToNetwork(hand[n])
    /\ call' = [call EXCEPT ![n] = "waiting"]
    /\ Jump(n, to)
    /\ UNCHANGED <<hand, resent, doomed, nsVars>>

Resubmit(n) == Send(n, "resubmit", "resubmitting")

\* The node handles the request while its caller waits for the answer.
NodeAnswers(n) ==
    /\ call[n] = "waiting"
    /\ \E answer \in Answer :
         /\ Answers(hand[n], answer)
         /\ call' = [call EXCEPT ![n] = answer]
    /\ UNCHANGED <<row, ckpt, late, sent, pc, hand, resent, doomed, nsVars>>

\* The caller reads an answer and continues at `to`.
Reads(n, from, answer, to) ==
    /\ At(n, from)
    /\ call[n] = answer
    /\ call' = [call EXCEPT ![n] = "idle"]
    /\ resent' = [resent EXCEPT ![n] = TRUE]
    /\ Jump(n, to)
    /\ UNCHANGED <<txVars, hand, doomed, nsVars>>

ResubmitAnswered(n) ==
    \/ Reads(n, "resubmitting", "accepted", "recordAccepted")
    \/ Reads(n, "resubmitting", "alreadyMined", "pause")
    \/ Reads(n, "resubmitting", "refused", "rejectRow")

RecordAccepted(n) ==
    /\ At(n, "recordAccepted")
    /\ MarkCkpt(hand[n], "accepted")
    /\ Goto(n, "pause")
    /\ UNCHANGED nsVars

PollAgain(n) ==
    /\ At(n, "pause")
    /\ Goto(n, "query")
    /\ UNCHANGED <<txVars, nsVars>>

\* The recovery deadline passes: RecoveredAcceptedPendingConfirmation.
RecoveredPending(n) ==
    /\ At(n, "pause")
    /\ ckpt[hand[n]] # "none"
    /\ Goto(n, "checks")
    /\ UNCHANGED <<txVars, nsVars>>

\* Mutant of Reconcile: the checkpoint goes as soon as the chain has the transaction, as
\* recover_prepared_transaction_checkpoints does for the benchmark wallets.
ReconcileAndRemove(n) ==
    /\ At(n, "reconcile")
    /\ SetRow(hand[n], "broadcast")
    /\ SetCkpt(hand[n], "none")
    /\ Goto(n, "checks")
    /\ UNCHANGED <<node, late, sent, nsVars>>

\* RecoveredConfirmedTransaction: the wallet row is brought to "broadcast".
Reconcile(n) ==
    /\ At(n, "reconcile")
    /\ row[hand[n]] \in CompletedRow
    /\ ckpt[hand[n]] # "none"
    /\ MarkRow(hand[n], "broadcast")
    /\ Goto(n, "checks")
    /\ UNCHANGED nsVars

----------------------------------------------------------------------------
\* The evidence file and the benchmark wallets.

\* Worktree, B0 checkpoint, fingerprints, ports, preflight and endpoint authority.
Checks(n) ==
    /\ At(n, "checks")
    /\ Goto(n, "evidence")
    /\ UNCHANGED <<txVars, nsVars>>

\* Mutant of WriteInitialized: the wallets are created before the evidence is written.
WalletsFirst(n) ==
    /\ At(n, "evidence")
    /\ evidence[n].status = "absent"
    /\ \/ /\ wallets[n]
          /\ evidence' = [evidence EXCEPT ![n].status = "initialized"]
          /\ Goto(n, "initialize")
          /\ UNCHANGED wallets
       \/ /\ ~wallets[n]
          /\ wallets' = [wallets EXCEPT ![n] = TRUE]
          /\ UNCHANGED <<memory, evidence>>
    /\ UNCHANGED <<txVars, lock, ready, pays, started>>

\* No evidence yet: require_fresh_s0_wallet_paths, then the first evidence.
WriteInitialized(n) ==
    /\ At(n, "evidence")
    /\ evidence[n].status = "absent"
    /\ ~wallets[n]
    /\ evidence' = [evidence EXCEPT ![n].status = "initialized"]
    /\ Goto(n, "initialize")
    /\ UNCHANGED <<txVars, lock, wallets, ready, pays, started>>

ReadEvidence(n) ==
    /\ At(n, "evidence")
    /\ evidence[n].status # "absent"
    /\ Goto(n, IF evidence[n].status = "initialized" THEN "initialize" ELSE "choose")
    /\ UNCHANGED <<txVars, nsVars>>

\* initialize_s0_wallets may be repeated: ensure_signing_wallet keeps what exists.
InitializeWallets(n) ==
    /\ At(n, "initialize")
    /\ wallets' = [wallets EXCEPT ![n] = TRUE]
    /\ Goto(n, "choose")
    /\ UNCHANGED <<txVars, lock, evidence, ready, pays, started>>

HasSubmission(n) == evidence[n].tx # None

\* Mutant of RecordSubmission: a status no reader of the file knows.
RecordUnknownStatus(n) ==
    evidence' = [evidence EXCEPT ![n] = [status |-> "submitted", tx |-> hand[n]]]

RecordSubmission(n) ==
    evidence' = [evidence EXCEPT ![n] = [status |-> "broadcast", tx |-> hand[n]]]

\* Mutant of Adopt: a submission already on record is overwritten.
AdoptAlways(n) ==
    /\ At(n, "choose")
    /\ hand[n] # None
    /\ RecordSubmission(n)
    /\ Goto(n, "observe")
    /\ UNCHANGED <<txVars, lock, wallets, ready, pays, started>>

\* The recovered transaction becomes this namespace's submission.
Adopt(n) ==
    /\ At(n, "choose")
    /\ ~HasSubmission(n)
    /\ hand[n] # None
    /\ RecordSubmission(n)
    /\ Goto(n, "observe")
    /\ UNCHANGED <<txVars, lock, wallets, ready, pays, started>>

SubmissionKnown(n) ==
    /\ At(n, "choose")
    /\ HasSubmission(n)
    /\ Goto(n, IF evidence[n].status = "confirmed" THEN "synchronize" ELSE "observe")
    /\ UNCHANGED <<txVars, nsVars>>

----------------------------------------------------------------------------
\* submit_s0_outputs: construct, sign, persist, checkpoint, submit, mark, record.

Construct(n) ==
    /\ At(n, "choose")
    /\ ~HasSubmission(n)
    /\ hand[n] = None
    /\ \E t \in Tx :
         /\ LockFunds(t)
         /\ hand' = [hand EXCEPT ![n] = t]
         /\ pays' = [pays EXCEPT ![t] = n]
    /\ Jump(n, "close")
    /\ UNCHANGED <<call, resent, doomed, lock, evidence, wallets, ready, started>>

PersistPending(n) ==
    /\ At(n, "close")
    /\ ClosePending(hand[n])
    /\ Goto(n, "complete")
    /\ UNCHANGED nsVars

\* Mutant of PersistSigned: the submission does not wait for the checkpoint.
PersistAndSubmit(n) ==
    /\ At(n, "complete")
    /\ CreateCompleted(hand[n])
    /\ Goto(n, "submit")
    /\ UNCHANGED nsVars

PersistSigned(n) ==
    /\ At(n, "complete")
    /\ CreateCompleted(hand[n])
    /\ Goto(n, "prepare")
    /\ UNCHANGED nsVars

PersistCheckpoint(n) ==
    /\ At(n, "prepare")
    /\ PersistPrepared(hand[n])
    /\ Goto(n, "submit")
    /\ UNCHANGED nsVars

Submit(n) == Send(n, "submit", "submitting")

SubmitAnswered(n) ==
    \/ Reads(n, "submitting", "accepted", "markRow")
    \/ Reads(n, "submitting", "refused", "rejectRow")

MarkRowBroadcast(n) ==
    /\ At(n, "markRow")
    /\ MarkRow(hand[n], "broadcast")
    /\ Goto(n, "markCkpt")
    /\ UNCHANGED nsVars

MarkCkptAccepted(n) ==
    /\ At(n, "markCkpt")
    /\ MarkCkpt(hand[n], "accepted")
    /\ Goto(n, "record")
    /\ UNCHANGED nsVars

\* The on_broadcast callback writes the evidence before any confirmation polling.
RecordBroadcast(n) ==
    /\ At(n, "record")
    /\ RecordSubmission(n)
    /\ Goto(n, "observe")
    /\ UNCHANGED <<txVars, lock, wallets, ready, pays, started>>

\* Mutant of RejectRow: the checkpoint is marked before the row.
RejectCkptFirst(n) ==
    /\ At(n, "rejectRow")
    /\ MarkCkpt(hand[n], "rejected")
    /\ Goto(n, "rejectCkpt")
    /\ UNCHANGED nsVars

\* A refusal is recorded in the wallet row, then in the checkpoint; then the command fails.
RejectRow(n) ==
    /\ At(n, "rejectRow")
    /\ MarkRow(hand[n], "rejected")
    /\ Goto(n, "rejectCkpt")
    /\ UNCHANGED nsVars

RejectCkpt(n) ==
    /\ At(n, "rejectCkpt")
    /\ MarkCkpt(hand[n], "rejected")
    /\ Goto(n, "rejected")
    /\ UNCHANGED nsVars

----------------------------------------------------------------------------
\* observe_s0_funding, recipient readiness and the removal of the checkpoints.

\* Mutant of Observe: a mined transaction counts before C_min.
ObserveMined(n) ==
    /\ At(n, "observe")
    /\ Goto(n, IF node[evidence[n].tx] \in {"mined", "confirmed"} THEN "confirm"
                                                                  ELSE "observeWait")
    /\ UNCHANGED <<txVars, nsVars>>

Observe(n) ==
    /\ At(n, "observe")
    /\ row[evidence[n].tx] \in CompletedRow
    /\ Goto(n, IF node[evidence[n].tx] = "confirmed" THEN "confirm" ELSE "observeWait")
    /\ UNCHANGED <<txVars, nsVars>>

ObserveAgain(n) ==
    /\ At(n, "observeWait")
    /\ Goto(n, "observe")
    /\ UNCHANGED <<txVars, nsVars>>

RecordConfirmed(n) ==
    /\ At(n, "confirm")
    /\ evidence' = [evidence EXCEPT ![n].status = "confirmed"]
    /\ Goto(n, "synchronize")
    /\ UNCHANGED <<txVars, lock, wallets, ready, pays, started>>

\* The strict gate on the scanned wallets: exactly one A_fund output, spendable, and
\* nothing pending.
Received(n) == {t \in Tx : pays[t] = n /\ node[t] \in {"mined", "confirmed"}}
\* Mutant of ReadinessGate: the evidence is trusted, the recipients are not looked at.
ReadyByEvidence(n) == node[evidence[n].tx] = "confirmed"

ReadinessGate(n) == \E t \in Tx : Received(n) = {t} /\ node[t] = "confirmed"

RecipientsReady(n) ==
    /\ At(n, "synchronize")
    /\ ReadinessGate(n)
    /\ doomed' = [doomed EXCEPT ![n] = Checkpointed]
    /\ Jump(n, "cleanup")
    /\ UNCHANGED <<txVars, hand, call, resent, nsVars>>

\* remove_prepared_transaction_checkpoint: every checkpoint of the source wallet that
\* it listed, one file after the other; a file that has gone is no error.
RemoveCheckpoint(n) ==
    /\ At(n, "cleanup")
    /\ \E t \in doomed[n] :
         /\ SetCkpt(t, "none")
         /\ doomed' = [doomed EXCEPT ![n] = @ \ {t}]
    /\ UNCHANGED <<node, row, late, sent, pc, hand, call, resent, nsVars>>

Finish(n) ==
    /\ At(n, "cleanup")
    /\ doomed[n] = {}
    /\ ready' = [ready EXCEPT ![n] = TRUE]
    /\ Unlock(n)
    /\ Vanish(n)

----------------------------------------------------------------------------
\* How an invocation ends early.

\* FundLocker::lock finds nothing to lock: Tx bounds what the source wallet can still sign.
OutOfFunds(n) ==
    /\ At(n, "choose")
    /\ ~HasSubmission(n)
    /\ hand[n] = None
    /\ \A t \in Tx : ~Fresh(t)

\* The checks and errors of the code itself.
MustStop(n) ==
    \/ At(n, "load") /\ Cardinality(Checkpointed) > 1
    \/ At(n, "load") /\ \E t \in Checkpointed : KnownRejected(t)
    \/ At(n, "reconcile") /\ row[hand[n]] \notin CompletedRow
    \/ /\ pc[n] \in {"recordAccepted", "pause", "reconcile", "markCkpt", "rejectCkpt"}
       /\ ckpt[hand[n]] = "none"
    \/ At(n, "evidence") /\ evidence[n].status = "absent" /\ wallets[n]
    \/ OutOfFunds(n)
    \/ At(n, "submitting") /\ call[n] = "alreadyMined"
    \/ At(n, "rejected")
    \/ At(n, "observe") /\ row[evidence[n].tx] \notin CompletedRow
    \/ At(n, "synchronize") /\ ~ReadinessGate(n)

Bail(n) ==
    /\ MustStop(n)
    /\ Unlock(n)
    /\ Vanish(n)
    /\ UNCHANGED ready

\* Mutant of Deadline: the observation has none.
RequestDeadline(n) ==
    /\ pc[n] \in {"resubmitting", "submitting"}
    /\ Unlock(n)
    /\ Vanish(n)
    /\ UNCHANGED ready

\* A deadline of the code: the submission request, the observation.  The recovery's own
\* deadline is RecoveredPending.
Deadline(n) ==
    /\ pc[n] \in {"resubmitting", "submitting", "observeWait"}
    /\ Unlock(n)
    /\ Vanish(n)
    /\ UNCHANGED ready

\* Any other failure: an I/O or RPC error, a failed check, or SIGINT and SIGTERM, which
\* drop the future.  The lock is removed by its Drop.
Fault(n) ==
    /\ ~At(n, "down")
    /\ Unlock(n)
    /\ Vanish(n)
    /\ UNCHANGED ready

\* SIGKILL or power loss: nothing is dropped, the lock file stays.
Kill(n) ==
    /\ ~At(n, "down")
    /\ Vanish(n)
    /\ UNCHANGED <<lock, ready>>

----------------------------------------------------------------------------
Recover(n) ==
    \/ LoadNone(n) \/ LoadOne(n) \/ Query(n) \/ Resubmit(n) \/ ResubmitAnswered(n)
    \/ RecordAccepted(n) \/ PollAgain(n) \/ RecoveredPending(n) \/ Reconcile(n)

Prepare(n) ==
    \/ Checks(n) \/ WriteInitialized(n) \/ ReadEvidence(n) \/ InitializeWallets(n)
    \/ Adopt(n) \/ SubmissionKnown(n)

Broadcast(n) ==
    \/ Construct(n) \/ PersistPending(n) \/ PersistSigned(n) \/ PersistCheckpoint(n)
    \/ Submit(n) \/ SubmitAnswered(n) \/ MarkRowBroadcast(n) \/ MarkCkptAccepted(n)
    \/ RecordBroadcast(n) \/ RejectRow(n) \/ RejectCkpt(n)

Settle(n) ==
    \/ Observe(n) \/ ObserveAgain(n) \/ RecordConfirmed(n) \/ RecipientsReady(n)
    \/ RemoveCheckpoint(n) \/ Finish(n)

Progress(n) == Recover(n) \/ Prepare(n) \/ Broadcast(n) \/ Settle(n) \/ Bail(n)

Network == NodeStep /\ UNCHANGED <<memory, nsVars>>

Next ==
    \/ Network
    \/ \E n \in Namespace :
         Start(n) \/ Progress(n) \/ NodeAnswers(n) \/ Deadline(n) \/ Fault(n) \/ Kill(n)

Spec == Init /\ [][Next]_vars

\* Inside an invocation every await ends, and a poll loop that tests its deadline on
\* every turn meets it once it has passed.  Nothing is assumed of the node or of the
\* operator.
InvocationFairness == \A n \in Namespace :
    /\ WF_vars(Progress(n))
    /\ SF_vars(RecoveredPending(n)) /\ SF_vars(Deadline(n))

\* Beyond the code: the operator repeats an interrupted command; of the requests that are
\* repeated some are answered and some answers arrive; and a transaction that keeps coming
\* back to the mempool is mined in the end, and one that keeps being mined is buried.
EnvironmentFairness ==
    /\ \A t \in Tx :
          /\ SF_vars(Mine(t) /\ UNCHANGED <<memory, nsVars>>)
          /\ SF_vars(Bury(t) /\ UNCHANGED <<memory, nsVars>>)
    /\ \A n \in Namespace :
          /\ WF_vars(Start(n))
          /\ SF_vars(NodeAnswers(n))
          /\ SF_vars(ResubmitAnswered(n))

FairSpec == Spec /\ InvocationFairness

----------------------------------------------------------------------------
\* Safety.

\* Whatever was handed to the network can be found again after a crash: its checkpoint
\* is there until the chain has buried it and the evidence of the namespace it pays
\* names it (the write-ahead order of finalize_signed_transaction_and_broadcast_without_retry
\* and the removal that waits for recipient readiness).
NothingUnaccounted == \A t \in sent :
    \/ ckpt[t] # "none"
    \/ /\ node[t] = "confirmed"
       /\ \E n \in Namespace : pays[t] = n /\ evidence[n] = [status |-> "confirmed", tx |-> t]

\* However often fund-s0 is interrupted and repeated, one namespace hands at most one
\* funding transaction to the network.
FundedOnce == \A t, u \in sent : pays[t] = pays[u] => t = u

\* The evidence file never claims more than happened: a recorded submission was handed
\* to the network, and a recorded confirmation is final on the chain.
EvidenceIsTrue == \A n \in Namespace :
    LET e == evidence[n] IN
    /\ e.status \in {"broadcast", "confirmed"} <=> e.tx # None
    /\ e.tx # None => e.tx \in sent
    /\ e.status = "confirmed" => node[e.tx] = "confirmed"

\* "S0 recipient readiness PASS" is printed only for a namespace whose three wallets
\* hold the outputs of the very transaction its evidence names.
ReadyMeansFunded == \A n \in Namespace :
    ready[n] => /\ evidence[n].status = "confirmed"
                /\ Received(n) = {evidence[n].tx}
                /\ pays[evidence[n].tx] = n

\* Once a refusal is on record, in the wallet row or in the checkpoint, nothing waits
\* for the network to take that transaction: a replacement needs the operator.
RejectedNotResubmitted == \A n \in Namespace :
    call[n] = "waiting" =>
        ckpt[hand[n]] # "rejected" /\ row[hand[n]] # "rejected"

\* The three durable records can always be reconciled: the wallet database has the
\* completed row of every checkpoint and of every evidence file, and a checkpoint is
\* rejected only after its row.
RecordsAgree ==
    /\ \A t \in Tx :
          /\ ckpt[t] # "none" => row[t] \in CompletedRow
          /\ ckpt[t] = "rejected" => row[t] = "rejected"
    /\ \A n \in Namespace : HasSubmission(n) => row[evidence[n].tx] \in CompletedRow

\* Wallet databases never exist without the evidence that planned their birthday, so
\* require_fresh_s0_wallet_paths never refuses a repeated command.
ResumableInitialization == \A n \in Namespace :
    wallets[n] => evidence[n].status # "absent"

\* A submission once recorded is never replaced, and a confirmation never taken back.
EvidenceNeverReplaced == [][ \A n \in Namespace :
    /\ HasSubmission(n) => evidence'[n].tx = evidence[n].tx
    /\ evidence[n].status = "confirmed" => evidence'[n] = evidence[n] ]_vars

\* The transaction an evidence file names pays the addresses that file lists.
EvidencePaysItsAddresses == \A n \in Namespace :
    HasSubmission(n) => pays[evidence[n].tx] = n

----------------------------------------------------------------------------
\* Liveness.

\* An invocation ends, whatever the node does.
InvocationEnds == \A n \in Namespace : ~At(n, "down") ~> At(n, "down")

\* The namespace is finished, waits for the operator's decision on a refusal, was killed
\* and keeps its stale lock, or has lost every transaction before it was checkpointed.
Settled(n) ==
    \/ ready[n]
    \/ \E t \in Tx : pays[t] = n /\ KnownRejected(t)
    \/ lock[n] /\ At(n, "down")
    \/ OutOfFunds(n)

\* From some point on no invocation ends but by the code's own checks and deadlines, by
\* success, or killed.
FaultsStop == <>[][\A n \in Namespace :
    ~At(n, "down") /\ pc'[n] = "down" =>
        Bail(n) \/ Deadline(n) \/ Finish(n) \/ Kill(n)]_vars

\* Repeating an interrupted fund-s0 resumes it until it is settled.
FundingSettles ==
    EnvironmentFairness /\ FaultsStop => \A n \in Namespace : <>Settled(n)

----------------------------------------------------------------------------
\* What the whole command promises.

Funding(n) == {t \in sent : pays[t] = n}

Outcome(n) ==
    IF ready[n] THEN "funded"
    ELSE IF \E t \in Funding(n) : KnownRejected(t) THEN "refused" ELSE "open"

Promise == INSTANCE FundOnce WITH
    funding <- [n \in Namespace |-> Funding(n)],
    outcome <- [n \in Namespace |-> Outcome(n)]

FundsOnce == Promise!Spec

=============================================================================
