---------------------------- MODULE SendDispatch ----------------------------
(***************************************************************************)
(* S4: sends that run at once against one wallet, an absolute deadline per *)
(* batch, and what the next command recovers: run_s4_batches and           *)
(* run_send_attempts_concurrent of src/src/live_minotari/mode2.rs, the     *)
(* sends they spawn, and recover_prepared_transaction_checkpoints of       *)
(* src/src/live_minotari.rs.                                               *)
(*                                                                         *)
(* Every attempt is a task with the transaction it will sign. abort_all    *)
(* takes effect where a task awaits, which is nowhere but in the request:  *)
(* a task that is past it, or not yet there, goes on beside the next batch *)
(* and its result is received by nobody.                                   *)
(***************************************************************************)
EXTENDS PreparedTransaction, Naturals, FiniteSets

CONSTANT
    Configs     \* the configurations: concurrent_batches as a batch for every attempt

ASSUME BatchAssumption ==
    /\ Configs \subseteq [Tx -> Nat \ {0}]
    /\ \A c \in Configs : \A t \in Tx : \A b \in 1..c[t] : \E u \in Tx : c[u] = b

VARIABLES
    pc,         \* where the command is
    batchOf,    \* the configuration of this run
    batch,      \* the batch it is at
    overdue,    \* the deadline of that batch has passed
    task,       \* how far each send has come
    cut,        \* the tasks that were aborted
    obs,        \* what is on record of each attempt
    seen,       \* transactions independently verified as final
    refreshed,  \* every state refresh so far succeeded
    todo,       \* recovery: the checkpoints it found and has not come to
    at,         \* recovery: the one it is at
    resent      \* recovery: it has submitted that one

s4Vars   == <<batchOf, batch, overdue, task, cut, obs, seen, refreshed>>
recovery == <<todo, at, resent>>
vars     == <<txVars, pc, s4Vars, recovery>>

Running    == {"ready", "built", "held", "waiting", "accepted", "acceptedRow", "refused", "refusedRow"}
Returned   == {"ok", "known", "err"}
Sending    == {"collect", "verify", "refresh"}
Recovering == {"next", "query", "resubmit", "markAccepted", "rejectRow", "rejectCkpt", "reconcile", "remove"}

TypeOK ==
    /\ TxTypeOK
    /\ pc \in Sending \cup Recovering \cup {"done", "failed", "down"}
    /\ batchOf \in Configs
    /\ batch \in Nat \ {0}
    /\ overdue \in BOOLEAN
    /\ task \in [Tx -> Running \cup Returned \cup {"none", "gone"}]
    /\ cut \in SUBSET Tx
    /\ obs \in [Tx -> Returned \cup {"none"}]
    /\ seen \in SUBSET {t \in Tx : obs[t] = "ok"}
    /\ refreshed \in BOOLEAN
    /\ todo \in SUBSET Tx
    /\ at \in Tx \cup {None}
    /\ resent \in BOOLEAN
    /\ (at = None) = (pc \notin Recovering \ {"next"})

Members(b) == {t \in Tx : batchOf[t] = b}

\* Mutant of tx_ids: the refused and the aborted ones are verified as well.
AllIds == Members(batch)

\* The ids on record of the batch: those of the calls that returned one.
tx_ids == {t \in Members(batch) : obs[t] = "ok"}

\* The tip is read and the tasks are spawned; no task is awaited meanwhile.
Spawned(b) == [t \in Tx |-> IF batchOf[t] = b THEN "ready" ELSE task[t]]

Init ==
    /\ TxInit
    /\ batchOf \in Configs
    /\ pc = "collect" /\ batch = 1 /\ overdue = FALSE
    /\ task = [t \in Tx |-> IF batchOf[t] = 1 THEN "ready" ELSE "none"]
    /\ cut = {} /\ obs = [t \in Tx |-> "none"] /\ seen = {} /\ refreshed = TRUE
    /\ todo = {} /\ at = None /\ resent = FALSE

----------------------------------------------------------------------------
\* One send: construct_sign_broadcast_one_sided.

At(t, stage)   == task[t] = stage
Goes(t, stage) ==
    /\ task' = [task EXCEPT ![t] = stage]
    /\ UNCHANGED <<pc, batchOf, batch, overdue, cut, obs, seen, refreshed, recovery>>

\* Locks funds, signs, closes the pending row and creates the completed one; without
\* an await.  A wallet whose outputs are locked refuses.
Construct(t) ==
    /\ At(t, "ready")
    /\ t \notin cut
    /\ Fresh(t)
    /\ SetRow(t, "completed")
    /\ UNCHANGED <<node, ckpt, late, sent>>
    /\ Goes(t, "built")

\* It fails before, within or after those statements; what it locked stays locked.
ConstructFails(t) ==
    \/ /\ At(t, "ready") /\ t \notin cut /\ Fresh(t)
       /\ \E left \in {"none", "locked", "closed"} : SetRow(t, left)
       /\ UNCHANGED <<node, ckpt, late, sent>>
       /\ Goes(t, "err")
    \/ /\ At(t, "built")
       /\ UNCHANGED txVars
       /\ Goes(t, "err")

Checkpoint(t) == At(t, "built") /\ PersistPrepared(t) /\ Goes(t, "held")

\* Mutant of Submit: the request leaves before the checkpoint is on disk.
SubmitFirst(t) ==
    /\ At(t, "built")
    /\ HandToNetwork(t)
    /\ Goes(t, "waiting")

\* The request's first poll: an abort can take effect only after it.
Submit(t) == At(t, "held") /\ HandToNetwork(t) /\ Goes(t, "waiting")

Answered(t) ==
    /\ At(t, "waiting")
    /\ t \notin cut
    /\ \E answer \in Answer :
         /\ Answers(t, answer)
         /\ Goes(t, CASE answer = "accepted"     -> "accepted"
                      [] answer = "alreadyMined" -> "known"
                      [] answer = "refused"      -> "refused")
    /\ UNCHANGED <<row, ckpt, late, sent>>

\* The request fails or exceeds its 30 seconds; it may still arrive.
Unanswered(t) ==
    /\ At(t, "waiting")
    /\ t \notin cut
    /\ late' = late \cup {t}
    /\ UNCHANGED <<node, row, ckpt, sent>>
    /\ Goes(t, "err")

MarkTheRow(t) ==
    \/ At(t, "accepted") /\ MarkRow(t, "broadcast") /\ Goes(t, "acceptedRow")
    \/ At(t, "refused") /\ MarkRow(t, "rejected") /\ Goes(t, "refusedRow")

MarkTheFile(t) ==
    \/ At(t, "acceptedRow") /\ MarkCkpt(t, "accepted") /\ Goes(t, "ok")
    \/ At(t, "refusedRow") /\ MarkCkpt(t, "rejected") /\ Goes(t, "err")

\* The database or the file fails after the answer.
MarkFails(t) ==
    /\ task[t] \in {"accepted", "acceptedRow", "refused", "refusedRow"}
    /\ UNCHANGED txVars
    /\ Goes(t, "err")

\* The runtime drops an aborted task where it awaits, or before it ran at all.
Dropped(t) ==
    /\ t \in cut
    /\ task[t] \in {"ready", "waiting"}
    /\ late' = IF At(t, "waiting") THEN late \cup {t} ELSE late
    /\ UNCHANGED <<node, row, ckpt, sent>>
    /\ Goes(t, "gone")

TaskStep(t) ==
    \/ Construct(t) \/ ConstructFails(t) \/ Checkpoint(t) \/ Submit(t) \/ Answered(t)
    \/ Unanswered(t) \/ MarkTheRow(t) \/ MarkTheFile(t) \/ MarkFails(t) \/ Dropped(t)

----------------------------------------------------------------------------
\* The collector: run_send_attempts_concurrent.

\* Mutant of Collect: a result that comes late replaces what is on record.
CollectLate(t) ==
    /\ pc \in Sending
    /\ task[t] \in Returned
    /\ obs' = [obs EXCEPT ![t] = task[t]]
    /\ UNCHANGED <<txVars, pc, batchOf, batch, overdue, task, cut, seen, refreshed, recovery>>

\* join_next yields a task that returned, and record_attempt puts it on record.
Collect(t) ==
    /\ pc = "collect"
    /\ t \in Members(batch)
    /\ task[t] \in Returned
    /\ obs[t] = "none"
    /\ obs' = [obs EXCEPT ![t] = task[t]]
    /\ UNCHANGED <<txVars, pc, batchOf, batch, overdue, task, cut, seen, refreshed, recovery>>

pending == {t \in Members(batch) : obs[t] = "none"}

AllCollected ==
    /\ pc = "collect"
    /\ pending = {}
    /\ pc' = "verify"
    /\ UNCHANGED <<txVars, s4Vars, recovery>>

\* Mutant of CollectDeadline: only the tasks that had begun are put on record.
DeadlineForgetsReady ==
    /\ pc = "collect"
    /\ overdue
    /\ pending # {}
    /\ \A t \in pending : task[t] \notin Returned
    /\ cut' = cut \cup pending
    /\ obs' = [t \in Tx |-> IF t \in pending /\ ~At(t, "ready") THEN "err" ELSE obs[t]]
    /\ pc' = "verify"
    /\ UNCHANGED <<txVars, batchOf, batch, overdue, task, seen, refreshed, recovery>>

\* timeout_at polls join_next before it looks at the clock, so nothing that has
\* returned is left; the rest is aborted and put on record as failed.
CollectDeadline ==
    /\ pc = "collect"
    /\ overdue
    /\ pending # {}
    /\ \A t \in pending : task[t] \notin Returned
    /\ cut' = cut \cup pending
    /\ obs' = [t \in Tx |-> IF t \in pending THEN "err" ELSE obs[t]]
    /\ pc' = "verify"
    /\ UNCHANGED <<txVars, batchOf, batch, overdue, task, seen, refreshed, recovery>>

----------------------------------------------------------------------------
\* The batch: run_s4_batches.

Expire ==
    /\ pc \in Sending
    /\ ~overdue
    /\ overdue' = TRUE
    /\ UNCHANGED <<txVars, pc, batchOf, batch, task, cut, obs, seen, refreshed, recovery>>

\* The verification loop of the batch (module Confirmation) sees one more as final.
Verified(t) ==
    /\ pc = "verify"
    /\ ~overdue
    /\ t \in tx_ids \ seen
    /\ node[t] = "confirmed"
    /\ seen' = seen \cup {t}
    /\ UNCHANGED <<txVars, pc, batchOf, batch, overdue, task, cut, obs, refreshed, recovery>>

\* Mutant of EndVerification: it ends when every transaction is final.
EndWhenFinal ==
    /\ pc = "verify"
    /\ tx_ids \subseteq seen
    /\ pc' = "refresh"
    /\ UNCHANGED <<txVars, s4Vars, recovery>>

EndVerification ==
    /\ pc = "verify"
    /\ overdue \/ tx_ids \subseteq seen
    /\ pc' = "refresh"
    /\ UNCHANGED <<txVars, s4Vars, recovery>>

\* The wallet is scanned to the tip: skipped without transactions, failed without time.
Refresh(ok) ==
    /\ pc = "refresh"
    /\ tx_ids = {} => ok
    /\ overdue /\ tx_ids # {} => ~ok
    /\ refreshed' = (refreshed /\ ok)
    /\ IF Members(batch + 1) # {}
       THEN /\ batch' = batch + 1 /\ task' = Spawned(batch + 1)
            /\ overdue' = FALSE /\ pc' = "collect"
       ELSE pc' = "done" /\ UNCHANGED <<batch, task, overdue>>
    /\ UNCHANGED <<txVars, batchOf, cut, obs, seen, recovery>>

\* An error of the verification itself leaves through the whole run.
VerificationFails ==
    /\ pc = "verify"
    /\ tx_ids # {} /\ ~overdue
    /\ pc' = "failed"
    /\ UNCHANGED <<txVars, s4Vars, recovery>>

\* Mutant of Status: the calls that returned an id decide.
StatusByAcceptance == IF \A t \in Tx : obs[t] = "ok" THEN "Ok" ELSE "Failed"

\* mode2_send_repetition
Status == IF (\A t \in Tx : t \in seen) /\ refreshed THEN "Ok" ELSE "Failed"

\* transaction_observations
Outcome(t) ==
    CASE t \in seen       -> "confirmed"
      [] obs[t] # "ok"    -> "rejected"
      [] OTHER            -> "timed_out"

----------------------------------------------------------------------------
\* The process ends, of itself or not: every task goes with it, and so does what was
\* on record in memory.
ProcessEnds ==
    /\ pc # "down"
    /\ pc' = "down"
    /\ late' = late \cup {t \in Tx : At(t, "waiting")}
                    \cup (IF pc = "resubmit" THEN {at} ELSE {})
    /\ task' = [t \in Tx |-> IF task[t] = "none" THEN "none" ELSE "gone"]
    /\ obs' = [t \in Tx |-> "none"] /\ seen' = {} /\ cut' = {}
    /\ todo' = {} /\ at' = None /\ resent' = FALSE
    /\ UNCHANGED <<node, row, ckpt, sent, batchOf, batch, overdue, refreshed>>

----------------------------------------------------------------------------
\* The next command: recover_prepared_transaction_checkpoints, before anything else.

Stays == UNCHANGED <<s4Vars, todo>>

RunAgain ==
    /\ pc = "down"
    /\ pc' = "next"
    /\ todo' = Checkpointed
    /\ UNCHANGED <<txVars, s4Vars, at, resent>>

\* A file that says network_rejected, or a row that does, needs no network.
Load(t) ==
    /\ pc = "next"
    /\ t \in todo
    /\ todo' = todo \ {t}
    /\ at' = t
    /\ resent' = FALSE
    /\ pc' = IF KnownRejected(t) THEN "remove" ELSE "query"
    /\ UNCHANGED <<txVars, s4Vars>>

\* Mutant of Query: what is mined counts as settled.
QueryMined ==
    /\ pc = "query"
    /\ \/ node[at] \in {"mined", "confirmed"} /\ pc' = "reconcile" /\ UNCHANGED <<sent, resent>>
       \/ /\ node[at] = "notStored" /\ ~resent
          /\ pc' = "resubmit" /\ resent' = TRUE /\ sent' = sent \cup {at}
       \/ node[at] # "confirmed" /\ pc' = "next" /\ UNCHANGED <<sent, resent>>
    /\ at' = IF pc' = "next" THEN None ELSE at
    /\ UNCHANGED <<node, row, ckpt, late>> /\ Stays

\* The query with the tip; what the node does not hold is submitted, once; and at the
\* deadline the checkpoint stays for the command after this one.
Query ==
    /\ pc = "query"
    /\ \/ node[at] = "confirmed" /\ pc' = "reconcile" /\ UNCHANGED <<sent, resent>>
       \/ /\ node[at] = "notStored" /\ ~resent
          /\ pc' = "resubmit" /\ resent' = TRUE /\ sent' = sent \cup {at}
       \/ node[at] # "confirmed" /\ pc' = "next" /\ UNCHANGED <<sent, resent>>
    /\ at' = IF pc' = "next" THEN None ELSE at
    /\ UNCHANGED <<node, row, ckpt, late>> /\ Stays

Resubmitted ==
    /\ pc = "resubmit"
    /\ \E answer \in Answer :
         /\ Answers(at, answer)
         /\ pc' = CASE answer = "accepted"     -> "markAccepted"
                    [] answer = "alreadyMined" -> "query"
                    [] answer = "refused"      -> "rejectRow"
    /\ UNCHANGED <<row, ckpt, late, sent, at, resent>> /\ Stays

Mark ==
    \/ pc = "markAccepted" /\ MarkCkpt(at, "accepted") /\ pc' = "query"
         /\ UNCHANGED <<at, resent>> /\ Stays
    \/ pc = "rejectRow" /\ MarkRow(at, "rejected") /\ pc' = "rejectCkpt"
         /\ UNCHANGED <<at, resent>> /\ Stays
    \/ pc = "rejectCkpt" /\ MarkCkpt(at, "rejected") /\ pc' = "remove"
         /\ UNCHANGED <<at, resent>> /\ Stays
    \/ pc = "reconcile" /\ MarkRow(at, "broadcast") /\ pc' = "remove"
         /\ UNCHANGED <<at, resent>> /\ Stays

Remove ==
    /\ pc = "remove"
    /\ SetCkpt(at, "none")
    /\ pc' = "next"
    /\ at' = None
    /\ UNCHANGED <<node, row, late, sent, resent>> /\ Stays

\* Any error ends the command at the first checkpoint that meets one; the namespace's
\* earlier wallets, balances and heights do not pass the checks that follow.
RecoveryEnds ==
    /\ pc \in Recovering
    /\ pc = "next" => todo = {}
    /\ pc' = "down"
    /\ late' = IF pc = "resubmit" THEN late \cup {at} ELSE late
    /\ todo' = {} /\ at' = None /\ resent' = FALSE
    /\ UNCHANGED <<node, row, ckpt, sent, s4Vars>>

----------------------------------------------------------------------------

NodeMoves == NodeStep /\ UNCHANGED <<pc, s4Vars, recovery>>

Collector ==
    \/ \E t \in Tx : Collect(t) \/ Verified(t)
    \/ AllCollected \/ CollectDeadline \/ EndVerification
    \/ \E ok \in BOOLEAN : Refresh(ok)

Recovery ==
    \/ RunAgain \/ (\E t \in Tx : Load(t)) \/ Query \/ Resubmitted \/ Mark \/ Remove \/ RecoveryEnds

Next ==
    \/ NodeMoves
    \/ \E t \in Tx : TaskStep(t)
    \/ Expire \/ Collector \/ VerificationFails \/ ProcessEnds \/ Recovery

Spec == Init /\ [][Next]_vars

\* Time passes, and the command takes the step it can take.  Nothing is assumed of the
\* tasks: one may hang in its request for ever.
FairSpec == Spec /\ WF_vars(Expire) /\ WF_vars(Collector)

----------------------------------------------------------------------------
\* Properties.

\* A transaction that was ever handed to the network has its checkpoint on disk,
\* whatever became of the task that sent it, unless a recovery settled it: it is final,
\* or the node had refused it.
NothingLost == \A t \in sent :
    ckpt[t] = "none" => node[t] = "confirmed" \/ row[t] = "rejected"

\* S4 is a success only if every send that was asked for is final, on time or not.
SuccessIsFinal == pc = "done" /\ Status = "Ok" => \A t \in Tx : node[t] = "confirmed"

\* S4 emits one observation per requested call, aborted ones included (RUNBOOK.md 341).
OneObservationPerCall == pc = "done" => \A t \in Tx : obs[t] # "none"

\* What is on record stays: a send that goes on after its batch changes nothing of it.
ObservationStands ==
    [][\A t \in Tx : pc' # "down" /\ obs[t] # "none" => obs'[t] = obs[t]]_vars

\* S4 ends although sends hang: its batches have deadlines.
S4Ends == pc \in Sending ~> pc \notin Sending

\* An observation is called rejected only if the node does not hold its transaction.
RejectedIsNotHeld ==
    pc = "done" => \A t \in Tx : Outcome(t) = "rejected" => node[t] \notin {"mined", "confirmed"}

=============================================================================
