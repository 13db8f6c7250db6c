------------------------ MODULE SendDispatch_proofs ------------------------
(***************************************************************************)
(* Proofs about SendDispatch, for any sends in any batches.                *)
(***************************************************************************)
EXTENDS SendDispatch, TLAPS

\* From the checkpoint on, until the answer is written down, a task has its file.
TaskInv == \A t \in Tx :
    /\ task[t] \in {"held", "waiting", "accepted", "acceptedRow", "refused", "refusedRow"}
          => ckpt[t] = "prepared"
    /\ task[t] = "refusedRow" => row[t] = "rejected"

\* The file says rejected only after the row does.
FileInv == \A t \in Tx : ckpt[t] = "rejected" => row[t] = "rejected"

\* Recovery has the files to itself, and where it is says what it has found.
RecoveryInv ==
    /\ pc \notin Sending \cup {"done", "failed"} => \A t \in Tx : task[t] \in {"none", "gone"}
    /\ todo \subseteq Checkpointed \ {at}
    /\ at # None => ckpt[at] # "none"
    /\ pc \in {"query", "resubmit", "markAccepted", "reconcile"} => ckpt[at] # "rejected"
    /\ pc = "rejectCkpt" => row[at] = "rejected"
    /\ pc = "reconcile" => node[at] = "confirmed"
    /\ pc = "remove" => node[at] = "confirmed" \/ row[at] = "rejected"

\* NothingLost is not inductive: it says nothing of who may still remove a file.
DurableInv == NothingLost /\ TaskInv /\ FileInv /\ RecoveryInv

\* What is on record of the batches that have been.
RecordInv ==
    /\ \A t \in seen : node[t] = "confirmed"
    /\ \A t \in Tx : pc \in Sending \cup {"done"} /\ batchOf[t] < batch => obs[t] # "none"
    /\ \A t \in Tx : pc \in {"verify", "refresh", "done"} /\ batchOf[t] = batch => obs[t] # "none"
    /\ pc = "done" => Members(batch + 1) = {}

Inv == TypeOK /\ DurableInv /\ RecordInv

----------------------------------------------------------------------------
\* Facts about the parts.

\* What is final stays final, whatever the node does.
LEMMA FinalIsFinal ==
  ASSUME node \in [Tx -> Location], NodeStep \/ (\E t \in Tx, a \in Answer : Answers(t, a))
  PROVE  /\ node' \in [Tx -> Location]
         /\ \A t \in Tx : node[t] = "confirmed" => node'[t] = "confirmed"
BY DEF NodeStep, Mine, Bury, Reorg, Evict, ArriveLate, LoseLate, Moves, Answers, Location, Answer

\* Batches are numbered without gaps: beyond the last one there is none.
LEMMA NoBatchBeyond ==
  ASSUME TypeOK, Members(batch + 1) = {}, NEW t \in Tx
  PROVE  batchOf[t] < batch \/ batchOf[t] = batch
<1>1. batchOf \in [Tx -> Nat \ {0}] /\ batch \in Nat \ {0}
  BY BatchAssumption DEF TypeOK
<1>2. ASSUME batchOf[t] > batch
      PROVE  FALSE
  <2>1. batch + 1 \in 1..batchOf[t]
    BY <1>1, <1>2
  <2>2. PICK u \in Tx : batchOf[u] = batch + 1
    BY <2>1, BatchAssumption DEF TypeOK
  <2>. QED
    BY <2>2 DEF Members
<1>. QED
  BY <1>1, <1>2

----------------------------------------------------------------------------
\* Steps.

\* What a step of a task leaves alone.
LEMMA TaskAlone ==
  ASSUME Inv, NEW t \in Tx, TaskStep(t)
  PROVE  /\ UNCHANGED <<pc, batchOf, batch, overdue, cut, obs, seen, refreshed, todo, at, resent>>
         /\ pc \in Sending \cup {"done", "failed"}
         /\ \E stage \in Running \cup Returned \cup {"gone"} :
               task' = [task EXCEPT ![t] = stage]
         /\ \A u \in Tx \ {t} : row'[u] = row[u] /\ ckpt'[u] = ckpt[u]
<1>1. \E stage \in Running \cup Returned \cup {"gone"} : Goes(t, stage)
  BY DEF TaskStep, Construct, ConstructFails, Checkpoint, Submit, Answered, Unanswered,
         MarkTheRow, MarkTheFile, MarkFails, Dropped, Running, Returned, Answer
<1>2. /\ UNCHANGED <<pc, batchOf, batch, overdue, cut, obs, seen, refreshed, todo, at, resent>>
      /\ \E stage \in Running \cup Returned \cup {"gone"} :
            task' = [task EXCEPT ![t] = stage]
  BY <1>1 DEF Goes, recovery
<1>3. task[t] \notin {"none", "gone"}
  BY DEF TaskStep, Construct, ConstructFails, Checkpoint, Submit, Answered, Unanswered,
         MarkTheRow, MarkTheFile, MarkFails, Dropped, At
<1>4. pc \in Sending \cup {"done", "failed"}
  BY <1>3 DEF Inv, DurableInv, RecoveryInv
<1>5. \A u \in Tx \ {t} : row'[u] = row[u] /\ ckpt'[u] = ckpt[u]
  BY DEF TaskStep, Construct, ConstructFails, Checkpoint, Submit, Answered, Unanswered,
         MarkTheRow, MarkTheFile, MarkFails, Dropped, SetRow, SetCkpt, PersistPrepared,
         HandToNetwork, MarkRow, MarkCkpt, txVars, Inv, TypeOK, TxTypeOK
<1>. QED
  BY <1>2, <1>4, <1>5

\* A step of a task: what the sends do to their rows and files.
LEMMA TaskStepInv ==
  ASSUME Inv, NEW t \in Tx, TaskStep(t)
  PROVE  Inv'
<1>1. /\ UNCHANGED <<pc, batchOf, batch, overdue, cut, obs, seen, refreshed, todo, at, resent>>
      /\ pc \in Sending \cup {"done", "failed"}
      /\ \A u \in Tx \ {t} : row'[u] = row[u] /\ ckpt'[u] = ckpt[u] /\ task'[u] = task[u]
      /\ task' \in [Tx -> Running \cup Returned \cup {"none", "gone"}]
  BY TaskAlone DEF Inv, TypeOK
<1>2. /\ node' \in [Tx -> Location]
      /\ \A u \in Tx : node[u] = "confirmed" => node'[u] = "confirmed"
  <2>1. node \in [Tx -> Location]
    BY DEF Inv, TypeOK, TxTypeOK
  <2>2. UNCHANGED node \/ \E a \in Answer : Answers(t, a)
    BY DEF TaskStep, Construct, ConstructFails, Checkpoint, Submit, Answered, Unanswered,
           MarkTheRow, MarkTheFile, MarkFails, Dropped, PersistPrepared,
           HandToNetwork, MarkRow, MarkCkpt, txVars
  <2>. QED
    BY <2>1, <2>2, FinalIsFinal
<1>3. TxTypeOK'
  <2>1. /\ row' \in [Tx -> RowStatus]
        /\ ckpt' \in [Tx -> CkptState]
        /\ sent' \in SUBSET Tx
    BY DEF TaskStep, Construct, ConstructFails, Checkpoint, Submit, Answered, Unanswered,
           MarkTheRow, MarkTheFile, MarkFails, Dropped, SetRow, SetCkpt, PersistPrepared,
           HandToNetwork, MarkRow, MarkCkpt, txVars, Inv, TypeOK, TxTypeOK, RowStatus, CkptState
  <2>2. late' \in SUBSET Tx
    BY DEF TaskStep, Construct, ConstructFails, Checkpoint, Submit, Answered, Unanswered,
           MarkTheRow, MarkTheFile, MarkFails, Dropped, PersistPrepared,
           HandToNetwork, MarkRow, MarkCkpt, txVars, Inv, TypeOK, TxTypeOK
  <2>. QED
    BY <1>2, <2>1, <2>2 DEF TxTypeOK
<1>4. TypeOK'
  BY <1>1, <1>3 DEF Inv, TypeOK
<1>5. /\ task'[t] \in {"held", "waiting", "accepted", "acceptedRow", "refused", "refusedRow"}
           => ckpt'[t] = "prepared"
      /\ task'[t] = "refusedRow" => row'[t] = "rejected"
      /\ ckpt'[t] = "rejected" => row'[t] = "rejected"
      /\ t \in sent' /\ ckpt'[t] = "none" =>
            t \in sent /\ ckpt[t] = "none" /\ (row[t] = "rejected" => row'[t] = "rejected")
      /\ ckpt[t] # "none" => ckpt'[t] # "none"
      /\ sent' \subseteq sent \cup {t}
  BY DEF TaskStep, Construct, ConstructFails, Checkpoint, Submit, Answered, Unanswered,
         MarkTheRow, MarkTheFile, MarkFails, Dropped, SetRow, SetCkpt, PersistPrepared, Goes, At,
         HandToNetwork, MarkRow, MarkCkpt, Fresh, txVars, Inv, TypeOK, TxTypeOK, Answer,
         DurableInv, TaskInv, FileInv, RowStatus, CkptState
<1>6. TaskInv' /\ FileInv' /\ NothingLost'
  <2>1. TaskInv'
    BY <1>1, <1>5 DEF Inv, DurableInv, TaskInv
  <2>2. FileInv'
    BY <1>1, <1>5 DEF Inv, DurableInv, FileInv
  <2>3. ASSUME NEW u \in Tx, u \in sent', ckpt'[u] = "none"
        PROVE  node'[u] = "confirmed" \/ row'[u] = "rejected"
    <3>1. u \in sent /\ ckpt[u] = "none" /\ (row[u] = "rejected" => row'[u] = "rejected")
      BY <1>1, <1>5, <2>3
    <3>. QED
      BY <1>2, <3>1 DEF Inv, DurableInv, NothingLost
  <2>. QED
    BY <1>3, <2>1, <2>2, <2>3 DEF NothingLost, TxTypeOK
<1>7. RecoveryInv'
  <2>1. pc \notin Recovering /\ at = None
    BY <1>1 DEF Inv, TypeOK, Sending, Recovering
  <2>2. Checkpointed \subseteq Checkpointed'
    BY <1>1, <1>5 DEF Checkpointed
  <2>. QED
    BY <1>1, <2>1, <2>2 DEF Inv, DurableInv, RecoveryInv, Recovering
<1>8. RecordInv'
  BY <1>1, <1>2 DEF Inv, TypeOK, RecordInv, Members
<1>. QED
  BY <1>4, <1>6, <1>7, <1>8 DEF Inv, DurableInv

\* A step of the collector, the clock, or a failure of the verification: the records.
LEMMA CollectorStepInv ==
  ASSUME Inv, Expire \/ Collector \/ VerificationFails
  PROVE  Inv'
<1>1. /\ UNCHANGED <<txVars, recovery, batchOf>>
      /\ pc \in Sending
      /\ pc' \in Sending \cup {"done", "failed"}
  BY DEF Expire, Collector, VerificationFails, Collect, Verified, AllCollected, CollectDeadline,
         EndVerification, Refresh, s4Vars, Sending
<1>2. pc \notin Recovering /\ pc' \notin Recovering /\ at = None
  BY <1>1 DEF Inv, TypeOK, Sending, Recovering
<1>3. TypeOK'
  <2>1. batch' \in Nat \ {0}
    BY DEF Expire, Collector, VerificationFails, Collect, Verified, AllCollected,
           CollectDeadline, EndVerification, Refresh, s4Vars, Inv, TypeOK
  <2>2. overdue' \in BOOLEAN /\ cut' \in SUBSET Tx
    <3>1. pending \subseteq Tx
      BY DEF pending, Members
    <3>2. overdue \in BOOLEAN /\ cut \in SUBSET Tx
      BY DEF Inv, TypeOK
    <3>3. overdue' \in {overdue, TRUE, FALSE} /\ cut' \in {cut, cut \cup pending}
      BY DEF Expire, Collector, VerificationFails, Collect, Verified, AllCollected,
             CollectDeadline, EndVerification, Refresh, s4Vars
    <3>. QED
      BY <3>1, <3>2, <3>3
  <2>3. refreshed' \in BOOLEAN
    <3>1. refreshed \in BOOLEAN
      BY DEF Inv, TypeOK
    <3>2. refreshed' = refreshed \/ \E ok \in BOOLEAN : refreshed' = (refreshed /\ ok)
      BY DEF Expire, Collector, VerificationFails, Collect, Verified, AllCollected,
             CollectDeadline, EndVerification, Refresh, s4Vars
    <3>. QED
      BY <3>1, <3>2
  <2>4. /\ task' \in [Tx -> Running \cup Returned \cup {"none", "gone"}]
        /\ obs' \in [Tx -> Returned \cup {"none"}]
        /\ seen' \in SUBSET {t \in Tx : obs'[t] = "ok"}
    BY DEF Expire, Collector, VerificationFails, Collect, Verified, AllCollected,
           CollectDeadline, EndVerification, Refresh, Spawned, s4Vars, tx_ids, Members, pending,
           Inv, TypeOK, Running, Returned
  <2>. QED
    BY <1>1, <1>2, <2>1, <2>2, <2>3, <2>4 DEF Inv, TypeOK, TxTypeOK, txVars, recovery, Recovering, Sending
<1>4. \A t \in Tx : task'[t] \in {task[t], "ready"}
  BY DEF Expire, Collector, VerificationFails, Collect, Verified, AllCollected, CollectDeadline,
         EndVerification, Refresh, Spawned, s4Vars, Inv, TypeOK
<1>5. DurableInv'
  <2>1. NothingLost' /\ FileInv'
    BY <1>1 DEF Inv, DurableInv, NothingLost, FileInv, txVars
  <2>2. TaskInv'
    BY <1>1, <1>4 DEF Inv, DurableInv, TaskInv, txVars
  <2>3. RecoveryInv'
    BY <1>1, <1>2 DEF Inv, DurableInv, RecoveryInv, Checkpointed, txVars, recovery, Recovering
  <2>. QED
    BY <2>1, <2>2, <2>3 DEF DurableInv
<1>6. \A t \in seen' : node'[t] = "confirmed"
  BY <1>1 DEF Expire, Collector, VerificationFails, Collect, Verified, AllCollected,
         CollectDeadline, EndVerification, Refresh, s4Vars, txVars, Inv, RecordInv
<1>7. CASE UNCHANGED <<pc, batch>>
  <2>1. \A t \in Tx : obs[t] # "none" => obs'[t] # "none"
    BY DEF Expire, Collector, VerificationFails, Collect, Verified, AllCollected,
           CollectDeadline, EndVerification, Refresh, s4Vars, Inv, TypeOK, Returned
  <2>. QED
    BY <1>1, <1>3, <1>5, <1>6, <1>7, <2>1 DEF Inv, RecordInv, Members
<1>8. CASE AllCollected \/ CollectDeadline
  <2>1. /\ pc' = "verify" /\ UNCHANGED batch
        /\ \A t \in Members(batch) : obs'[t] # "none"
        /\ \A t \in Tx : obs[t] # "none" => obs'[t] # "none"
    BY <1>8 DEF AllCollected, CollectDeadline, pending, s4Vars, Inv, TypeOK, Members
  <2>. QED
    BY <1>1, <1>3, <1>5, <1>6, <2>1 DEF Inv, RecordInv, Members
<1>9. CASE EndVerification \/ VerificationFails
  BY <1>1, <1>3, <1>5, <1>6, <1>9 DEF EndVerification, VerificationFails, s4Vars, Inv, RecordInv, Members
<1>10. CASE \E ok \in BOOLEAN : Refresh(ok)
  <2>1. \A t \in Tx : batchOf[t] < batch \/ batchOf[t] = batch => obs[t] # "none"
    BY <1>10 DEF Refresh, Inv, RecordInv, Sending
  <2>2. obs' = obs
    BY <1>10 DEF Refresh
  <2>3. CASE batch' = batch + 1 /\ pc' = "collect"
    <3>1. \A t \in Tx : batchOf[t] < batch + 1 => batchOf[t] < batch \/ batchOf[t] = batch
      BY BatchAssumption DEF Inv, TypeOK
    <3>. QED
      BY <1>1, <1>3, <1>5, <1>6, <2>1, <2>2, <2>3, <3>1 DEF Inv, RecordInv
  <2>4. CASE batch' = batch /\ pc' = "done" /\ Members(batch + 1) = {}
    BY <1>1, <1>3, <1>5, <1>6, <2>1, <2>2, <2>4 DEF Inv, RecordInv, Members
  <2>. QED
    BY <1>10, <2>3, <2>4 DEF Refresh
<1>11. CASE \/ Expire
            \/ \E t \in Tx : Collect(t) \/ Verified(t)
  BY <1>3, <1>5, <1>7, <1>11 DEF Expire, Collect, Verified, Inv
<1>. QED
  BY <1>8, <1>9, <1>10, <1>11 DEF Collector

\* A step of the node.
LEMMA NodeStepInv ==
  ASSUME Inv, NodeMoves
  PROVE  Inv'
<1>1. UNCHANGED <<row, ckpt, sent, pc, batchOf, batch, overdue, task, cut, obs, seen, refreshed, todo, at, resent>>
  BY DEF NodeMoves, NodeStep, Mine, Bury, Reorg, Evict, ArriveLate, LoseLate, Moves, s4Vars, recovery
<1>2. /\ node' \in [Tx -> Location]
      /\ \A u \in Tx : node[u] = "confirmed" => node'[u] = "confirmed"
  BY FinalIsFinal DEF NodeMoves, Inv, TypeOK, TxTypeOK
<1>3. late' \in SUBSET Tx
  BY DEF NodeMoves, NodeStep, Mine, Bury, Reorg, Evict, ArriveLate, LoseLate, Moves, Inv, TypeOK, TxTypeOK
<1>4. TypeOK'
  BY <1>1, <1>2, <1>3 DEF Inv, TypeOK, TxTypeOK
<1>5. DurableInv'
  BY <1>1, <1>2 DEF Inv, TypeOK, TxTypeOK, DurableInv, NothingLost, TaskInv, FileInv, RecoveryInv, Checkpointed, Recovering
<1>6. RecordInv'
  BY <1>1, <1>2 DEF Inv, TypeOK, RecordInv, Members
<1>. QED
  BY <1>4, <1>5, <1>6 DEF Inv

\* The process ends: nothing durable changes, and no task is left.
LEMMA EndStepInv ==
  ASSUME Inv, ProcessEnds
  PROVE  Inv'
<1>1. /\ pc' = "down" /\ todo' = {} /\ at' = None /\ resent' = FALSE
      /\ obs' = [t \in Tx |-> "none"] /\ seen' = {} /\ cut' = {}
      /\ task' = [t \in Tx |-> IF task[t] = "none" THEN "none" ELSE "gone"]
      /\ UNCHANGED <<node, row, ckpt, sent, batchOf, batch, overdue, refreshed>>
  BY DEF ProcessEnds
<1>2. late' \in SUBSET Tx
  BY DEF ProcessEnds, Inv, TypeOK, TxTypeOK, Recovering
<1>3. TypeOK'
  BY <1>1, <1>2 DEF Inv, TypeOK, TxTypeOK, Recovering
<1>4. DurableInv'
  BY <1>1 DEF Inv, DurableInv, NothingLost, TaskInv, FileInv, RecoveryInv, Checkpointed
<1>5. RecordInv'
  BY <1>1 DEF RecordInv, Sending
<1>. QED
  BY <1>3, <1>4, <1>5 DEF Inv

\* A step of recovery: the only one that removes a file.
LEMMA RecoveryStepInv ==
  ASSUME Inv, Recovery
  PROVE  Inv'
<1>1. /\ pc \in Recovering \cup {"down"} /\ pc' \in Recovering \cup {"down"}
      /\ UNCHANGED <<batchOf, batch, overdue, task, cut, obs, seen, refreshed>>
  BY DEF Recovery, RunAgain, Load, Query, Resubmitted, Mark, Remove, RecoveryEnds, Stays, s4Vars,
         Recovering, Answer
<1>2. /\ node' \in [Tx -> Location]
      /\ \A u \in Tx : node[u] = "confirmed" => node'[u] = "confirmed"
  <2>1. node \in [Tx -> Location]
    BY DEF Inv, TypeOK, TxTypeOK
  <2>2. UNCHANGED node \/ (pc = "resubmit" /\ \E a \in Answer : Answers(at, a))
    BY DEF Recovery, RunAgain, Load, Query, Resubmitted, Mark, Remove, RecoveryEnds, MarkCkpt,
           MarkRow, txVars
  <2>3. pc = "resubmit" => at \in Tx
    BY DEF Inv, TypeOK, Recovering
  <2>. QED
    BY <2>1, <2>2, <2>3, FinalIsFinal
<1>3. TypeOK'
  <2>1. /\ todo' \in SUBSET Tx /\ at' \in Tx \cup {None} /\ resent' \in BOOLEAN
        /\ (at' = None) = (pc' \notin Recovering \ {"next"})
    BY NoneIsNoTx DEF Recovery, RunAgain, Load, Query, Resubmitted, Mark, Remove, RecoveryEnds, Stays,
           Inv, TypeOK, Recovering, Checkpointed, Answer, Sending
  <2>2. row' \in [Tx -> RowStatus] /\ ckpt' \in [Tx -> CkptState]
    BY DEF Recovery, RunAgain, Load, Query, Resubmitted, Mark, Remove, RecoveryEnds, SetRow, SetCkpt,
           MarkRow, MarkCkpt, txVars, Inv, TypeOK, TxTypeOK, RowStatus, CkptState
  <2>3. late' \in SUBSET Tx /\ sent' \in SUBSET Tx
    BY DEF Recovery, RunAgain, Load, Query, Resubmitted, Mark, Remove, RecoveryEnds,
           MarkRow, MarkCkpt, txVars, Inv, TypeOK, TxTypeOK, Recovering
  <2>. QED
    BY <1>1, <1>2, <2>1, <2>2, <2>3 DEF Inv, TypeOK, TxTypeOK
<1>4. RecordInv'
  BY <1>1, <1>2 DEF Inv, TypeOK, RecordInv, Sending, Recovering
<1>5. TaskInv'
  <2>1. \A t \in Tx : task'[t] \in {"none", "gone"}
    BY <1>1 DEF Inv, DurableInv, RecoveryInv, Recovering, Sending
  <2>. QED
    BY <2>1 DEF TaskInv
<1>6. FileInv'
  BY DEF Recovery, RunAgain, Load, Query, Resubmitted, Mark, Remove, RecoveryEnds, SetRow, SetCkpt,
         MarkRow, MarkCkpt, txVars, Inv, TypeOK, TxTypeOK, DurableInv, FileInv, RecoveryInv
<1>7. NothingLost'
  <2>1. CASE Remove
    BY <1>2, <2>1 DEF Remove, SetCkpt, Inv, TypeOK, TxTypeOK, DurableInv, NothingLost, RecoveryInv
  <2>2. CASE Mark
    BY <1>2, <2>2 DEF Mark, SetRow, SetCkpt, MarkRow, MarkCkpt, Inv, TypeOK, TxTypeOK, DurableInv,
         NothingLost, RecoveryInv, Recovering
  <2>3. CASE Query
    BY <1>2, <2>3 DEF Query, Inv, TypeOK, TxTypeOK, DurableInv, NothingLost, RecoveryInv, Recovering
  <2>4. CASE Resubmitted
    BY <1>2, <2>4 DEF Resubmitted, Inv, TypeOK, TxTypeOK, DurableInv, NothingLost
  <2>5. CASE RunAgain \/ (\E t \in Tx : Load(t)) \/ RecoveryEnds
    BY <1>2, <2>5 DEF RunAgain, Load, RecoveryEnds, txVars, Inv, TypeOK, TxTypeOK, DurableInv, NothingLost
  <2>. QED
    BY <2>1, <2>2, <2>3, <2>4, <2>5 DEF Recovery
<1>8. RecoveryInv'
  <2>1. CASE Remove
    BY <1>1, <2>1, NoneIsNoTx DEF Remove, SetCkpt, Stays, s4Vars, Inv, TypeOK, TxTypeOK, DurableInv, RecoveryInv,
       Recovering, Checkpointed, Sending
  <2>2. CASE Mark
    BY <1>1, <2>2 DEF Mark, SetRow, SetCkpt, MarkRow, MarkCkpt, Stays, s4Vars, Inv, TypeOK, TxTypeOK,
       DurableInv, RecoveryInv, Recovering, Checkpointed, Sending
  <2>3. CASE Query
    BY <1>1, <2>3, NoneIsNoTx DEF Query, Stays, s4Vars, Inv, TypeOK, TxTypeOK, DurableInv, RecoveryInv, Recovering,
       Checkpointed, Sending
  <2>4. CASE Resubmitted
    BY <1>1, <2>4 DEF Resubmitted, Stays, s4Vars, Inv, TypeOK, TxTypeOK, DurableInv, RecoveryInv,
       Recovering, Checkpointed, Sending, Answer
  <2>5. CASE RunAgain \/ RecoveryEnds
    BY <1>1, <2>5, NoneIsNoTx DEF RunAgain, RecoveryEnds, txVars, Inv, TypeOK, DurableInv, RecoveryInv, Recovering,
       Checkpointed, Sending
  <2>6. ASSUME NEW t \in Tx, Load(t)
        PROVE  RecoveryInv'
    BY <1>1, <2>6 DEF Load, KnownRejected, txVars, Inv, TypeOK, DurableInv, FileInv, RecoveryInv,
       Recovering, Checkpointed, Sending
  <2>. QED
    BY <2>1, <2>2, <2>3, <2>4, <2>5, <2>6 DEF Recovery
<1>. QED
  BY <1>3, <1>4, <1>5, <1>6, <1>7, <1>8 DEF Inv, DurableInv

----------------------------------------------------------------------------

LEMMA InitInv ==
  ASSUME Init
  PROVE  Inv
<1>1. TypeOK
  <2>1. TxTypeOK
    BY DEF Init, TxInit, TxTypeOK, Location, RowStatus, CkptState
  <2>2. /\ task \in [Tx -> Running \cup Returned \cup {"none", "gone"}]
        /\ obs \in [Tx -> Returned \cup {"none"}]
    BY DEF Init, Running, Returned
  <2>3. /\ pc = "collect" /\ at = None
        /\ batchOf \in Configs /\ batch = 1 /\ overdue = FALSE
    BY DEF Init
  <2>5. pc \in Sending /\ pc \notin Recovering
    BY <2>3 DEF Sending, Recovering
  <2>4. /\ cut \in SUBSET Tx /\ seen \in SUBSET {t \in Tx : obs[t] = "ok"}
        /\ refreshed \in BOOLEAN /\ todo \in SUBSET Tx /\ at \in Tx \cup {None}
        /\ resent \in BOOLEAN
    BY DEF Init
  <2>6. batch \in Nat \ {0}
    BY <2>3
  <2>7. overdue \in BOOLEAN
    BY <2>3
  <2>8. (at = None) = (pc \notin Recovering \ {"next"})
    BY <2>3, <2>5
  <2>. QED
    BY <2>1, <2>2, <2>3, <2>4, <2>5, <2>6, <2>7, <2>8 DEF TypeOK
<1>2. DurableInv
  BY DEF Init, TxInit, DurableInv, NothingLost, TaskInv, FileInv, RecoveryInv, Sending, Checkpointed
<1>3. RecordInv
  BY <1>1, BatchAssumption DEF Init, TypeOK, RecordInv
<1>. QED
  BY <1>1, <1>2, <1>3 DEF Inv

LEMMA NextInv ==
  ASSUME Inv, [Next]_vars
  PROVE  Inv'
<1>1. CASE UNCHANGED vars
  BY <1>1 DEF vars, txVars, s4Vars, recovery, Inv, TypeOK, TxTypeOK, DurableInv, NothingLost, TaskInv,
              FileInv, RecoveryInv, Checkpointed, RecordInv, Members
<1>2. CASE Next
  BY <1>2, NodeStepInv, TaskStepInv, CollectorStepInv, EndStepInv, RecoveryStepInv DEF Next
<1>. QED
  BY <1>1, <1>2

\* At the end every attempt has its observation, and a success is final.
LEMMA InvSuffices ==
  ASSUME Inv
  PROVE  OneObservationPerCall /\ SuccessIsFinal
<1>1. OneObservationPerCall
  <2>1. ASSUME pc = "done", NEW t \in Tx
        PROVE  obs[t] # "none"
    <3>1. batchOf[t] < batch \/ batchOf[t] = batch
      BY <2>1, NoBatchBeyond DEF Inv, RecordInv
    <3>. QED
      BY <2>1, <3>1 DEF Inv, RecordInv
  <2>. QED
    BY <2>1 DEF OneObservationPerCall
<1>2. SuccessIsFinal
  BY DEF SuccessIsFinal, Status, Inv, RecordInv
<1>. QED
  BY <1>1, <1>2

\* For any number of sends in any batches: whatever was handed to the network keeps its
\* checkpoint until it is final or known to be refused; S4's success means that every
\* send is final; and every requested call has its observation.
THEOREM SendsCorrect == Spec => [](TypeOK /\ NothingLost /\ SuccessIsFinal /\ OneObservationPerCall)
<1>1. Inv => TypeOK /\ NothingLost /\ SuccessIsFinal /\ OneObservationPerCall
  BY InvSuffices DEF Inv, DurableInv
<1>. QED
  BY InitInv, NextInv, <1>1, PTL DEF Spec

\* What is on record of an attempt is not changed while the command runs.
THEOREM RecordStands == Spec => ObservationStands
<1>1. ASSUME Inv, [Next]_vars, NEW t \in Tx, pc' # "down", obs[t] # "none"
      PROVE  obs'[t] = obs[t]
  BY <1>1, TaskAlone DEF Next, NodeMoves, Expire, Collector, VerificationFails, Collect, Verified,
     AllCollected, CollectDeadline, EndVerification, Refresh, pending, ProcessEnds, Recovery, RunAgain,
     Load, Query, Resubmitted, Mark, Remove, RecoveryEnds, Stays, s4Vars, vars, Inv, TypeOK, Members
<1>2. Inv /\ [Next]_vars =>
        [\A t \in Tx : pc' # "down" /\ obs[t] # "none" => obs'[t] = obs[t]]_vars
  BY <1>1
<1>. QED
  BY InitInv, NextInv, <1>2, PTL DEF Spec, ObservationStands

=============================================================================
