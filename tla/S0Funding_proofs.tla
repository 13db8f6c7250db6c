------------------------- MODULE S0Funding_proofs -------------------------
(***************************************************************************)
(* Proofs about S0Funding.  The inductive invariant relates each place of  *)
(* an invocation to the durable records it has behind it.                  *)
(***************************************************************************)
EXTENDS S0Funding, TLAPS

Active(n) == ~At(n, "down")

\* Places at which the invocation holds a transaction whose records are complete.
Holding  == {"query", "resubmit", "resubmitting", "recordAccepted", "pause", "reconcile",
             "submit", "submitting", "markRow", "markCkpt"}
Calling  == {"submitting", "resubmitting"}
Building == {"close", "complete", "prepare"}
Creating == Building \cup {"submit", "submitting", "markRow", "markCkpt", "record"}

WithTx   == {"query", "resubmit", "resubmitting", "recordAccepted", "pause", "reconcile"}
              \cup Signing \cup Sending \cup Rejecting

\* Where an invocation needs a transaction it has one, and it waits for the node only
\* inside a submission.
HandInv == \A n \in Namespace :
    /\ pc[n] \in WithTx => hand[n] \in Tx
    /\ call[n] # "idle" => pc[n] \in Calling

TypeInv == TypeOK /\ HandInv

\* What the network has seen was handed to it.
NodeInv ==
    /\ \A t \in Tx : node[t] # "notStored" => t \in sent
    /\ late \subseteq sent

\* One invocation at a time.
SerialInv == \A m, n \in Namespace : Active(m) /\ Active(n) => m = n

\* What an invocation knows of the records of the transaction it holds.
PlaceInv(n) ==
    LET t == hand[n] IN
    /\ pc[n] \in {"down", "load"} => t = None
    /\ pc[n] \in Calling => t \in sent
    /\ pc[n] \in Holding =>
          row[t] \in {"completed", "broadcast"} /\ ckpt[t] \in {"prepared", "accepted"}
    /\ pc[n] \in Preparing /\ t # None => row[t] \in CompletedRow /\ ckpt[t] # "none"
    /\ pc[n] = "close" => row[t] = "locked"
    /\ pc[n] = "complete" => row[t] = "closed"
    /\ pc[n] = "prepare" => row[t] = "completed"
    /\ pc[n] = "record" => row[t] \in CompletedRow
    /\ pc[n] \in Rejecting => row[t] \in CompletedRow /\ ckpt[t] # "none"
    /\ pc[n] \in {"rejectCkpt", "rejected"} => row[t] = "rejected"

\* RecordsAgree and RejectedNotResubmitted follow from this.
RecordsInv ==
    /\ TypeInv
    /\ NodeInv
    /\ SerialInv
    /\ \A n \in Namespace : PlaceInv(n)
    /\ RecordsAgree

----------------------------------------------------------------------------
\* Types.

\* An evidence record stays one when its status changes.
LEMMA StatusUpdate ==
  ASSUME NEW e \in [status : Status, tx : Tx \cup {None}], NEW s \in Status
  PROVE  [e EXCEPT !.status = s] \in [status : Status, tx : Tx \cup {None}]
  OBVIOUS

\* Every step keeps the variables in their types.
LEMMA TypeStep ==
  ASSUME TypeInv, [Next]_vars
  PROVE  TypeInv'
<1>. USE DEF TypeInv, TypeOK, TxTypeOK, Location, RowStatus, CkptState, Answer, Call, Status,
            Place, Recovering, Preparing, Signing, Sending, Rejecting, Observing, Settling,
            HandInv, WithTx, Calling, At, Goto, Jump, SetRow, SetCkpt, MarkRow, MarkCkpt,
            nsVars, memory, txVars
<1>1. CASE Network
  <2>. SUFFICES ASSUME NEW t \in Tx,
                      \/ Mine(t) \/ Bury(t) \/ Reorg(t) \/ Evict(t) \/ ArriveLate(t)
                      \/ LoseLate(t)
               PROVE  TypeInv'
    BY <1>1 DEF Network, NodeStep
  <2>1. node' \in [Tx -> Location]
    BY DEF Moves, Mine, Bury, Reorg, Evict, ArriveLate, LoseLate, Answers
  <2>2. late' \in SUBSET Tx
    BY DEF Moves, Mine, Bury, Reorg, Evict, ArriveLate, LoseLate
  <2>3. UNCHANGED <<row, ckpt, sent, memory, nsVars>>
    BY <1>1 DEF Network, Moves, Mine, Bury, Reorg, Evict, ArriveLate, LoseLate
  <2>. QED
    BY <2>1, <2>2, <2>3
<1>2. ASSUME NEW n \in Namespace, Start(n) PROVE TypeInv'
  <2>1. TypeOK'
    BY <1>2 DEF Start
  <2>2. HandInv'
    BY <1>2 DEF Start
  <2>. QED
    BY <2>1, <2>2
<1>3. ASSUME NEW n \in Namespace, LoadNone(n) PROVE TypeInv'
  BY <1>3 DEF LoadNone
<1>4. ASSUME NEW n \in Namespace, LoadOne(n) PROVE TypeInv'
  BY <1>4 DEF LoadOne
<1>5. ASSUME NEW n \in Namespace, Query(n) PROVE TypeInv'
  BY <1>5 DEF Query
<1>6. ASSUME NEW n \in Namespace, Resubmit(n) PROVE TypeInv'
  BY <1>6 DEF Resubmit, Send, HandToNetwork
<1>7. ASSUME NEW n \in Namespace, ResubmitAnswered(n) PROVE TypeInv'
  <2>1. CASE Reads(n, "resubmitting", "accepted", "recordAccepted")
    BY <2>1 DEF Reads
  <2>2. CASE Reads(n, "resubmitting", "alreadyMined", "pause")
    BY <2>2 DEF Reads
  <2>3. CASE Reads(n, "resubmitting", "refused", "rejectRow")
    BY <2>3 DEF Reads
  <2>. QED
    BY <1>7, <2>1, <2>2, <2>3 DEF ResubmitAnswered
<1>8. ASSUME NEW n \in Namespace, RecordAccepted(n) PROVE TypeInv'
  BY <1>8 DEF RecordAccepted
<1>9. ASSUME NEW n \in Namespace, PollAgain(n) PROVE TypeInv'
  BY <1>9 DEF PollAgain
<1>10. ASSUME NEW n \in Namespace, RecoveredPending(n) PROVE TypeInv'
  BY <1>10 DEF RecoveredPending
<1>11. ASSUME NEW n \in Namespace, Reconcile(n) PROVE TypeInv'
  BY <1>11 DEF Reconcile
<1>12. ASSUME NEW n \in Namespace, Checks(n) PROVE TypeInv'
  <2>1. TypeOK'
    BY <1>12 DEF Checks
  <2>2. HandInv'
    BY <1>12 DEF Checks
  <2>. QED
    BY <2>1, <2>2
<1>13. ASSUME NEW n \in Namespace, WriteInitialized(n) PROVE TypeInv'
  <2>1. evidence' \in [Namespace -> [status : Status, tx : Tx \cup {None}]]
    <3>1. evidence' = [evidence EXCEPT ![n].status = "initialized"]
      BY <1>13 DEF WriteInitialized
    <3>2. evidence[n] \in [status : Status, tx : Tx \cup {None}] /\ "initialized" \in Status
      OBVIOUS
    <3>3. [evidence[n] EXCEPT !.status = "initialized"] \in [status : Status, tx : Tx \cup {None}]
      BY <3>2, StatusUpdate
    <3>. QED
      BY <3>1, <3>3
  <2>2. pc' \in [Namespace -> Place]
    BY <1>13 DEF WriteInitialized
  <2>3. TypeOK'
    BY <1>13, <2>1, <2>2 DEF WriteInitialized
  <2>4. HandInv'
    BY <1>13 DEF WriteInitialized
  <2>. QED
    BY <2>3, <2>4
<1>14. ASSUME NEW n \in Namespace, ReadEvidence(n) PROVE TypeInv'
  <2>1. TypeOK'
    BY <1>14 DEF ReadEvidence
  <2>2. HandInv'
    BY <1>14 DEF ReadEvidence
  <2>. QED
    BY <2>1, <2>2
<1>15. ASSUME NEW n \in Namespace, InitializeWallets(n) PROVE TypeInv'
  BY <1>15 DEF InitializeWallets
<1>16. ASSUME NEW n \in Namespace, Adopt(n) PROVE TypeInv'
  BY <1>16 DEF Adopt, RecordSubmission
<1>17. ASSUME NEW n \in Namespace, SubmissionKnown(n) PROVE TypeInv'
  <2>1. TypeOK'
    BY <1>17 DEF SubmissionKnown
  <2>2. HandInv'
    BY <1>17 DEF SubmissionKnown
  <2>. QED
    BY <2>1, <2>2
<1>18. ASSUME NEW n \in Namespace, Construct(n) PROVE TypeInv'
  BY <1>18 DEF Construct, LockFunds
<1>19. ASSUME NEW n \in Namespace, PersistPending(n) PROVE TypeInv'
  BY <1>19 DEF PersistPending, ClosePending
<1>20. ASSUME NEW n \in Namespace, PersistSigned(n) PROVE TypeInv'
  BY <1>20 DEF PersistSigned, CreateCompleted
<1>21. ASSUME NEW n \in Namespace, PersistCheckpoint(n) PROVE TypeInv'
  BY <1>21 DEF PersistCheckpoint, PersistPrepared
<1>22. ASSUME NEW n \in Namespace, Submit(n) PROVE TypeInv'
  BY <1>22 DEF Submit, Send, HandToNetwork
<1>23. ASSUME NEW n \in Namespace, SubmitAnswered(n) PROVE TypeInv'
  <2>1. CASE Reads(n, "submitting", "accepted", "markRow")
    BY <2>1 DEF Reads
  <2>2. CASE Reads(n, "submitting", "refused", "rejectRow")
    BY <2>2 DEF Reads
  <2>. QED
    BY <1>23, <2>1, <2>2 DEF SubmitAnswered
<1>24. ASSUME NEW n \in Namespace, MarkRowBroadcast(n) PROVE TypeInv'
  BY <1>24 DEF MarkRowBroadcast
<1>25. ASSUME NEW n \in Namespace, MarkCkptAccepted(n) PROVE TypeInv'
  BY <1>25 DEF MarkCkptAccepted
<1>26. ASSUME NEW n \in Namespace, RecordBroadcast(n) PROVE TypeInv'
  BY <1>26 DEF RecordBroadcast, RecordSubmission
<1>27. ASSUME NEW n \in Namespace, RejectRow(n) PROVE TypeInv'
  BY <1>27 DEF RejectRow
<1>28. ASSUME NEW n \in Namespace, RejectCkpt(n) PROVE TypeInv'
  BY <1>28 DEF RejectCkpt
<1>29. ASSUME NEW n \in Namespace, Observe(n) PROVE TypeInv'
  BY <1>29 DEF Observe
<1>30. ASSUME NEW n \in Namespace, ObserveAgain(n) PROVE TypeInv'
  <2>1. TypeOK'
    BY <1>30 DEF ObserveAgain
  <2>2. HandInv'
    BY <1>30 DEF ObserveAgain
  <2>. QED
    BY <2>1, <2>2
<1>31. ASSUME NEW n \in Namespace, RecordConfirmed(n) PROVE TypeInv'
  <2>1. evidence' \in [Namespace -> [status : Status, tx : Tx \cup {None}]]
    <3>1. evidence' = [evidence EXCEPT ![n].status = "confirmed"]
      BY <1>31 DEF RecordConfirmed
    <3>2. evidence[n] \in [status : Status, tx : Tx \cup {None}] /\ "confirmed" \in Status
      OBVIOUS
    <3>3. [evidence[n] EXCEPT !.status = "confirmed"] \in [status : Status, tx : Tx \cup {None}]
      BY <3>2, StatusUpdate
    <3>. QED
      BY <3>1, <3>3
  <2>2. pc' \in [Namespace -> Place]
    BY <1>31 DEF RecordConfirmed
  <2>3. TypeOK'
    BY <1>31, <2>1, <2>2 DEF RecordConfirmed
  <2>4. HandInv'
    BY <1>31 DEF RecordConfirmed
  <2>. QED
    BY <2>3, <2>4
<1>32. ASSUME NEW n \in Namespace, RecipientsReady(n) PROVE TypeInv'
  <2>1. doomed' \in [Namespace -> SUBSET Tx]
    BY <1>32 DEF RecipientsReady, Checkpointed
  <2>2. TypeOK'
    BY <1>32, <2>1 DEF RecipientsReady
  <2>3. HandInv'
    BY <1>32 DEF RecipientsReady
  <2>. QED
    BY <2>2, <2>3
<1>33. ASSUME NEW n \in Namespace, RemoveCheckpoint(n) PROVE TypeInv'
  BY <1>33 DEF RemoveCheckpoint
<1>34. ASSUME NEW n \in Namespace, Finish(n) PROVE TypeInv'
  BY <1>34 DEF Finish, Vanish, Unlock
<1>35. ASSUME NEW n \in Namespace, Bail(n) PROVE TypeInv'
  BY <1>35 DEF Bail, Vanish, Unlock
<1>36. ASSUME NEW n \in Namespace, NodeAnswers(n) PROVE TypeInv'
  <2>1. PICK answer \in Answer :
            Answers(hand[n], answer) /\ call' = [call EXCEPT ![n] = answer]
    BY <1>36 DEF NodeAnswers
  <2>2. node' \in [Tx -> Location]
    BY <2>1 DEF Answers
  <2>. QED
    BY <1>36, <2>1, <2>2 DEF NodeAnswers
<1>37. ASSUME NEW n \in Namespace, Deadline(n) PROVE TypeInv'
  BY <1>37 DEF Deadline, Vanish, Unlock
<1>38. ASSUME NEW n \in Namespace, Fault(n) PROVE TypeInv'
  BY <1>38 DEF Fault, Vanish, Unlock
<1>39. ASSUME NEW n \in Namespace, Kill(n) PROVE TypeInv'
  BY <1>39 DEF Kill, Vanish
<1>40. CASE UNCHANGED vars
  BY <1>40 DEF vars, txVars, memory, nsVars
<1>. QED
  BY <1>1, <1>2, <1>3, <1>4, <1>5, <1>6, <1>7, <1>8, <1>9, <1>10, <1>11, <1>12, <1>13,
    <1>14, <1>15, <1>16, <1>17, <1>18, <1>19, <1>20, <1>21, <1>22, <1>23, <1>24, <1>25,
    <1>26, <1>27, <1>28, <1>29, <1>30, <1>31, <1>32, <1>33, <1>34, <1>35, <1>36, <1>37,
    <1>38, <1>39, <1>40 DEF Next, Progress, Recover, Prepare, Broadcast, Settle

\* Every variable keeps its type, whatever the operator does.
THEOREM TypeCorrect == Spec => []TypeOK
<1>1. Init => TypeInv
  BY DEF Init, TxInit, TypeInv, TypeOK, TxTypeOK, Location, RowStatus, CkptState, Call,
         Answer, Status, Place, HandInv, WithTx, Signing, Sending, Rejecting
<1>2. TypeInv /\ [Next]_vars => TypeInv'
  BY TypeStep
<1>3. TypeInv => TypeOK
  BY DEF TypeInv
<1>. QED
  BY <1>1, <1>2, <1>3, PTL DEF Spec

\* What the network holds was handed to it: every step keeps it so.
LEMMA NodeInvStep ==
  ASSUME TypeInv, NodeInv, \A n \in Namespace : pc[n] \in Calling => hand[n] \in sent, [Next]_vars
  PROVE  NodeInv'
<1>. USE DEF TypeInv, TypeOK, TxTypeOK, HandInv, WithTx, Calling, At, Goto, Jump, SetRow,
           SetCkpt, MarkRow, MarkCkpt, nsVars, memory, txVars, NodeInv
<1>1. CASE Network
  BY <1>1 DEF Network, NodeStep, Moves, Mine, Bury, Reorg, Evict, ArriveLate, LoseLate,
    Answers
<1>2. ASSUME NEW n \in Namespace,
            \/ Start(n) \/ LoadNone(n) \/ LoadOne(n) \/ Query(n) \/ ResubmitAnswered(n)
            \/ RecordAccepted(n) \/ PollAgain(n) \/ RecoveredPending(n) \/ Reconcile(n)
            \/ Checks(n) \/ WriteInitialized(n) \/ ReadEvidence(n)
            \/ InitializeWallets(n) \/ Adopt(n) \/ SubmissionKnown(n) \/ Construct(n)
            \/ PersistPending(n) \/ PersistSigned(n) \/ PersistCheckpoint(n)
            \/ SubmitAnswered(n) \/ MarkRowBroadcast(n) \/ MarkCkptAccepted(n)
            \/ RecordBroadcast(n) \/ RejectRow(n) \/ RejectCkpt(n) \/ Observe(n)
            \/ ObserveAgain(n) \/ RecordConfirmed(n) \/ RecipientsReady(n)
            \/ RemoveCheckpoint(n)
     PROVE  NodeInv'
  BY <1>2 DEF Start, LoadNone, LoadOne, Query, ResubmitAnswered, Reads, RecordAccepted,
    PollAgain, RecoveredPending, Reconcile, Checks, WriteInitialized, ReadEvidence,
    InitializeWallets, Adopt, RecordSubmission, SubmissionKnown, Construct, LockFunds,
    PersistPending, ClosePending, PersistSigned, CreateCompleted, PersistCheckpoint,
    PersistPrepared, SubmitAnswered, MarkRowBroadcast, MarkCkptAccepted, RecordBroadcast,
    RejectRow, RejectCkpt, Observe, ObserveAgain, RecordConfirmed, RecipientsReady,
    Checkpointed, RemoveCheckpoint
<1>3. ASSUME NEW n \in Namespace, Resubmit(n) PROVE NodeInv'
  BY <1>3 DEF Resubmit, Send, HandToNetwork
<1>4. ASSUME NEW n \in Namespace, Submit(n) PROVE NodeInv'
  BY <1>4 DEF Submit, Send, HandToNetwork
<1>5. ASSUME NEW n \in Namespace,
            \/ Finish(n) \/ Bail(n) \/ Deadline(n) \/ Fault(n) \/ Kill(n)
     PROVE  NodeInv'
  BY <1>5 DEF Finish, Vanish, Unlock, Bail, Deadline, Fault, Kill
<1>6. ASSUME NEW n \in Namespace, NodeAnswers(n) PROVE NodeInv'
  BY <1>6 DEF NodeAnswers, Answers
<1>7. CASE UNCHANGED vars
  BY <1>7 DEF vars, txVars, memory, nsVars
<1>. QED
  BY <1>1, <1>2, <1>3, <1>4, <1>5, <1>6, <1>7 DEF Next, Progress, Recover, Prepare,
    Broadcast, Settle

\* An operator who runs one invocation at a time: every step keeps it so.
LEMMA SerialStep ==
  ASSUME Discipline # "none", TypeInv, SerialInv, [Next]_vars
  PROVE  SerialInv'
<1>. USE DEF TypeInv, TypeOK, TxTypeOK, HandInv, WithTx, Calling, At, Goto, Jump, SetRow,
           SetCkpt, MarkRow, MarkCkpt, nsVars, memory, txVars, SerialInv, Active
<1>1. CASE Network
  BY <1>1 DEF Network, NodeStep, Moves, Mine, Bury, Reorg, Evict, ArriveLate, LoseLate,
    Answers
<1>2. ASSUME NEW n \in Namespace, Start(n) PROVE SerialInv'
  BY <1>2 DEF Start, MayStart
<1>3. ASSUME NEW n \in Namespace,
            \/ LoadNone(n) \/ LoadOne(n) \/ Query(n) \/ Resubmit(n)
            \/ ResubmitAnswered(n) \/ RecordAccepted(n) \/ PollAgain(n)
            \/ RecoveredPending(n) \/ Reconcile(n) \/ Checks(n) \/ WriteInitialized(n)
            \/ ReadEvidence(n) \/ InitializeWallets(n) \/ Adopt(n) \/ SubmissionKnown(n)
            \/ Construct(n) \/ PersistPending(n) \/ PersistSigned(n)
            \/ PersistCheckpoint(n) \/ Submit(n) \/ SubmitAnswered(n)
            \/ MarkRowBroadcast(n) \/ MarkCkptAccepted(n) \/ RecordBroadcast(n)
            \/ RejectRow(n) \/ RejectCkpt(n) \/ Observe(n) \/ ObserveAgain(n)
            \/ RecordConfirmed(n) \/ RecipientsReady(n) \/ RemoveCheckpoint(n)
            \/ NodeAnswers(n)
     PROVE  SerialInv'
  BY <1>3 DEF LoadNone, LoadOne, Query, Resubmit, Send, HandToNetwork, ResubmitAnswered,
    Reads, RecordAccepted, PollAgain, RecoveredPending, Reconcile, Checks, WriteInitialized,
    ReadEvidence, InitializeWallets, Adopt, RecordSubmission, SubmissionKnown, Construct,
    LockFunds, PersistPending, ClosePending, PersistSigned, CreateCompleted,
    PersistCheckpoint, PersistPrepared, Submit, SubmitAnswered, MarkRowBroadcast,
    MarkCkptAccepted, RecordBroadcast, RejectRow, RejectCkpt, Observe, ObserveAgain,
    RecordConfirmed, RecipientsReady, Checkpointed, RemoveCheckpoint, NodeAnswers, Answers
<1>4. ASSUME NEW n \in Namespace,
            \/ Finish(n) \/ Bail(n) \/ Deadline(n) \/ Fault(n) \/ Kill(n)
     PROVE  SerialInv'
  BY <1>4 DEF Finish, Vanish, Unlock, Bail, Deadline, Fault, Kill
<1>5. CASE UNCHANGED vars
  BY <1>5 DEF vars, txVars, memory, nsVars
<1>. QED
  BY <1>1, <1>2, <1>3, <1>4, <1>5 DEF Next, Progress, Recover, Prepare,
    Broadcast, Settle

\* An invocation finds the records it left: every step keeps PlaceInv.
LEMMA PlaceStep ==
  ASSUME RecordsInv, TypeInv', SerialInv', NEW m \in Namespace, [Next]_vars
  PROVE  PlaceInv(m)'
<1>a. \A t \in Tx : ckpt[t] # "none" /\ ~KnownRejected(t) =>
          ckpt[t] \in {"prepared", "accepted"} /\ row[t] \in {"completed", "broadcast"}
  BY DEF RecordsInv, RecordsAgree, CompletedRow, KnownRejected, TypeInv, TypeOK, TxTypeOK,
         CkptState
<1>. USE DEF TypeInv, TypeOK, TxTypeOK, HandInv, WithTx, Calling, At, Goto, Jump, SetRow,
           SetCkpt, MarkRow, MarkCkpt, nsVars, memory, txVars, PlaceInv, Holding, Preparing,
           Rejecting, Active, SerialInv, RecordsInv, RecordsAgree, HasSubmission, CompletedRow,
           Checkpointed, KnownRejected, NodeInv
<1>1. CASE Network
  BY <1>1 DEF Network, NodeStep, Moves, Mine, Bury, Reorg, Evict, ArriveLate, LoseLate,
    Answers
<1>2. ASSUME NEW n \in Namespace, Start(n) PROVE PlaceInv(m)'
  BY <1>2 DEF Start
<1>3. ASSUME NEW n \in Namespace, LoadNone(n) PROVE PlaceInv(m)'
  BY <1>3 DEF LoadNone
<1>4. ASSUME NEW n \in Namespace, LoadOne(n) PROVE PlaceInv(m)'
  <2>1. PICK t \in Tx : Checkpointed = {t} /\ ~KnownRejected(t) /\ hand' = [hand EXCEPT ![n] = t]
    BY <1>4 DEF LoadOne
  <2>2. ckpt[t] \in {"prepared", "accepted"} /\ row[t] \in {"completed", "broadcast"}
    BY <1>a, <2>1
  <2>. QED
    BY <1>4, <2>1, <2>2 DEF LoadOne
<1>5. ASSUME NEW n \in Namespace, Query(n) PROVE PlaceInv(m)'
  BY <1>5 DEF Query
<1>6. ASSUME NEW n \in Namespace, Resubmit(n) PROVE PlaceInv(m)'
  BY <1>6 DEF Resubmit, Send, HandToNetwork
<1>7. ASSUME NEW n \in Namespace, ResubmitAnswered(n) PROVE PlaceInv(m)'
  <2>1. CASE Reads(n, "resubmitting", "accepted", "recordAccepted")
    BY <2>1 DEF Reads
  <2>2. CASE Reads(n, "resubmitting", "alreadyMined", "pause")
    BY <2>2 DEF Reads
  <2>3. CASE Reads(n, "resubmitting", "refused", "rejectRow")
    BY <2>3 DEF Reads
  <2>. QED
    BY <1>7, <2>1, <2>2, <2>3 DEF ResubmitAnswered
<1>8. ASSUME NEW n \in Namespace, RecordAccepted(n) PROVE PlaceInv(m)'
  BY <1>8 DEF RecordAccepted
<1>9. ASSUME NEW n \in Namespace, PollAgain(n) PROVE PlaceInv(m)'
  BY <1>9 DEF PollAgain
<1>10. ASSUME NEW n \in Namespace, RecoveredPending(n) PROVE PlaceInv(m)'
  BY <1>10 DEF RecoveredPending
<1>11. ASSUME NEW n \in Namespace, Reconcile(n) PROVE PlaceInv(m)'
  BY <1>11 DEF Reconcile
<1>12. ASSUME NEW n \in Namespace, Checks(n) PROVE PlaceInv(m)'
  BY <1>12 DEF Checks
<1>13. ASSUME NEW n \in Namespace, WriteInitialized(n) PROVE PlaceInv(m)'
  BY <1>13 DEF WriteInitialized
<1>14. ASSUME NEW n \in Namespace, ReadEvidence(n) PROVE PlaceInv(m)'
  BY <1>14 DEF ReadEvidence
<1>15. ASSUME NEW n \in Namespace, InitializeWallets(n) PROVE PlaceInv(m)'
  BY <1>15 DEF InitializeWallets
<1>16. ASSUME NEW n \in Namespace, Adopt(n) PROVE PlaceInv(m)'
  BY <1>16 DEF Adopt, RecordSubmission
<1>17. ASSUME NEW n \in Namespace, SubmissionKnown(n) PROVE PlaceInv(m)'
  BY <1>17 DEF SubmissionKnown
<1>18. ASSUME NEW n \in Namespace, Construct(n) PROVE PlaceInv(m)'
  BY <1>18 DEF Construct, LockFunds
<1>19. ASSUME NEW n \in Namespace, PersistPending(n) PROVE PlaceInv(m)'
  BY <1>19 DEF PersistPending, ClosePending
<1>20. ASSUME NEW n \in Namespace, PersistSigned(n) PROVE PlaceInv(m)'
  BY <1>20 DEF PersistSigned, CreateCompleted
<1>21. ASSUME NEW n \in Namespace, PersistCheckpoint(n) PROVE PlaceInv(m)'
  BY <1>21 DEF PersistCheckpoint, PersistPrepared
<1>22. ASSUME NEW n \in Namespace, Submit(n) PROVE PlaceInv(m)'
  BY <1>22 DEF Submit, Send, HandToNetwork
<1>23. ASSUME NEW n \in Namespace, SubmitAnswered(n) PROVE PlaceInv(m)'
  BY <1>23 DEF SubmitAnswered, Reads
<1>24. ASSUME NEW n \in Namespace, MarkRowBroadcast(n) PROVE PlaceInv(m)'
  BY <1>24 DEF MarkRowBroadcast
<1>25. ASSUME NEW n \in Namespace, MarkCkptAccepted(n) PROVE PlaceInv(m)'
  BY <1>25 DEF MarkCkptAccepted
<1>26. ASSUME NEW n \in Namespace, RecordBroadcast(n) PROVE PlaceInv(m)'
  BY <1>26 DEF RecordBroadcast, RecordSubmission
<1>27. ASSUME NEW n \in Namespace, RejectRow(n) PROVE PlaceInv(m)'
  BY <1>27 DEF RejectRow
<1>28. ASSUME NEW n \in Namespace, RejectCkpt(n) PROVE PlaceInv(m)'
  BY <1>28 DEF RejectCkpt
<1>29. ASSUME NEW n \in Namespace, Observe(n) PROVE PlaceInv(m)'
  BY <1>29 DEF Observe
<1>30. ASSUME NEW n \in Namespace, ObserveAgain(n) PROVE PlaceInv(m)'
  BY <1>30 DEF ObserveAgain
<1>31. ASSUME NEW n \in Namespace, RecordConfirmed(n) PROVE PlaceInv(m)'
  BY <1>31 DEF RecordConfirmed
<1>32. ASSUME NEW n \in Namespace, RecipientsReady(n) PROVE PlaceInv(m)'
  BY <1>32 DEF RecipientsReady, Checkpointed
<1>33. ASSUME NEW n \in Namespace, RemoveCheckpoint(n) PROVE PlaceInv(m)'
  <2>1. UNCHANGED <<pc, hand, call, row, sent, evidence>>
    BY <1>33 DEF RemoveCheckpoint
  <2>2. pc[n] = "cleanup"
    BY <1>33 DEF RemoveCheckpoint
  <2>3. n # m => pc[m] = "down"
    BY <2>2
  <2>4. pc[m] \in {"down", "cleanup"}
    BY <2>2, <2>3
  <2>. QED
    BY <2>1, <2>4
<1>34. ASSUME NEW n \in Namespace, Finish(n) PROVE PlaceInv(m)'
  BY <1>34 DEF Finish, Vanish, Unlock
<1>35. ASSUME NEW n \in Namespace, Bail(n) PROVE PlaceInv(m)'
  BY <1>35 DEF Bail, Vanish, Unlock
<1>36. ASSUME NEW n \in Namespace, NodeAnswers(n) PROVE PlaceInv(m)'
  BY <1>36 DEF NodeAnswers, Answers
<1>37. ASSUME NEW n \in Namespace, Deadline(n) PROVE PlaceInv(m)'
  BY <1>37 DEF Deadline, Vanish, Unlock
<1>38. ASSUME NEW n \in Namespace, Fault(n) PROVE PlaceInv(m)'
  BY <1>38 DEF Fault, Vanish, Unlock
<1>39. ASSUME NEW n \in Namespace, Kill(n) PROVE PlaceInv(m)'
  BY <1>39 DEF Kill, Vanish
<1>40. CASE UNCHANGED vars
  BY <1>40 DEF vars, txVars, memory, nsVars
<1>. QED
  BY <1>1, <1>2, <1>3, <1>4, <1>5, <1>6, <1>7, <1>8, <1>9, <1>10, <1>11, <1>12, <1>13,
    <1>14, <1>15, <1>16, <1>17, <1>18, <1>19, <1>20, <1>21, <1>22, <1>23, <1>24, <1>25,
    <1>26, <1>27, <1>28, <1>29, <1>30, <1>31, <1>32, <1>33, <1>34, <1>35, <1>36, <1>37,
    <1>38, <1>39, <1>40 DEF Next, Progress, Recover, Prepare,
    Broadcast, Settle

\* Every step keeps the records in agreement.
LEMMA AgreeStep ==
  ASSUME RecordsInv, TypeInv', SerialInv', [Next]_vars
  PROVE  RecordsAgree'
<1>a. \A t \in Tx : row[t] \notin CompletedRow => ckpt[t] = "none"
  BY DEF RecordsInv, RecordsAgree
<1>b. \A u \in Namespace : pc[u] = "complete" => hand[u] \in Tx /\ row[hand[u]] = "closed"
  BY DEF RecordsInv, TypeInv, HandInv, WithTx, Signing, PlaceInv
<1>. USE DEF TypeInv, TypeOK, TxTypeOK, HandInv, WithTx, Calling, At, Goto, Jump, SetRow,
           SetCkpt, MarkRow, MarkCkpt, nsVars, memory, txVars, PlaceInv, Holding, Preparing,
           Rejecting, Active, SerialInv, RecordsInv, RecordsAgree, HasSubmission, CompletedRow,
           Checkpointed, KnownRejected, NodeInv
<1>1. CASE Network
  BY <1>1 DEF Network, NodeStep, Moves, Mine, Bury, Reorg, Evict, ArriveLate, LoseLate,
    Answers
<1>2. ASSUME NEW n \in Namespace, Start(n) PROVE RecordsAgree'
  BY <1>2 DEF Start
<1>3. ASSUME NEW n \in Namespace, LoadNone(n) PROVE RecordsAgree'
  BY <1>3 DEF LoadNone
<1>4. ASSUME NEW n \in Namespace, LoadOne(n) PROVE RecordsAgree'
  BY <1>4 DEF LoadOne
<1>5. ASSUME NEW n \in Namespace, Query(n) PROVE RecordsAgree'
  BY <1>5 DEF Query
<1>6. ASSUME NEW n \in Namespace, Resubmit(n) PROVE RecordsAgree'
  BY <1>6 DEF Resubmit, Send, HandToNetwork
<1>7. ASSUME NEW n \in Namespace, ResubmitAnswered(n) PROVE RecordsAgree'
  BY <1>7 DEF ResubmitAnswered, Reads
<1>8. ASSUME NEW n \in Namespace, RecordAccepted(n) PROVE RecordsAgree'
  BY <1>8 DEF RecordAccepted
<1>9. ASSUME NEW n \in Namespace, PollAgain(n) PROVE RecordsAgree'
  BY <1>9 DEF PollAgain
<1>10. ASSUME NEW n \in Namespace, RecoveredPending(n) PROVE RecordsAgree'
  BY <1>10 DEF RecoveredPending
<1>11. ASSUME NEW n \in Namespace, Reconcile(n) PROVE RecordsAgree'
  BY <1>11 DEF Reconcile
<1>12. ASSUME NEW n \in Namespace, Checks(n) PROVE RecordsAgree'
  BY <1>12 DEF Checks
<1>13. ASSUME NEW n \in Namespace, WriteInitialized(n) PROVE RecordsAgree'
  BY <1>13 DEF WriteInitialized
<1>14. ASSUME NEW n \in Namespace, ReadEvidence(n) PROVE RecordsAgree'
  BY <1>14 DEF ReadEvidence
<1>15. ASSUME NEW n \in Namespace, InitializeWallets(n) PROVE RecordsAgree'
  BY <1>15 DEF InitializeWallets
<1>16. ASSUME NEW n \in Namespace, Adopt(n) PROVE RecordsAgree'
  BY <1>16 DEF Adopt, RecordSubmission
<1>17. ASSUME NEW n \in Namespace, SubmissionKnown(n) PROVE RecordsAgree'
  BY <1>17 DEF SubmissionKnown
<1>18. ASSUME NEW n \in Namespace, Construct(n) PROVE RecordsAgree'
  <2>1. PICK t \in Tx : LockFunds(t)
    BY <1>18 DEF Construct
  <2>2. row[t] = "none" /\ ckpt[t] = "none"
    BY <1>a, <2>1 DEF LockFunds, Fresh
  <2>3. ASSUME NEW u \in Namespace, HasSubmission(u) PROVE evidence[u].tx # t
    <3>1. row[evidence[u].tx] \in CompletedRow
      BY <2>3
    <3>. QED
      BY <2>2, <3>1
  <2>4. ckpt' = ckpt /\ evidence' = evidence /\ row' = [row EXCEPT ![t] = "locked"]
    BY <1>18, <2>1 DEF Construct, LockFunds
  <2>. QED
    BY <2>2, <2>3, <2>4
<1>19. ASSUME NEW n \in Namespace, PersistPending(n) PROVE RecordsAgree'
  BY <1>19 DEF PersistPending, ClosePending
<1>20. ASSUME NEW n \in Namespace, PersistSigned(n) PROVE RecordsAgree'
  <2>1. ckpt[hand[n]] = "none"
    BY <1>a, <1>b, <1>20 DEF PersistSigned
  <2>. QED
    BY <1>20, <2>1 DEF PersistSigned, CreateCompleted
<1>21. ASSUME NEW n \in Namespace, PersistCheckpoint(n) PROVE RecordsAgree'
  BY <1>21 DEF PersistCheckpoint, PersistPrepared
<1>22. ASSUME NEW n \in Namespace, Submit(n) PROVE RecordsAgree'
  BY <1>22 DEF Submit, Send, HandToNetwork
<1>23. ASSUME NEW n \in Namespace, SubmitAnswered(n) PROVE RecordsAgree'
  BY <1>23 DEF SubmitAnswered, Reads
<1>24. ASSUME NEW n \in Namespace, MarkRowBroadcast(n) PROVE RecordsAgree'
  <2>1. ckpt[hand[n]] # "rejected"
    BY <1>24 DEF MarkRowBroadcast
  <2>. QED
    BY <1>24, <2>1 DEF MarkRowBroadcast
<1>25. ASSUME NEW n \in Namespace, MarkCkptAccepted(n) PROVE RecordsAgree'
  BY <1>25 DEF MarkCkptAccepted
<1>26. ASSUME NEW n \in Namespace, RecordBroadcast(n) PROVE RecordsAgree'
  BY <1>26 DEF RecordBroadcast, RecordSubmission
<1>27. ASSUME NEW n \in Namespace, RejectRow(n) PROVE RecordsAgree'
  BY <1>27 DEF RejectRow
<1>28. ASSUME NEW n \in Namespace, RejectCkpt(n) PROVE RecordsAgree'
  BY <1>28 DEF RejectCkpt
<1>29. ASSUME NEW n \in Namespace, Observe(n) PROVE RecordsAgree'
  BY <1>29 DEF Observe
<1>30. ASSUME NEW n \in Namespace, ObserveAgain(n) PROVE RecordsAgree'
  BY <1>30 DEF ObserveAgain
<1>31. ASSUME NEW n \in Namespace, RecordConfirmed(n) PROVE RecordsAgree'
  BY <1>31 DEF RecordConfirmed
<1>32. ASSUME NEW n \in Namespace, RecipientsReady(n) PROVE RecordsAgree'
  BY <1>32 DEF RecipientsReady, Checkpointed
<1>33. ASSUME NEW n \in Namespace, RemoveCheckpoint(n) PROVE RecordsAgree'
  BY <1>33 DEF RemoveCheckpoint
<1>34. ASSUME NEW n \in Namespace, Finish(n) PROVE RecordsAgree'
  BY <1>34 DEF Finish, Vanish, Unlock
<1>35. ASSUME NEW n \in Namespace, Bail(n) PROVE RecordsAgree'
  BY <1>35 DEF Bail, Vanish, Unlock
<1>36. ASSUME NEW n \in Namespace, NodeAnswers(n) PROVE RecordsAgree'
  BY <1>36 DEF NodeAnswers, Answers
<1>37. ASSUME NEW n \in Namespace, Deadline(n) PROVE RecordsAgree'
  BY <1>37 DEF Deadline, Vanish, Unlock
<1>38. ASSUME NEW n \in Namespace, Fault(n) PROVE RecordsAgree'
  BY <1>38 DEF Fault, Vanish, Unlock
<1>39. ASSUME NEW n \in Namespace, Kill(n) PROVE RecordsAgree'
  BY <1>39 DEF Kill, Vanish
<1>40. CASE UNCHANGED vars
  BY <1>40 DEF vars, txVars, memory, nsVars
<1>. QED
  BY <1>1, <1>2, <1>3, <1>4, <1>5, <1>6, <1>7, <1>8, <1>9, <1>10, <1>11, <1>12, <1>13,
    <1>14, <1>15, <1>16, <1>17, <1>18, <1>19, <1>20, <1>21, <1>22, <1>23, <1>24, <1>25,
    <1>26, <1>27, <1>28, <1>29, <1>30, <1>31, <1>32, <1>33, <1>34, <1>35, <1>36, <1>37,
    <1>38, <1>39, <1>40 DEF Next, Progress, Recover, Prepare,
    Broadcast, Settle

\* An operator who runs one invocation at a time: the invariant of the records is inductive.
LEMMA RecordsStep ==
  ASSUME RecordsInv, Discipline # "none", [Next]_vars
  PROVE  RecordsInv'
<1>1. TypeInv'
  BY TypeStep DEF RecordsInv
<1>2. SerialInv'
  BY SerialStep DEF RecordsInv
<1>3. NodeInv'
  BY NodeInvStep DEF RecordsInv, PlaceInv
<1>4. \A m \in Namespace : PlaceInv(m)'
  BY <1>1, <1>2, PlaceStep
<1>5. RecordsAgree'
  BY <1>1, <1>2, AgreeStep
<1>. QED
  BY <1>1, <1>2, <1>3, <1>4, <1>5 DEF RecordsInv

\* It holds at first.
LEMMA RecordsInit == Init => RecordsInv
<1>1. Init => TypeInv
  BY DEF Init, TxInit, TypeInv, TypeOK, TxTypeOK, Location, RowStatus, CkptState, Call,
         Answer, Status, Place, HandInv, WithTx, Signing, Sending, Rejecting
<1>2. Init => NodeInv /\ SerialInv /\ RecordsAgree
  BY DEF Init, TxInit, NodeInv, SerialInv, Active, At, RecordsAgree, HasSubmission
<1>3. Init => \A n \in Namespace : PlaceInv(n)
  BY DEF Init, PlaceInv, Calling, Holding, Preparing, Rejecting
<1>. QED
  BY <1>1, <1>2, <1>3 DEF RecordsInv

\* With one invocation at a time the durable records can always be reconciled, and a
\* refusal on record is never followed by another submission.
THEOREM RecordsCorrect ==
  ASSUME Discipline # "none"
  PROVE  Spec => [](RecordsAgree /\ RejectedNotResubmitted)
<1>1. RecordsInv /\ [Next]_vars => RecordsInv'
  BY RecordsStep
<1>2. RecordsInv => RecordsAgree /\ RejectedNotResubmitted
  <2>. SUFFICES ASSUME RecordsInv, NEW n \in Namespace, call[n] = "waiting"
                PROVE  ckpt[hand[n]] # "rejected" /\ row[hand[n]] # "rejected"
    BY DEF RecordsInv, RejectedNotResubmitted
  <2>1. pc[n] \in Calling
    BY DEF RecordsInv, TypeInv, HandInv
  <2>. QED
    BY <2>1 DEF RecordsInv, PlaceInv, Calling, Holding
<1>. QED
  BY <1>1, <1>2, RecordsInit, PTL DEF Spec

----------------------------------------------------------------------------
\* Initialization.

\* The wallets are created at "initialize", and the evidence is there by then.
PlannedFirst == \A n \in Namespace : pc[n] = "initialize" => evidence[n].status # "absent"

ResumeInv == TypeInv /\ ResumableInitialization /\ PlannedFirst

\* For any namespaces, transactions and use of them: wallet databases never exist without the
\* evidence that planned their birthday, so an interrupted initialization can be repeated
\* (require_fresh_s0_wallet_paths and the order of the writes in fund_s0_from_checkpoint_inner).
THEOREM ResumeCorrect == Spec => []ResumableInitialization
<1>1. Init => ResumeInv
  <2>1. Init => TypeInv
    BY DEF Init, TxInit, TypeInv, TypeOK, TxTypeOK, Location, RowStatus, CkptState, Call,
           Answer, Status, Place, HandInv, WithTx, Signing, Sending, Rejecting
  <2>2. Init => ResumableInitialization /\ PlannedFirst
    BY DEF Init, ResumableInitialization, PlannedFirst
  <2>. QED
    BY <2>1, <2>2 DEF ResumeInv
<1>2. ResumeInv /\ [Next]_vars => ResumeInv'
  <2>. SUFFICES ASSUME ResumeInv, [Next]_vars
                PROVE  ResumableInitialization' /\ PlannedFirst'
    BY TypeStep DEF ResumeInv
  <2>. USE DEF ResumableInitialization, PlannedFirst, At, Goto, Jump, nsVars
  <2>1. evidence \in [Namespace -> [status : Status, tx : Tx \cup {None}]]
        /\ wallets \in [Namespace -> BOOLEAN] /\ pc \in [Namespace -> Place]
        /\ ResumableInitialization /\ PlannedFirst
    BY DEF ResumeInv, TypeInv, TypeOK
  <2>2. CASE Network
    BY <2>1, <2>2 DEF Network, memory
  <2>3. ASSUME NEW n \in Namespace, Start(n)
        PROVE  ResumableInitialization' /\ PlannedFirst'
    BY <2>1, <2>3 DEF Start
  <2>4. ASSUME NEW n \in Namespace, Recover(n)
        PROVE  ResumableInitialization' /\ PlannedFirst'
    <3>1. UNCHANGED <<evidence, wallets>>
      BY <2>4 DEF Recover, LoadNone, LoadOne, Query, Resubmit, Send, ResubmitAnswered, Reads, RecordAccepted,
         PollAgain, RecoveredPending, Reconcile
    <3>2. \E place \in Place \ {"initialize"} : pc' = [pc EXCEPT ![n] = place]
      BY <2>4 DEF Recover, LoadNone, LoadOne, Query, Resubmit, Send, ResubmitAnswered, Reads, RecordAccepted,
         PollAgain, RecoveredPending, Reconcile, Place, Recovering, Preparing, Rejecting
    <3>. QED
      BY <2>1, <3>1, <3>2
  <2>5. ASSUME NEW n \in Namespace, Prepare(n)
        PROVE  ResumableInitialization' /\ PlannedFirst'
    <3>1. CASE Checks(n) \/ SubmissionKnown(n)
      BY <2>1, <3>1 DEF Checks, SubmissionKnown
    <3>2. CASE WriteInitialized(n)
      BY <2>1, <3>2 DEF WriteInitialized
    <3>3. CASE ReadEvidence(n)
      BY <2>1, <3>3 DEF ReadEvidence
    <3>4. CASE InitializeWallets(n)
      BY <2>1, <3>4 DEF InitializeWallets
    <3>5. CASE Adopt(n)
      BY <2>1, <3>5 DEF Adopt, RecordSubmission
    <3>. QED
      BY <2>5, <3>1, <3>2, <3>3, <3>4, <3>5 DEF Prepare
  <2>6. ASSUME NEW n \in Namespace, Broadcast(n)
        PROVE  ResumableInitialization' /\ PlannedFirst'
    <3>1. CASE RecordBroadcast(n)
      BY <2>1, <3>1 DEF RecordBroadcast, RecordSubmission
    <3>2. CASE ~RecordBroadcast(n)
      <4>1. UNCHANGED <<evidence, wallets>>
        BY <2>6, <3>2 DEF Broadcast, Construct, PersistPending, PersistSigned, PersistCheckpoint, Submit, Send,
           SubmitAnswered, Reads, MarkRowBroadcast, MarkCkptAccepted, RejectRow, RejectCkpt
      <4>2. \E place \in Place \ {"initialize"} : pc' = [pc EXCEPT ![n] = place]
        BY <2>6, <3>2 DEF Broadcast, Construct, PersistPending, PersistSigned, PersistCheckpoint, Submit, Send,
           SubmitAnswered, Reads, MarkRowBroadcast, MarkCkptAccepted, RejectRow, RejectCkpt,
           Place, Signing, Sending, Rejecting
      <4>. QED
        BY <2>1, <4>1, <4>2
    <3>. QED
      BY <3>1, <3>2
  <2>7. ASSUME NEW n \in Namespace, Settle(n)
        PROVE  ResumableInitialization' /\ PlannedFirst'
    <3>1. CASE RecordConfirmed(n)
      BY <2>1, <3>1 DEF RecordConfirmed
    <3>2. CASE Finish(n)
      BY <2>1, <3>2 DEF Finish, Vanish
    <3>3. CASE Observe(n) \/ ObserveAgain(n) \/ RecipientsReady(n) \/ RemoveCheckpoint(n)
      BY <2>1, <3>3 DEF Observe, ObserveAgain, RecipientsReady, RemoveCheckpoint
    <3>. QED
      BY <2>7, <3>1, <3>2, <3>3 DEF Settle
  <2>8. ASSUME NEW n \in Namespace, Bail(n) \/ Deadline(n) \/ Fault(n) \/ Kill(n)
        PROVE  ResumableInitialization' /\ PlannedFirst'
    BY <2>1, <2>8 DEF Bail, Deadline, Fault, Kill, Vanish
  <2>9. ASSUME NEW n \in Namespace, NodeAnswers(n)
        PROVE  ResumableInitialization' /\ PlannedFirst'
    BY <2>1, <2>9 DEF NodeAnswers
  <2>10. CASE UNCHANGED vars
    BY <2>1, <2>10 DEF vars, memory
  <2>. QED
    BY <2>2, <2>3, <2>4, <2>5, <2>6, <2>7, <2>8, <2>9, <2>10 DEF Next, Progress
<1>. QED
  BY <1>1, <1>2, PTL DEF Spec, ResumeInv

=============================================================================
