------------------------- MODULE S0FundsOnce_proofs -------------------------
(***************************************************************************)
(* Proofs about S0Funding for an operator who goes forward: one invocation *)
(* at a time, and never back in a namespace left for another.  Then one    *)
(* namespace is funded once, and the command implements FundOnce.          *)
(***************************************************************************)
EXTENDS S0Funding_proofs

\* Namespaces are entered one after the other, and every row pays one that was entered.
ForwardInv ==
    /\ \A n \in Namespace : Active(n) => n = started.last
    /\ \A t \in Tx : pays[t] # None => pays[t] \in started.all
    /\ \A t \in sent : pays[t] # None
    /\ \A t \in Tx : row[t] # "none" => pays[t] # None
    /\ started.last # None => started.last \in started.all
    /\ \A n \in Namespace : HasSubmission(n) => n \in started.all

\* What an invocation knows of its evidence and of the other transactions.
WorkInv(n) ==
    LET t == hand[n] IN
    /\ pc[n] \in Preparing /\ t = None => Checkpointed = {}
    /\ pc[n] \in Building =>
          /\ Checkpointed = {}
          /\ t \notin sent
          /\ \A u \in sent : pays[u] # n
    /\ pc[n] \in Creating => pays[t] = n /\ ~HasSubmission(n)
    /\ resent[n] => t \in sent
    /\ pc[n] \in {"markRow", "markCkpt", "record"} => t \in sent
    /\ pc[n] \in Preparing /\ t # None => t \in sent
    /\ pc[n] \in {"pause", "recordAccepted", "reconcile"} => t \in sent
    /\ pc[n] = "record" => ckpt[t] # "none"
    /\ pc[n] \in Observing => HasSubmission(n)
    /\ pc[n] = "confirm" => node[evidence[n].tx] = "confirmed"
    /\ pc[n] \in Settling => evidence[n].status = "confirmed"
    /\ doomed[n] # {} => pc[n] = "cleanup"
    /\ pc[n] = "cleanup" => pays[evidence[n].tx] = n /\ doomed[n] \subseteq {evidence[n].tx}

\* The one checkpoint there may be, and the namespace it binds.
CheckpointInv ==
    /\ \A t, u \in Tx : ckpt[t] # "none" /\ ckpt[u] # "none" => t = u
    /\ \A t \in Tx : ckpt[t] # "none" => \A u \in sent : pays[u] = pays[t] => u = t
    /\ \A t \in Tx : ckpt[t] # "none" /\ pays[t] # started.last
          => \A u \in sent : pays[u] # started.last

\* A namespace whose evidence names another's transaction stays behind its checkpoint.
AdoptedInv == \A n \in Namespace :
    HasSubmission(n) /\ pays[evidence[n].tx] # n =>
        /\ ckpt[evidence[n].tx] # "none"
        /\ pays[evidence[n].tx] # started.last

\* A namespace that has passed is paid by the transaction its evidence names.
ReadyInv == \A n \in Namespace :
    ready[n] => evidence[n].status = "confirmed" /\ pays[evidence[n].tx] = n

\* Behind a refusal nothing goes on: its checkpoint stops every later invocation.
RefusedInv == \A t \in Tx :
    row[t] = "rejected" =>
        /\ ckpt[t] # "none"
        /\ \A n \in Namespace : pc[n] \in {"down", "load", "rejectCkpt", "rejected"}

FundingInv ==
    /\ RecordsInv
    /\ ForwardInv
    /\ \A n \in Namespace : WorkInv(n)
    /\ CheckpointInv
    /\ AdoptedInv
    /\ ReadyInv
    /\ RefusedInv
    /\ EvidenceIsTrue
    /\ NothingUnaccounted
    /\ FundedOnce

----------------------------------------------------------------------------
\* A transaction id no row was made for was never sent.
LEMMA FreshIsNotSent ==
  ASSUME FundingInv, NEW t \in Tx, row[t] = "none"
  PROVE  t \notin sent
<1>1. ckpt[t] = "none" /\ \A n \in Namespace : HasSubmission(n) => evidence[n].tx # t
  BY DEF FundingInv, RecordsInv, RecordsAgree, CompletedRow
<1>2. t \in sent => \E n \in Namespace : evidence[n] = [status |-> "confirmed", tx |-> t]
  BY <1>1 DEF FundingInv, NothingUnaccounted
<1>. QED
  BY <1>1, <1>2, NoneIsNoTx DEF HasSubmission

\* With no checkpoint left, a namespace without a recorded submission has sent nothing.
LEMMA UnfundedYet ==
  ASSUME FundingInv, Checkpointed = {}, NEW n \in Namespace, ~HasSubmission(n)
  PROVE  \A u \in sent : pays[u] # n
<1>. SUFFICES ASSUME NEW u \in sent, pays[u] = n PROVE FALSE
  OBVIOUS
<1>1. u \in Tx
  BY DEF FundingInv, RecordsInv, TypeInv, TypeOK, TxTypeOK
<1>2. ckpt[u] = "none"
  BY <1>1 DEF Checkpointed
<1>3. evidence[n] = [status |-> "confirmed", tx |-> u]
  BY <1>2 DEF FundingInv, NothingUnaccounted
<1>4. evidence[n].tx = u
  BY <1>3
<1>. QED
  BY <1>1, <1>4, NoneIsNoTx DEF HasSubmission

\* The operator who goes forward only: every step keeps ForwardInv.
LEMMA ForwardStep ==
  ASSUME FundingInv, Discipline = "forward", TypeInv', [Next]_vars
  PROVE  ForwardInv'
<1>. USE NoneIsNoTx, NoneIsNoNamespace DEF At, Goto, Jump, SetRow, SetCkpt, MarkRow,
           MarkCkpt, nsVars, memory, txVars, TypeInv, TypeOK, TxTypeOK, HandInv, WithTx, Calling,
           Signing, Sending, FundingInv, RecordsInv, ForwardInv, WorkInv, CheckpointInv, AdoptedInv,
           EvidenceIsTrue, NothingUnaccounted, FundedOnce, RecordsAgree, PlaceInv, SerialInv, Active,
           Holding, Building, Creating, Preparing, Rejecting, Observing, Settling, HasSubmission,
           CompletedRow, Checkpointed
<1>1. CASE Network
  BY <1>1 DEF Network, NodeStep, Moves, Mine, Bury, Reorg, Evict, ArriveLate, LoseLate,
    Answers
<1>2. ASSUME NEW n \in Namespace,
            \/ RemoveCheckpoint(n) \/ NodeAnswers(n)
     PROVE  ForwardInv'
  <2>1. UNCHANGED <<row, sent, pc, evidence, pays, started>>
    BY <1>2 DEF RemoveCheckpoint, NodeAnswers, Answers
  <2>. QED
    BY <2>1
<1>3. ASSUME NEW n \in Namespace, Start(n) PROVE ForwardInv'
  <2>1. \A m \in Namespace : pc'[m] # "down" => m = n
    BY <1>3 DEF Start, MayStart
  <2>. QED
    BY <1>3, <2>1 DEF Start
<1>4. ASSUME NEW n \in Namespace, LoadNone(n) PROVE ForwardInv'
  BY <1>4 DEF LoadNone
<1>5. ASSUME NEW n \in Namespace, LoadOne(n) PROVE ForwardInv'
  BY <1>5 DEF LoadOne
<1>6. ASSUME NEW n \in Namespace, Query(n) PROVE ForwardInv'
  BY <1>6 DEF Query
<1>7. ASSUME NEW n \in Namespace, Resubmit(n) PROVE ForwardInv'
  <2>1. hand[n] \in Tx /\ row[hand[n]] # "none"
    BY <1>7 DEF Resubmit, Send
  <2>2. pays[hand[n]] # None
    BY <2>1
  <2>. QED
    BY <1>7, <2>1, <2>2 DEF Resubmit, Send, HandToNetwork
<1>8. ASSUME NEW n \in Namespace, ResubmitAnswered(n) PROVE ForwardInv'
  BY <1>8 DEF ResubmitAnswered, Reads
<1>9. ASSUME NEW n \in Namespace, RecordAccepted(n) PROVE ForwardInv'
  BY <1>9 DEF RecordAccepted
<1>10. ASSUME NEW n \in Namespace, PollAgain(n) PROVE ForwardInv'
  BY <1>10 DEF PollAgain
<1>11. ASSUME NEW n \in Namespace, RecoveredPending(n) PROVE ForwardInv'
  BY <1>11 DEF RecoveredPending
<1>12. ASSUME NEW n \in Namespace, Reconcile(n) PROVE ForwardInv'
  BY <1>12 DEF Reconcile
<1>13. ASSUME NEW n \in Namespace, Checks(n) PROVE ForwardInv'
  BY <1>13 DEF Checks
<1>14. ASSUME NEW n \in Namespace, WriteInitialized(n) PROVE ForwardInv'
  BY <1>14 DEF WriteInitialized
<1>15. ASSUME NEW n \in Namespace, ReadEvidence(n) PROVE ForwardInv'
  BY <1>15 DEF ReadEvidence
<1>16. ASSUME NEW n \in Namespace, InitializeWallets(n) PROVE ForwardInv'
  BY <1>16 DEF InitializeWallets
<1>17. ASSUME NEW n \in Namespace, Adopt(n) PROVE ForwardInv'
  BY <1>17 DEF Adopt, RecordSubmission
<1>18. ASSUME NEW n \in Namespace, SubmissionKnown(n) PROVE ForwardInv'
  BY <1>18 DEF SubmissionKnown
<1>19. ASSUME NEW n \in Namespace, Construct(n) PROVE ForwardInv'
  BY <1>19 DEF Construct, LockFunds
<1>20. ASSUME NEW n \in Namespace, PersistPending(n) PROVE ForwardInv'
  BY <1>20 DEF PersistPending, ClosePending
<1>21. ASSUME NEW n \in Namespace, PersistSigned(n) PROVE ForwardInv'
  BY <1>21 DEF PersistSigned, CreateCompleted
<1>22. ASSUME NEW n \in Namespace, PersistCheckpoint(n) PROVE ForwardInv'
  BY <1>22 DEF PersistCheckpoint, PersistPrepared
<1>23. ASSUME NEW n \in Namespace, Submit(n) PROVE ForwardInv'
  BY <1>23 DEF Submit, Send, HandToNetwork
<1>24. ASSUME NEW n \in Namespace, SubmitAnswered(n) PROVE ForwardInv'
  BY <1>24 DEF SubmitAnswered, Reads
<1>25. ASSUME NEW n \in Namespace, MarkRowBroadcast(n) PROVE ForwardInv'
  BY <1>25 DEF MarkRowBroadcast
<1>26. ASSUME NEW n \in Namespace, MarkCkptAccepted(n) PROVE ForwardInv'
  BY <1>26 DEF MarkCkptAccepted
<1>27. ASSUME NEW n \in Namespace, RecordBroadcast(n) PROVE ForwardInv'
  BY <1>27 DEF RecordBroadcast, RecordSubmission
<1>28. ASSUME NEW n \in Namespace, RejectRow(n) PROVE ForwardInv'
  <2>1. row[hand[n]] # "none" /\ row' = [row EXCEPT ![hand[n]] = "rejected"]
    BY <1>28 DEF RejectRow
  <2>. QED
    BY <1>28, <2>1 DEF RejectRow
<1>29. ASSUME NEW n \in Namespace, RejectCkpt(n) PROVE ForwardInv'
  BY <1>29 DEF RejectCkpt
<1>30. ASSUME NEW n \in Namespace, Observe(n) PROVE ForwardInv'
  BY <1>30 DEF Observe
<1>31. ASSUME NEW n \in Namespace, ObserveAgain(n) PROVE ForwardInv'
  BY <1>31 DEF ObserveAgain
<1>32. ASSUME NEW n \in Namespace, RecordConfirmed(n) PROVE ForwardInv'
  BY <1>32 DEF RecordConfirmed
<1>33. ASSUME NEW n \in Namespace, RecipientsReady(n) PROVE ForwardInv'
  BY <1>33 DEF RecipientsReady, Checkpointed
<1>34. ASSUME NEW n \in Namespace, Finish(n) PROVE ForwardInv'
  BY <1>34 DEF Finish, Vanish, Unlock
<1>35. ASSUME NEW n \in Namespace, Bail(n) PROVE ForwardInv'
  BY <1>35 DEF Bail, Vanish, Unlock
<1>36. ASSUME NEW n \in Namespace, Deadline(n) PROVE ForwardInv'
  BY <1>36 DEF Deadline, Vanish, Unlock
<1>37. ASSUME NEW n \in Namespace, Fault(n) PROVE ForwardInv'
  BY <1>37 DEF Fault, Vanish, Unlock
<1>38. ASSUME NEW n \in Namespace, Kill(n) PROVE ForwardInv'
  BY <1>38 DEF Kill, Vanish
<1>39. CASE UNCHANGED vars
  BY <1>39 DEF vars
<1>. QED
  BY <1>1, <1>2, <1>3, <1>4, <1>5, <1>6, <1>7, <1>8, <1>9, <1>10, <1>11, <1>12, <1>13,
    <1>14, <1>15, <1>16, <1>17, <1>18, <1>19, <1>20, <1>21, <1>22, <1>23, <1>24, <1>25,
    <1>26, <1>27, <1>28, <1>29, <1>30, <1>31, <1>32, <1>33, <1>34, <1>35, <1>36, <1>37,
    <1>38, <1>39 DEF Next, Progress,
    Recover, Prepare, Broadcast, Settle

\* Every step keeps WorkInv.
LEMMA WorkStep ==
  ASSUME FundingInv, Discipline = "forward", TypeInv', SerialInv', NEW m \in Namespace, [Next]_vars
  PROVE  WorkInv(m)'
<1>. USE NoneIsNoTx, NoneIsNoNamespace DEF At, Goto, Jump, SetRow, SetCkpt, MarkRow,
           MarkCkpt, nsVars, memory, txVars, TypeInv, TypeOK, TxTypeOK, HandInv, WithTx, Calling,
           Signing, Sending, NodeInv, FundingInv, RecordsInv, ForwardInv, WorkInv, CheckpointInv,
           AdoptedInv, EvidenceIsTrue, NothingUnaccounted, FundedOnce, RecordsAgree, PlaceInv,
           SerialInv, Active, Holding, Building, Creating, Preparing, Rejecting, Observing, Settling,
           HasSubmission, CompletedRow, Checkpointed
<1>1. CASE Network
  BY <1>1 DEF Network, NodeStep, Moves, Mine, Bury, Reorg, Evict, ArriveLate, LoseLate,
    Answers
<1>2. ASSUME NEW n \in Namespace, Start(n) PROVE WorkInv(m)'
  BY <1>2 DEF Start
<1>3. ASSUME NEW n \in Namespace, LoadNone(n) PROVE WorkInv(m)'
  BY <1>3 DEF LoadNone
<1>4. ASSUME NEW n \in Namespace, LoadOne(n) PROVE WorkInv(m)'
  BY <1>4 DEF LoadOne
<1>5. ASSUME NEW n \in Namespace, Query(n) PROVE WorkInv(m)'
  <2>1. hand[n] \in Tx /\ pc[n] = "query"
    BY <1>5 DEF Query
  <2>2. node[hand[n]] # "notStored" \/ resent[n] => hand[n] \in sent
    BY <2>1
  <2>3. UNCHANGED <<node, ckpt, sent, hand, resent, doomed, evidence, pays>>
    BY <1>5 DEF Query
  <2>4. \/ pc' = [pc EXCEPT ![n] = "resubmit"]
        \/ /\ hand[n] \in sent
           /\ pc' = [pc EXCEPT ![n] = "pause"] \/ pc' = [pc EXCEPT ![n] = "reconcile"]
    BY <1>5, <2>2 DEF Query
  <2>. QED
    BY <2>1, <2>3, <2>4
<1>6. ASSUME NEW n \in Namespace, Resubmit(n) PROVE WorkInv(m)'
  BY <1>6 DEF Resubmit, Send, HandToNetwork
<1>7. ASSUME NEW n \in Namespace, ResubmitAnswered(n) PROVE WorkInv(m)'
  BY <1>7 DEF ResubmitAnswered, Reads
<1>8. ASSUME NEW n \in Namespace, RecordAccepted(n) PROVE WorkInv(m)'
  BY <1>8 DEF RecordAccepted
<1>9. ASSUME NEW n \in Namespace, PollAgain(n) PROVE WorkInv(m)'
  BY <1>9 DEF PollAgain
<1>10. ASSUME NEW n \in Namespace, RecoveredPending(n) PROVE WorkInv(m)'
  BY <1>10 DEF RecoveredPending
<1>11. ASSUME NEW n \in Namespace, Reconcile(n) PROVE WorkInv(m)'
  BY <1>11 DEF Reconcile
<1>12. ASSUME NEW n \in Namespace, Checks(n) PROVE WorkInv(m)'
  BY <1>12 DEF Checks
<1>13. ASSUME NEW n \in Namespace, WriteInitialized(n) PROVE WorkInv(m)'
  BY <1>13 DEF WriteInitialized
<1>14. ASSUME NEW n \in Namespace, ReadEvidence(n) PROVE WorkInv(m)'
  BY <1>14 DEF ReadEvidence
<1>15. ASSUME NEW n \in Namespace, InitializeWallets(n) PROVE WorkInv(m)'
  BY <1>15 DEF InitializeWallets
<1>16. ASSUME NEW n \in Namespace, Adopt(n) PROVE WorkInv(m)'
  BY <1>16 DEF Adopt, RecordSubmission
<1>17. ASSUME NEW n \in Namespace, SubmissionKnown(n) PROVE WorkInv(m)'
  BY <1>17 DEF SubmissionKnown
<1>18. ASSUME NEW n \in Namespace, Construct(n) PROVE WorkInv(m)'
  <2>1. PICK t \in Tx :
            /\ LockFunds(t)
            /\ hand' = [hand EXCEPT ![n] = t]
            /\ pays' = [pays EXCEPT ![t] = n]
    BY <1>18 DEF Construct
  <2>2. t \notin sent
    BY <2>1, FreshIsNotSent DEF LockFunds, Fresh
  <2>3. Checkpointed = {} /\ ~HasSubmission(n) /\ pc[n] = "choose"
    BY <1>18 DEF Construct
  <2>4. \A u \in sent : pays[u] # n
    BY <2>3, UnfundedYet
  <2>. QED
    BY <1>18, <2>1, <2>2, <2>3, <2>4 DEF Construct, LockFunds
<1>19. ASSUME NEW n \in Namespace, PersistPending(n) PROVE WorkInv(m)'
  BY <1>19 DEF PersistPending, ClosePending
<1>20. ASSUME NEW n \in Namespace, PersistSigned(n) PROVE WorkInv(m)'
  BY <1>20 DEF PersistSigned, CreateCompleted
<1>21. ASSUME NEW n \in Namespace, PersistCheckpoint(n) PROVE WorkInv(m)'
  BY <1>21 DEF PersistCheckpoint, PersistPrepared
<1>22. ASSUME NEW n \in Namespace, Submit(n) PROVE WorkInv(m)'
  BY <1>22 DEF Submit, Send, HandToNetwork
<1>23. ASSUME NEW n \in Namespace, SubmitAnswered(n) PROVE WorkInv(m)'
  BY <1>23 DEF SubmitAnswered, Reads
<1>24. ASSUME NEW n \in Namespace, MarkRowBroadcast(n) PROVE WorkInv(m)'
  BY <1>24 DEF MarkRowBroadcast
<1>25. ASSUME NEW n \in Namespace, MarkCkptAccepted(n) PROVE WorkInv(m)'
  BY <1>25 DEF MarkCkptAccepted
<1>26. ASSUME NEW n \in Namespace, RecordBroadcast(n) PROVE WorkInv(m)'
  BY <1>26 DEF RecordBroadcast, RecordSubmission
<1>27. ASSUME NEW n \in Namespace, RejectRow(n) PROVE WorkInv(m)'
  BY <1>27 DEF RejectRow
<1>28. ASSUME NEW n \in Namespace, RejectCkpt(n) PROVE WorkInv(m)'
  BY <1>28 DEF RejectCkpt
<1>29. ASSUME NEW n \in Namespace, Observe(n) PROVE WorkInv(m)'
  BY <1>29 DEF Observe
<1>30. ASSUME NEW n \in Namespace, ObserveAgain(n) PROVE WorkInv(m)'
  BY <1>30 DEF ObserveAgain
<1>31. ASSUME NEW n \in Namespace, RecordConfirmed(n) PROVE WorkInv(m)'
  BY <1>31 DEF RecordConfirmed
<1>32. ASSUME NEW n \in Namespace, RecipientsReady(n) PROVE WorkInv(m)'
  <2>1. PICK t \in Tx : Received(n) = {t} /\ node[t] = "confirmed"
    BY <1>32 DEF RecipientsReady, ReadinessGate
  <2>2. t \in sent /\ pays[t] = n /\ started.last = n
    BY <1>32, <2>1 DEF RecipientsReady, Received
  <2>3. evidence[n].tx \in sent /\ HasSubmission(n)
    BY <1>32 DEF RecipientsReady
  <2>4. pays[evidence[n].tx] = n
    BY <2>2, <2>3
  <2>5. \A u \in Checkpointed : u = evidence[n].tx
    BY <2>2, <2>3, <2>4
  <2>. QED
    BY <1>32, <2>4, <2>5 DEF RecipientsReady
<1>33. ASSUME NEW n \in Namespace, RemoveCheckpoint(n) PROVE WorkInv(m)'
  BY <1>33 DEF RemoveCheckpoint
<1>34. ASSUME NEW n \in Namespace, Finish(n) PROVE WorkInv(m)'
  BY <1>34 DEF Finish, Vanish, Unlock
<1>35. ASSUME NEW n \in Namespace, Bail(n) PROVE WorkInv(m)'
  BY <1>35 DEF Bail, Vanish, Unlock
<1>36. ASSUME NEW n \in Namespace, NodeAnswers(n) PROVE WorkInv(m)'
  BY <1>36 DEF NodeAnswers, Answers
<1>37. ASSUME NEW n \in Namespace, Deadline(n) PROVE WorkInv(m)'
  BY <1>37 DEF Deadline, Vanish, Unlock
<1>38. ASSUME NEW n \in Namespace, Fault(n) PROVE WorkInv(m)'
  BY <1>38 DEF Fault, Vanish, Unlock
<1>39. ASSUME NEW n \in Namespace, Kill(n) PROVE WorkInv(m)'
  BY <1>39 DEF Kill, Vanish
<1>40. CASE UNCHANGED vars
  BY <1>40 DEF vars
<1>. HIDE DEF WorkInv
<1>. QED
  BY <1>1, <1>2, <1>3, <1>4, <1>5, <1>6, <1>7, <1>8, <1>9, <1>10, <1>11, <1>12, <1>13,
    <1>14, <1>15, <1>16, <1>17, <1>18, <1>19, <1>20, <1>21, <1>22, <1>23, <1>24, <1>25,
    <1>26, <1>27, <1>28, <1>29, <1>30, <1>31, <1>32, <1>33, <1>34, <1>35, <1>36, <1>37,
    <1>38, <1>39, <1>40 DEF Next, Progress,
    Recover, Prepare, Broadcast, Settle

\* Every step keeps CheckpointInv.
LEMMA CheckpointStep ==
  ASSUME FundingInv, Discipline = "forward", TypeInv', [Next]_vars
  PROVE  CheckpointInv'
<1>. USE NoneIsNoTx, NoneIsNoNamespace DEF At, Goto, Jump, SetRow, SetCkpt, MarkRow,
           MarkCkpt, nsVars, memory, txVars, TypeInv, TypeOK, TxTypeOK, HandInv, WithTx, Calling,
           Signing, Sending, FundingInv, RecordsInv, ForwardInv, WorkInv, CheckpointInv, AdoptedInv,
           EvidenceIsTrue, NothingUnaccounted, FundedOnce, RecordsAgree, PlaceInv, SerialInv, Active,
           Holding, Building, Creating, Preparing, Rejecting, Observing, Settling, HasSubmission,
           CompletedRow, Checkpointed
<1>1. CASE Network
  BY <1>1 DEF Network, NodeStep, Moves, Mine, Bury, Reorg, Evict, ArriveLate, LoseLate,
    Answers
<1>2. ASSUME NEW n \in Namespace,
            \/ LoadNone(n) \/ LoadOne(n) \/ Query(n) \/ ResubmitAnswered(n) \/ PollAgain(n)
            \/ RecoveredPending(n) \/ Reconcile(n) \/ Checks(n) \/ WriteInitialized(n)
            \/ ReadEvidence(n) \/ InitializeWallets(n) \/ Adopt(n) \/ SubmissionKnown(n)
            \/ PersistPending(n) \/ PersistSigned(n) \/ SubmitAnswered(n)
            \/ MarkRowBroadcast(n) \/ RecordBroadcast(n) \/ RejectRow(n) \/ Observe(n)
            \/ ObserveAgain(n) \/ RecordConfirmed(n) \/ RecipientsReady(n) \/ Finish(n)
            \/ Bail(n) \/ NodeAnswers(n) \/ Deadline(n) \/ Fault(n) \/ Kill(n)
     PROVE  CheckpointInv'
  <2>1. UNCHANGED <<ckpt, sent, pays, started>>
    BY <1>2 DEF LoadNone, LoadOne, Query, ResubmitAnswered, Reads, PollAgain,
      RecoveredPending, Reconcile, Checks, WriteInitialized, ReadEvidence,
      InitializeWallets, Adopt, RecordSubmission, SubmissionKnown, PersistPending,
      ClosePending, PersistSigned, CreateCompleted, SubmitAnswered, MarkRowBroadcast,
      RecordBroadcast, RejectRow, Observe, ObserveAgain, RecordConfirmed, RecipientsReady,
      Checkpointed, Finish, Vanish, Unlock, Bail, NodeAnswers, Answers, Deadline, Fault,
      Kill
  <2>. QED
    BY <2>1
<1>3. ASSUME NEW n \in Namespace, Start(n) PROVE CheckpointInv'
  <2>1. n = started.last \/ n \notin started.all
    BY <1>3 DEF Start, MayStart
  <2>2. \A u \in sent : pays[u] \in started.all
    BY DEF FundingInv, ForwardInv
  <2>3. UNCHANGED <<ckpt, sent, pays, evidence>> /\ started'.last = n
    BY <1>3 DEF Start
  <2>. QED
    BY <2>1, <2>2, <2>3
<1>4. ASSUME NEW n \in Namespace, Resubmit(n) PROVE CheckpointInv'
  <2>1. hand[n] \in Tx /\ ckpt[hand[n]] # "none"
    BY <1>4 DEF Resubmit, Send
  <2>2. sent' = sent \cup {hand[n]} /\ UNCHANGED <<node, row, ckpt, late, evidence, pays, started>>
    BY <1>4 DEF Resubmit, Send, HandToNetwork
  <2>. QED
    BY <2>1, <2>2
<1>5. ASSUME NEW n \in Namespace, RecordAccepted(n) PROVE CheckpointInv'
  BY <1>5 DEF RecordAccepted
<1>6. ASSUME NEW n \in Namespace, Construct(n) PROVE CheckpointInv'
  BY <1>6 DEF Construct, LockFunds
<1>7. ASSUME NEW n \in Namespace, PersistCheckpoint(n) PROVE CheckpointInv'
  BY <1>7 DEF PersistCheckpoint, PersistPrepared
<1>8. ASSUME NEW n \in Namespace, Submit(n) PROVE CheckpointInv'
  <2>1. hand[n] \in Tx /\ ckpt[hand[n]] # "none"
    BY <1>8 DEF Submit, Send
  <2>2. sent' = sent \cup {hand[n]} /\ UNCHANGED <<node, row, ckpt, late, evidence, pays, started>>
    BY <1>8 DEF Submit, Send, HandToNetwork
  <2>. QED
    BY <2>1, <2>2
<1>9. ASSUME NEW n \in Namespace, MarkCkptAccepted(n) PROVE CheckpointInv'
  BY <1>9 DEF MarkCkptAccepted
<1>10. ASSUME NEW n \in Namespace, RejectCkpt(n) PROVE CheckpointInv'
  BY <1>10 DEF RejectCkpt
<1>11. ASSUME NEW n \in Namespace, RemoveCheckpoint(n) PROVE CheckpointInv'
  BY <1>11 DEF RemoveCheckpoint
<1>12. CASE UNCHANGED vars
  BY <1>12 DEF vars
<1>. QED
  BY <1>1, <1>2, <1>3, <1>4, <1>5, <1>6, <1>7, <1>8, <1>9, <1>10, <1>11, <1>12 DEF Next, Progress,
    Recover, Prepare, Broadcast, Settle

\* Every step keeps AdoptedInv.
LEMMA AdoptedStep ==
  ASSUME FundingInv, Discipline = "forward", TypeInv', [Next]_vars
  PROVE  AdoptedInv'
<1>. USE NoneIsNoTx, NoneIsNoNamespace DEF At, Goto, Jump, SetRow, SetCkpt, MarkRow,
           MarkCkpt, nsVars, memory, txVars, TypeInv, TypeOK, TxTypeOK, HandInv, WithTx, Calling,
           Signing, Sending, FundingInv, RecordsInv, ForwardInv, WorkInv, CheckpointInv, AdoptedInv,
           EvidenceIsTrue, NothingUnaccounted, FundedOnce, RecordsAgree, PlaceInv, SerialInv, Active,
           Holding, Building, Creating, Preparing, Rejecting, Observing, Settling, HasSubmission,
           CompletedRow, Checkpointed
<1>1. CASE Network
  BY <1>1 DEF Network, NodeStep, Moves, Mine, Bury, Reorg, Evict, ArriveLate, LoseLate,
    Answers
<1>2. ASSUME NEW n \in Namespace,
            \/ LoadNone(n) \/ LoadOne(n) \/ Query(n) \/ Resubmit(n) \/ ResubmitAnswered(n)
            \/ PollAgain(n) \/ RecoveredPending(n) \/ Reconcile(n) \/ Checks(n)
            \/ ReadEvidence(n) \/ InitializeWallets(n) \/ SubmissionKnown(n)
            \/ PersistPending(n) \/ PersistSigned(n) \/ Submit(n) \/ SubmitAnswered(n)
            \/ MarkRowBroadcast(n) \/ RejectRow(n) \/ Observe(n) \/ ObserveAgain(n)
            \/ RecipientsReady(n) \/ Finish(n) \/ Bail(n) \/ NodeAnswers(n) \/ Deadline(n)
            \/ Fault(n) \/ Kill(n)
     PROVE  AdoptedInv'
  <2>1. UNCHANGED <<ckpt, evidence, pays, started>>
    BY <1>2 DEF LoadNone, LoadOne, Query, Resubmit, Send, HandToNetwork, ResubmitAnswered,
      Reads, PollAgain, RecoveredPending, Reconcile, Checks, ReadEvidence,
      InitializeWallets, SubmissionKnown, PersistPending, ClosePending, PersistSigned,
      CreateCompleted, Submit, SubmitAnswered, MarkRowBroadcast, RejectRow, Observe,
      ObserveAgain, RecipientsReady, Checkpointed, Finish, Vanish, Unlock, Bail,
      NodeAnswers, Answers, Deadline, Fault, Kill
  <2>. QED
    BY <2>1
<1>3. ASSUME NEW n \in Namespace, Start(n) PROVE AdoptedInv'
  <2>1. n = started.last \/ n \notin started.all
    BY <1>3 DEF Start, MayStart
  <2>2. \A u \in sent : pays[u] \in started.all
    BY DEF FundingInv, ForwardInv
  <2>3. UNCHANGED <<ckpt, sent, pays, evidence>> /\ started'.last = n
    BY <1>3 DEF Start
  <2>. QED
    BY <2>1, <2>2, <2>3
<1>4. ASSUME NEW n \in Namespace, RecordAccepted(n) PROVE AdoptedInv'
  BY <1>4 DEF RecordAccepted
<1>5. ASSUME NEW n \in Namespace, WriteInitialized(n) PROVE AdoptedInv'
  BY <1>5 DEF WriteInitialized
<1>6. ASSUME NEW n \in Namespace, Adopt(n) PROVE AdoptedInv'
  BY <1>6 DEF Adopt, RecordSubmission
<1>7. ASSUME NEW n \in Namespace, Construct(n) PROVE AdoptedInv'
  <2>1. PICK t \in Tx : LockFunds(t) /\ pays' = [pays EXCEPT ![t] = n]
    BY <1>7 DEF Construct
  <2>2. t \notin sent
    BY <2>1, FreshIsNotSent DEF LockFunds, Fresh
  <2>3. \A m \in Namespace : HasSubmission(m) => evidence[m].tx # t
    BY <2>2
  <2>. QED
    BY <1>7, <2>1, <2>2, <2>3 DEF Construct, LockFunds
<1>8. ASSUME NEW n \in Namespace, PersistCheckpoint(n) PROVE AdoptedInv'
  BY <1>8 DEF PersistCheckpoint, PersistPrepared
<1>9. ASSUME NEW n \in Namespace, MarkCkptAccepted(n) PROVE AdoptedInv'
  BY <1>9 DEF MarkCkptAccepted
<1>10. ASSUME NEW n \in Namespace, RecordBroadcast(n) PROVE AdoptedInv'
  BY <1>10 DEF RecordBroadcast, RecordSubmission
<1>11. ASSUME NEW n \in Namespace, RejectCkpt(n) PROVE AdoptedInv'
  BY <1>11 DEF RejectCkpt
<1>12. ASSUME NEW n \in Namespace, RecordConfirmed(n) PROVE AdoptedInv'
  BY <1>12 DEF RecordConfirmed
<1>13. ASSUME NEW n \in Namespace, RemoveCheckpoint(n) PROVE AdoptedInv'
  BY <1>13 DEF RemoveCheckpoint
<1>14. CASE UNCHANGED vars
  BY <1>14 DEF vars
<1>. QED
  BY <1>1, <1>2, <1>3, <1>4, <1>5, <1>6, <1>7, <1>8, <1>9, <1>10, <1>11, <1>12, <1>13, <1>14 DEF Next, Progress,
    Recover, Prepare, Broadcast, Settle

\* Every step keeps ReadyInv.
LEMMA ReadyStep ==
  ASSUME FundingInv, Discipline = "forward", TypeInv', [Next]_vars
  PROVE  ReadyInv'
<1>. USE NoneIsNoTx, NoneIsNoNamespace DEF At, Goto, Jump, SetRow, SetCkpt, MarkRow,
           MarkCkpt, nsVars, memory, txVars, TypeInv, TypeOK, TxTypeOK, HandInv, WithTx, Calling,
           Signing, Sending, FundingInv, RecordsInv, ForwardInv, WorkInv, CheckpointInv, AdoptedInv,
           EvidenceIsTrue, NothingUnaccounted, FundedOnce, RecordsAgree, PlaceInv, SerialInv, Active,
           Holding, Building, Creating, Preparing, Rejecting, Observing, Settling, HasSubmission,
           CompletedRow, Checkpointed, ReadyInv
<1>1. CASE Network
  BY <1>1 DEF Network, NodeStep, Moves, Mine, Bury, Reorg, Evict, ArriveLate, LoseLate,
    Answers
<1>2. ASSUME NEW n \in Namespace,
            \/ Start(n) \/ LoadNone(n) \/ LoadOne(n) \/ Query(n) \/ Resubmit(n)
            \/ ResubmitAnswered(n) \/ RecordAccepted(n) \/ PollAgain(n)
            \/ RecoveredPending(n) \/ Reconcile(n) \/ Checks(n) \/ ReadEvidence(n)
            \/ InitializeWallets(n) \/ SubmissionKnown(n) \/ PersistPending(n)
            \/ PersistSigned(n) \/ PersistCheckpoint(n) \/ Submit(n) \/ SubmitAnswered(n)
            \/ MarkRowBroadcast(n) \/ MarkCkptAccepted(n) \/ RejectRow(n) \/ RejectCkpt(n)
            \/ Observe(n) \/ ObserveAgain(n) \/ RecipientsReady(n) \/ RemoveCheckpoint(n)
            \/ Bail(n) \/ NodeAnswers(n) \/ Deadline(n) \/ Fault(n) \/ Kill(n)
     PROVE  ReadyInv'
  <2>1. UNCHANGED <<evidence, ready, pays>>
    BY <1>2 DEF Start, LoadNone, LoadOne, Query, Resubmit, Send, HandToNetwork,
      ResubmitAnswered, Reads, RecordAccepted, PollAgain, RecoveredPending, Reconcile,
      Checks, ReadEvidence, InitializeWallets, SubmissionKnown, PersistPending,
      ClosePending, PersistSigned, CreateCompleted, PersistCheckpoint, PersistPrepared,
      Submit, SubmitAnswered, MarkRowBroadcast, MarkCkptAccepted, RejectRow, RejectCkpt,
      Observe, ObserveAgain, RecipientsReady, Checkpointed, RemoveCheckpoint, Bail, Vanish,
      Unlock, NodeAnswers, Answers, Deadline, Fault, Kill
  <2>. QED
    BY <2>1
<1>3. ASSUME NEW n \in Namespace, WriteInitialized(n) PROVE ReadyInv'
  BY <1>3 DEF WriteInitialized
<1>4. ASSUME NEW n \in Namespace, Adopt(n) PROVE ReadyInv'
  BY <1>4 DEF Adopt, RecordSubmission
<1>5. ASSUME NEW n \in Namespace, Construct(n) PROVE ReadyInv'
  <2>1. PICK t \in Tx : LockFunds(t) /\ pays' = [pays EXCEPT ![t] = n]
    BY <1>5 DEF Construct
  <2>2. t \notin sent
    BY <2>1, FreshIsNotSent DEF LockFunds, Fresh
  <2>3. \A m \in Namespace : HasSubmission(m) => evidence[m].tx # t
    BY <2>2
  <2>. QED
    BY <1>5, <2>1, <2>2, <2>3 DEF Construct, LockFunds
<1>6. ASSUME NEW n \in Namespace, RecordBroadcast(n) PROVE ReadyInv'
  BY <1>6 DEF RecordBroadcast, RecordSubmission
<1>7. ASSUME NEW n \in Namespace, RecordConfirmed(n) PROVE ReadyInv'
  BY <1>7 DEF RecordConfirmed
<1>8. ASSUME NEW n \in Namespace, Finish(n) PROVE ReadyInv'
  BY <1>8 DEF Finish, Vanish, Unlock
<1>9. CASE UNCHANGED vars
  BY <1>9 DEF vars
<1>. QED
  BY <1>1, <1>2, <1>3, <1>4, <1>5, <1>6, <1>7, <1>8, <1>9 DEF Next, Progress,
    Recover, Prepare, Broadcast, Settle

\* Every step keeps RefusedInv.
LEMMA RefusedStep ==
  ASSUME FundingInv, Discipline = "forward", TypeInv', [Next]_vars
  PROVE  RefusedInv'
<1>. USE NoneIsNoTx, NoneIsNoNamespace DEF At, Goto, Jump, SetRow, SetCkpt, MarkRow,
           MarkCkpt, nsVars, memory, txVars, TypeInv, TypeOK, TxTypeOK, HandInv, WithTx, Calling,
           Signing, Sending, FundingInv, RecordsInv, ForwardInv, WorkInv, CheckpointInv, AdoptedInv,
           EvidenceIsTrue, NothingUnaccounted, FundedOnce, RecordsAgree, PlaceInv, SerialInv, Active,
           Holding, Building, Creating, Preparing, Rejecting, Observing, Settling, HasSubmission,
           CompletedRow, Checkpointed, RefusedInv
<1>1. CASE Network
  BY <1>1 DEF Network, NodeStep, Moves, Mine, Bury, Reorg, Evict, ArriveLate, LoseLate,
    Answers
<1>2. ASSUME NEW n \in Namespace, NodeAnswers(n) PROVE RefusedInv'
  <2>1. UNCHANGED <<row, ckpt, pc>>
    BY <1>2 DEF NodeAnswers, Answers
  <2>. QED
    BY <2>1
<1>3. ASSUME NEW n \in Namespace, Start(n) PROVE RefusedInv'
  BY <1>3 DEF Start
<1>4. ASSUME NEW n \in Namespace, LoadNone(n) PROVE RefusedInv'
  BY <1>4 DEF LoadNone
<1>5. ASSUME NEW n \in Namespace, LoadOne(n) PROVE RefusedInv'
  <2>1. \A t \in Tx : row[t] # "rejected"
    BY <1>5 DEF LoadOne, KnownRejected
  <2>. QED
    BY <1>5, <2>1 DEF LoadOne
<1>6. ASSUME NEW n \in Namespace, Query(n) PROVE RefusedInv'
  BY <1>6 DEF Query
<1>7. ASSUME NEW n \in Namespace, Resubmit(n) PROVE RefusedInv'
  BY <1>7 DEF Resubmit, Send, HandToNetwork
<1>8. ASSUME NEW n \in Namespace, ResubmitAnswered(n) PROVE RefusedInv'
  <2>1. \A t \in Tx : row[t] # "rejected"
    BY <1>8 DEF ResubmitAnswered, Reads
  <2>2. row' = row
    BY <1>8 DEF ResubmitAnswered, Reads
  <2>. QED
    BY <2>1, <2>2
<1>9. ASSUME NEW n \in Namespace, RecordAccepted(n) PROVE RefusedInv'
  BY <1>9 DEF RecordAccepted
<1>10. ASSUME NEW n \in Namespace, PollAgain(n) PROVE RefusedInv'
  BY <1>10 DEF PollAgain
<1>11. ASSUME NEW n \in Namespace, RecoveredPending(n) PROVE RefusedInv'
  BY <1>11 DEF RecoveredPending
<1>12. ASSUME NEW n \in Namespace, Reconcile(n) PROVE RefusedInv'
  BY <1>12 DEF Reconcile
<1>13. ASSUME NEW n \in Namespace, Checks(n) PROVE RefusedInv'
  BY <1>13 DEF Checks
<1>14. ASSUME NEW n \in Namespace, WriteInitialized(n) PROVE RefusedInv'
  BY <1>14 DEF WriteInitialized
<1>15. ASSUME NEW n \in Namespace, ReadEvidence(n) PROVE RefusedInv'
  BY <1>15 DEF ReadEvidence
<1>16. ASSUME NEW n \in Namespace, InitializeWallets(n) PROVE RefusedInv'
  BY <1>16 DEF InitializeWallets
<1>17. ASSUME NEW n \in Namespace, Adopt(n) PROVE RefusedInv'
  BY <1>17 DEF Adopt, RecordSubmission
<1>18. ASSUME NEW n \in Namespace, SubmissionKnown(n) PROVE RefusedInv'
  BY <1>18 DEF SubmissionKnown
<1>19. ASSUME NEW n \in Namespace, Construct(n) PROVE RefusedInv'
  BY <1>19 DEF Construct, LockFunds
<1>20. ASSUME NEW n \in Namespace, PersistPending(n) PROVE RefusedInv'
  BY <1>20 DEF PersistPending, ClosePending
<1>21. ASSUME NEW n \in Namespace, PersistSigned(n) PROVE RefusedInv'
  BY <1>21 DEF PersistSigned, CreateCompleted
<1>22. ASSUME NEW n \in Namespace, PersistCheckpoint(n) PROVE RefusedInv'
  BY <1>22 DEF PersistCheckpoint, PersistPrepared
<1>23. ASSUME NEW n \in Namespace, Submit(n) PROVE RefusedInv'
  BY <1>23 DEF Submit, Send, HandToNetwork
<1>24. ASSUME NEW n \in Namespace, SubmitAnswered(n) PROVE RefusedInv'
  <2>1. \A t \in Tx : row[t] # "rejected"
    BY <1>24 DEF SubmitAnswered, Reads
  <2>2. row' = row
    BY <1>24 DEF SubmitAnswered, Reads
  <2>. QED
    BY <2>1, <2>2
<1>25. ASSUME NEW n \in Namespace, MarkRowBroadcast(n) PROVE RefusedInv'
  BY <1>25 DEF MarkRowBroadcast
<1>26. ASSUME NEW n \in Namespace, MarkCkptAccepted(n) PROVE RefusedInv'
  BY <1>26 DEF MarkCkptAccepted
<1>27. ASSUME NEW n \in Namespace, RecordBroadcast(n) PROVE RefusedInv'
  BY <1>27 DEF RecordBroadcast, RecordSubmission
<1>28. ASSUME NEW n \in Namespace, RejectRow(n) PROVE RefusedInv'
  <2>1. \A u \in Namespace : pc'[u] \in {"down", "rejectCkpt"}
    BY <1>28 DEF RejectRow
  <2>2. hand[n] \in Tx /\ ckpt[hand[n]] # "none"
    BY <1>28 DEF RejectRow
  <2>3. ckpt' = ckpt /\ row' = [row EXCEPT ![hand[n]] = "rejected"]
    BY <1>28 DEF RejectRow
  <2>. QED
    BY <2>1, <2>2, <2>3
<1>29. ASSUME NEW n \in Namespace, RejectCkpt(n) PROVE RefusedInv'
  BY <1>29 DEF RejectCkpt
<1>30. ASSUME NEW n \in Namespace, Observe(n) PROVE RefusedInv'
  BY <1>30 DEF Observe
<1>31. ASSUME NEW n \in Namespace, ObserveAgain(n) PROVE RefusedInv'
  BY <1>31 DEF ObserveAgain
<1>32. ASSUME NEW n \in Namespace, RecordConfirmed(n) PROVE RefusedInv'
  BY <1>32 DEF RecordConfirmed
<1>33. ASSUME NEW n \in Namespace, RecipientsReady(n) PROVE RefusedInv'
  BY <1>33 DEF RecipientsReady, Checkpointed
<1>34. ASSUME NEW n \in Namespace, RemoveCheckpoint(n) PROVE RefusedInv'
  BY <1>34 DEF RemoveCheckpoint
<1>35. ASSUME NEW n \in Namespace, Finish(n) PROVE RefusedInv'
  BY <1>35 DEF Finish, Vanish, Unlock
<1>36. ASSUME NEW n \in Namespace, Bail(n) PROVE RefusedInv'
  BY <1>36 DEF Bail, Vanish, Unlock
<1>37. ASSUME NEW n \in Namespace, Deadline(n) PROVE RefusedInv'
  BY <1>37 DEF Deadline, Vanish, Unlock
<1>38. ASSUME NEW n \in Namespace, Fault(n) PROVE RefusedInv'
  BY <1>38 DEF Fault, Vanish, Unlock
<1>39. ASSUME NEW n \in Namespace, Kill(n) PROVE RefusedInv'
  BY <1>39 DEF Kill, Vanish
<1>40. CASE UNCHANGED vars
  BY <1>40 DEF vars
<1>. QED
  BY <1>1, <1>2, <1>3, <1>4, <1>5, <1>6, <1>7, <1>8, <1>9, <1>10, <1>11, <1>12, <1>13,
    <1>14, <1>15, <1>16, <1>17, <1>18, <1>19, <1>20, <1>21, <1>22, <1>23, <1>24, <1>25,
    <1>26, <1>27, <1>28, <1>29, <1>30, <1>31, <1>32, <1>33, <1>34, <1>35, <1>36, <1>37,
    <1>38, <1>39, <1>40 DEF Next, Progress,
    Recover, Prepare, Broadcast, Settle

\* Every step keeps the evidence true.
LEMMA EvidenceStep ==
  ASSUME FundingInv, Discipline = "forward", TypeInv', [Next]_vars
  PROVE  EvidenceIsTrue'
<1>. USE NoneIsNoTx, NoneIsNoNamespace DEF At, Goto, Jump, SetRow, SetCkpt, MarkRow,
           MarkCkpt, nsVars, memory, txVars, TypeInv, TypeOK, TxTypeOK, HandInv, WithTx, Calling,
           Signing, Sending, FundingInv, RecordsInv, ForwardInv, WorkInv, CheckpointInv, AdoptedInv,
           EvidenceIsTrue, NothingUnaccounted, FundedOnce, RecordsAgree, PlaceInv, SerialInv, Active,
           Holding, Building, Creating, Preparing, Rejecting, Observing, Settling, HasSubmission,
           CompletedRow, Checkpointed
<1>1. CASE Network
  BY <1>1 DEF Network, NodeStep, Moves, Mine, Bury, Reorg, Evict, ArriveLate, LoseLate,
    Answers
<1>2. ASSUME NEW n \in Namespace,
            \/ Start(n) \/ LoadNone(n) \/ LoadOne(n) \/ Query(n) \/ ResubmitAnswered(n)
            \/ RecordAccepted(n) \/ PollAgain(n) \/ RecoveredPending(n) \/ Reconcile(n)
            \/ Checks(n) \/ ReadEvidence(n) \/ InitializeWallets(n) \/ SubmissionKnown(n)
            \/ Construct(n) \/ PersistPending(n) \/ PersistSigned(n) \/ PersistCheckpoint(n)
            \/ SubmitAnswered(n) \/ MarkRowBroadcast(n) \/ MarkCkptAccepted(n)
            \/ RejectRow(n) \/ RejectCkpt(n) \/ Observe(n) \/ ObserveAgain(n)
            \/ RecipientsReady(n) \/ RemoveCheckpoint(n) \/ Finish(n) \/ Bail(n)
            \/ Deadline(n) \/ Fault(n) \/ Kill(n)
     PROVE  EvidenceIsTrue'
  <2>1. UNCHANGED <<node, sent, evidence>>
    BY <1>2 DEF Start, LoadNone, LoadOne, Query, ResubmitAnswered, Reads, RecordAccepted,
      PollAgain, RecoveredPending, Reconcile, Checks, ReadEvidence, InitializeWallets,
      SubmissionKnown, Construct, LockFunds, PersistPending, ClosePending, PersistSigned,
      CreateCompleted, PersistCheckpoint, PersistPrepared, SubmitAnswered, MarkRowBroadcast,
      MarkCkptAccepted, RejectRow, RejectCkpt, Observe, ObserveAgain, RecipientsReady,
      Checkpointed, RemoveCheckpoint, Finish, Vanish, Unlock, Bail, Deadline, Fault, Kill
  <2>. QED
    BY <2>1
<1>3. ASSUME NEW n \in Namespace, Resubmit(n) PROVE EvidenceIsTrue'
  BY <1>3 DEF Resubmit, Send, HandToNetwork
<1>4. ASSUME NEW n \in Namespace, WriteInitialized(n) PROVE EvidenceIsTrue'
  BY <1>4 DEF WriteInitialized
<1>5. ASSUME NEW n \in Namespace, Adopt(n) PROVE EvidenceIsTrue'
  BY <1>5 DEF Adopt, RecordSubmission
<1>6. ASSUME NEW n \in Namespace, Submit(n) PROVE EvidenceIsTrue'
  BY <1>6 DEF Submit, Send, HandToNetwork
<1>7. ASSUME NEW n \in Namespace, RecordBroadcast(n) PROVE EvidenceIsTrue'
  BY <1>7 DEF RecordBroadcast, RecordSubmission
<1>8. ASSUME NEW n \in Namespace, RecordConfirmed(n) PROVE EvidenceIsTrue'
  BY <1>8 DEF RecordConfirmed
<1>9. ASSUME NEW n \in Namespace, NodeAnswers(n) PROVE EvidenceIsTrue'
  BY <1>9 DEF NodeAnswers, Answers
<1>10. CASE UNCHANGED vars
  BY <1>10 DEF vars
<1>. QED
  BY <1>1, <1>2, <1>3, <1>4, <1>5, <1>6, <1>7, <1>8, <1>9, <1>10 DEF Next, Progress,
    Recover, Prepare, Broadcast, Settle

\* Every step keeps what was sent accounted for.
LEMMA AccountedStep ==
  ASSUME FundingInv, Discipline = "forward", TypeInv', [Next]_vars
  PROVE  NothingUnaccounted'
<1>. USE NoneIsNoTx, NoneIsNoNamespace DEF At, Goto, Jump, SetRow, SetCkpt, MarkRow,
           MarkCkpt, nsVars, memory, txVars, TypeInv, TypeOK, TxTypeOK, HandInv, WithTx, Calling,
           Signing, Sending, FundingInv, RecordsInv, ForwardInv, WorkInv, CheckpointInv, AdoptedInv,
           EvidenceIsTrue, NothingUnaccounted, FundedOnce, RecordsAgree, PlaceInv, SerialInv, Active,
           Holding, Building, Creating, Preparing, Rejecting, Observing, Settling, HasSubmission,
           CompletedRow, Checkpointed
<1>1. CASE Network
  BY <1>1 DEF Network, NodeStep, Moves, Mine, Bury, Reorg, Evict, ArriveLate, LoseLate,
    Answers
<1>2. ASSUME NEW n \in Namespace,
            \/ Start(n) \/ LoadNone(n) \/ LoadOne(n) \/ Query(n) \/ ResubmitAnswered(n)
            \/ PollAgain(n) \/ RecoveredPending(n) \/ Reconcile(n) \/ Checks(n)
            \/ ReadEvidence(n) \/ InitializeWallets(n) \/ SubmissionKnown(n)
            \/ PersistPending(n) \/ PersistSigned(n) \/ SubmitAnswered(n)
            \/ MarkRowBroadcast(n) \/ RejectRow(n) \/ Observe(n) \/ ObserveAgain(n)
            \/ RecipientsReady(n) \/ Finish(n) \/ Bail(n) \/ Deadline(n) \/ Fault(n)
            \/ Kill(n)
     PROVE  NothingUnaccounted'
  <2>1. UNCHANGED <<node, ckpt, sent, evidence, pays>>
    BY <1>2 DEF Start, LoadNone, LoadOne, Query, ResubmitAnswered, Reads, PollAgain,
      RecoveredPending, Reconcile, Checks, ReadEvidence, InitializeWallets, SubmissionKnown,
      PersistPending, ClosePending, PersistSigned, CreateCompleted, SubmitAnswered,
      MarkRowBroadcast, RejectRow, Observe, ObserveAgain, RecipientsReady, Checkpointed,
      Finish, Vanish, Unlock, Bail, Deadline, Fault, Kill
  <2>. QED
    BY <2>1
<1>3. ASSUME NEW n \in Namespace, Resubmit(n) PROVE NothingUnaccounted'
  <2>1. hand[n] \in Tx /\ ckpt[hand[n]] # "none"
    BY <1>3 DEF Resubmit, Send
  <2>2. sent' = sent \cup {hand[n]} /\ UNCHANGED <<node, row, ckpt, late, evidence, pays, started>>
    BY <1>3 DEF Resubmit, Send, HandToNetwork
  <2>. QED
    BY <2>1, <2>2
<1>4. ASSUME NEW n \in Namespace, RecordAccepted(n) PROVE NothingUnaccounted'
  BY <1>4 DEF RecordAccepted
<1>5. ASSUME NEW n \in Namespace, WriteInitialized(n) PROVE NothingUnaccounted'
  BY <1>5 DEF WriteInitialized
<1>6. ASSUME NEW n \in Namespace, Adopt(n) PROVE NothingUnaccounted'
  BY <1>6 DEF Adopt, RecordSubmission
<1>7. ASSUME NEW n \in Namespace, Construct(n) PROVE NothingUnaccounted'
  <2>1. PICK t \in Tx : LockFunds(t) /\ pays' = [pays EXCEPT ![t] = n]
    BY <1>7 DEF Construct
  <2>2. t \notin sent
    BY <2>1, FreshIsNotSent DEF LockFunds, Fresh
  <2>3. \A m \in Namespace : HasSubmission(m) => evidence[m].tx # t
    BY <2>2
  <2>. QED
    BY <1>7, <2>1, <2>2, <2>3 DEF Construct, LockFunds
<1>8. ASSUME NEW n \in Namespace, PersistCheckpoint(n) PROVE NothingUnaccounted'
  BY <1>8 DEF PersistCheckpoint, PersistPrepared
<1>9. ASSUME NEW n \in Namespace, Submit(n) PROVE NothingUnaccounted'
  <2>1. hand[n] \in Tx /\ ckpt[hand[n]] # "none"
    BY <1>9 DEF Submit, Send
  <2>2. sent' = sent \cup {hand[n]} /\ UNCHANGED <<node, row, ckpt, late, evidence, pays, started>>
    BY <1>9 DEF Submit, Send, HandToNetwork
  <2>. QED
    BY <2>1, <2>2
<1>10. ASSUME NEW n \in Namespace, MarkCkptAccepted(n) PROVE NothingUnaccounted'
  BY <1>10 DEF MarkCkptAccepted
<1>11. ASSUME NEW n \in Namespace, RecordBroadcast(n) PROVE NothingUnaccounted'
  BY <1>11 DEF RecordBroadcast, RecordSubmission
<1>12. ASSUME NEW n \in Namespace, RejectCkpt(n) PROVE NothingUnaccounted'
  BY <1>12 DEF RejectCkpt
<1>13. ASSUME NEW n \in Namespace, RecordConfirmed(n) PROVE NothingUnaccounted'
  BY <1>13 DEF RecordConfirmed
<1>14. ASSUME NEW n \in Namespace, RemoveCheckpoint(n) PROVE NothingUnaccounted'
  BY <1>14 DEF RemoveCheckpoint
<1>15. ASSUME NEW n \in Namespace, NodeAnswers(n) PROVE NothingUnaccounted'
  BY <1>15 DEF NodeAnswers, Answers
<1>16. CASE UNCHANGED vars
  BY <1>16 DEF vars
<1>. QED
  BY <1>1, <1>2, <1>3, <1>4, <1>5, <1>6, <1>7, <1>8, <1>9, <1>10, <1>11, <1>12, <1>13,
    <1>14, <1>15, <1>16 DEF Next, Progress,
    Recover, Prepare, Broadcast, Settle

\* Every step keeps the funding single.
LEMMA OnceStep ==
  ASSUME FundingInv, Discipline = "forward", TypeInv', [Next]_vars
  PROVE  FundedOnce'
<1>. USE NoneIsNoTx, NoneIsNoNamespace DEF At, Goto, Jump, SetRow, SetCkpt, MarkRow,
           MarkCkpt, nsVars, memory, txVars, TypeInv, TypeOK, TxTypeOK, HandInv, WithTx, Calling,
           Signing, Sending, FundingInv, RecordsInv, ForwardInv, WorkInv, CheckpointInv, AdoptedInv,
           EvidenceIsTrue, NothingUnaccounted, FundedOnce, RecordsAgree, PlaceInv, SerialInv, Active,
           Holding, Building, Creating, Preparing, Rejecting, Observing, Settling, HasSubmission,
           CompletedRow, Checkpointed
<1>1. CASE Network
  BY <1>1 DEF Network, NodeStep, Moves, Mine, Bury, Reorg, Evict, ArriveLate, LoseLate,
    Answers
<1>2. ASSUME NEW n \in Namespace,
            \/ Start(n) \/ LoadNone(n) \/ LoadOne(n) \/ Query(n) \/ ResubmitAnswered(n)
            \/ RecordAccepted(n) \/ PollAgain(n) \/ RecoveredPending(n) \/ Reconcile(n)
            \/ Checks(n) \/ WriteInitialized(n) \/ ReadEvidence(n) \/ InitializeWallets(n)
            \/ Adopt(n) \/ SubmissionKnown(n) \/ PersistPending(n) \/ PersistSigned(n)
            \/ PersistCheckpoint(n) \/ SubmitAnswered(n) \/ MarkRowBroadcast(n)
            \/ MarkCkptAccepted(n) \/ RecordBroadcast(n) \/ RejectRow(n) \/ RejectCkpt(n)
            \/ Observe(n) \/ ObserveAgain(n) \/ RecordConfirmed(n) \/ RecipientsReady(n)
            \/ RemoveCheckpoint(n) \/ Finish(n) \/ Bail(n) \/ NodeAnswers(n) \/ Deadline(n)
            \/ Fault(n) \/ Kill(n)
     PROVE  FundedOnce'
  <2>1. UNCHANGED <<sent, pays>>
    BY <1>2 DEF Start, LoadNone, LoadOne, Query, ResubmitAnswered, Reads, RecordAccepted,
      PollAgain, RecoveredPending, Reconcile, Checks, WriteInitialized, ReadEvidence,
      InitializeWallets, Adopt, RecordSubmission, SubmissionKnown, PersistPending,
      ClosePending, PersistSigned, CreateCompleted, PersistCheckpoint, PersistPrepared,
      SubmitAnswered, MarkRowBroadcast, MarkCkptAccepted, RecordBroadcast, RejectRow,
      RejectCkpt, Observe, ObserveAgain, RecordConfirmed, RecipientsReady, Checkpointed,
      RemoveCheckpoint, Finish, Vanish, Unlock, Bail, NodeAnswers, Answers, Deadline, Fault,
      Kill
  <2>. QED
    BY <2>1
<1>3. ASSUME NEW n \in Namespace, Resubmit(n) PROVE FundedOnce'
  <2>1. hand[n] \in Tx /\ ckpt[hand[n]] # "none"
    BY <1>3 DEF Resubmit, Send
  <2>2. sent' = sent \cup {hand[n]} /\ UNCHANGED <<node, row, ckpt, late, evidence, pays, started>>
    BY <1>3 DEF Resubmit, Send, HandToNetwork
  <2>. QED
    BY <2>1, <2>2
<1>4. ASSUME NEW n \in Namespace, Construct(n) PROVE FundedOnce'
  <2>1. PICK t \in Tx : LockFunds(t) /\ pays' = [pays EXCEPT ![t] = n]
    BY <1>4 DEF Construct
  <2>2. t \notin sent
    BY <2>1, FreshIsNotSent DEF LockFunds, Fresh
  <2>. QED
    BY <1>4, <2>1, <2>2 DEF Construct, LockFunds
<1>5. ASSUME NEW n \in Namespace, Submit(n) PROVE FundedOnce'
  <2>1. hand[n] \in Tx /\ ckpt[hand[n]] # "none"
    BY <1>5 DEF Submit, Send
  <2>2. sent' = sent \cup {hand[n]} /\ UNCHANGED <<node, row, ckpt, late, evidence, pays, started>>
    BY <1>5 DEF Submit, Send, HandToNetwork
  <2>. QED
    BY <2>1, <2>2
<1>6. CASE UNCHANGED vars
  BY <1>6 DEF vars
<1>. QED
  BY <1>1, <1>2, <1>3, <1>4, <1>5, <1>6 DEF Next, Progress,
    Recover, Prepare, Broadcast, Settle

\* The funding invariant is inductive.
LEMMA FundingStep ==
  ASSUME FundingInv, Discipline = "forward", [Next]_vars
  PROVE  FundingInv'
<1>1. RecordsInv'
  BY RecordsStep DEF FundingInv
<1>2. TypeInv' /\ SerialInv'
  BY <1>1 DEF RecordsInv
<1>3. \A m \in Namespace : WorkInv(m)'
  BY <1>2, WorkStep
<1>4. ForwardInv' /\ CheckpointInv' /\ AdoptedInv'
  BY <1>2, ForwardStep, CheckpointStep, AdoptedStep
<1>5. ReadyInv' /\ RefusedInv'
  BY <1>2, ReadyStep, RefusedStep
<1>6. EvidenceIsTrue' /\ NothingUnaccounted' /\ FundedOnce'
  BY <1>2, EvidenceStep, AccountedStep, OnceStep
<1>. QED
  BY <1>1, <1>3, <1>4, <1>5, <1>6 DEF FundingInv

\* It holds at first.
LEMMA FundingInit == Init => FundingInv
<1>. SUFFICES ASSUME Init PROVE FundingInv
  OBVIOUS
<1>1. RecordsInv
  BY RecordsInit
<1>2. ForwardInv /\ CheckpointInv /\ AdoptedInv /\ ReadyInv /\ RefusedInv
  BY DEF Init, TxInit, ForwardInv, CheckpointInv, AdoptedInv, ReadyInv, RefusedInv, Active,
         At, HasSubmission
<1>3. \A n \in Namespace : WorkInv(n)
  BY DEF Init, TxInit, WorkInv, Preparing, Building, Creating, Observing, Settling
<1>4. EvidenceIsTrue /\ NothingUnaccounted /\ FundedOnce
  BY DEF Init, TxInit, EvidenceIsTrue, NothingUnaccounted, FundedOnce
<1>. QED
  BY <1>1, <1>2, <1>3, <1>4 DEF FundingInv

\* So it always holds.
LEMMA FundingAlways ==
  ASSUME Discipline = "forward"
  PROVE  Spec => []FundingInv
<1>1. FundingInv /\ [Next]_vars => FundingInv'
  BY FundingStep
<1>. QED
  BY <1>1, FundingInit, PTL DEF Spec

\* However often fund-s0 is repeated after failures, interruptions and crashes, a
\* namespace hands at most one transaction to the network, whatever was handed over can be
\* found again, and no evidence file claims more than happened.
THEOREM FundedOnceForward ==
  ASSUME Discipline = "forward"
  PROVE  Spec => [](FundedOnce /\ NothingUnaccounted /\ EvidenceIsTrue)
<1>1. FundingInv => FundedOnce /\ NothingUnaccounted /\ EvidenceIsTrue
  BY DEF FundingInv
<1>. QED
  BY <1>1, FundingAlways, PTL

\* The readiness line is printed for no namespace but one whose wallets hold the outputs
\* of exactly the transaction its evidence names.
THEOREM ReadyCorrect ==
  ASSUME Discipline = "forward"
  PROVE  Spec => []ReadyMeansFunded
<1>1. FundingInv => ReadyMeansFunded
  <2>. SUFFICES ASSUME FundingInv, NEW n \in Namespace, ready[n]
                PROVE  /\ evidence[n].status = "confirmed"
                       /\ Received(n) = {evidence[n].tx}
                       /\ pays[evidence[n].tx] = n
    BY DEF ReadyMeansFunded
  <2>1. evidence[n].status = "confirmed" /\ pays[evidence[n].tx] = n
    BY DEF FundingInv, ReadyInv
  <2>2. evidence[n].tx \in sent /\ node[evidence[n].tx] = "confirmed"
    BY <2>1 DEF FundingInv, EvidenceIsTrue
  <2>3. evidence[n].tx \in Tx
    BY <2>2 DEF FundingInv, RecordsInv, TypeInv, TypeOK, TxTypeOK
  <2>4. evidence[n].tx \in Received(n)
    BY <2>1, <2>2, <2>3 DEF Received
  <2>5. ASSUME NEW t \in Received(n) PROVE t = evidence[n].tx
    <3>1. t \in sent /\ pays[t] = n
      BY <2>5 DEF Received, FundingInv, RecordsInv, NodeInv
    <3>. QED
      BY <3>1, <2>1, <2>2 DEF FundingInv, FundedOnce
  <2>. QED
    BY <2>1, <2>4, <2>5
<1>. QED
  BY <1>1, FundingAlways, PTL

\* A submission once recorded is never replaced, and a confirmation never taken back.
THEOREM EvidenceStands ==
  ASSUME Discipline = "forward"
  PROVE  Spec => EvidenceNeverReplaced
<1>. DEFINE Stands == \A n \in Namespace :
              /\ HasSubmission(n) => evidence'[n].tx = evidence[n].tx
              /\ evidence[n].status = "confirmed" => evidence'[n] = evidence[n]
<1>1. ASSUME FundingInv, [Next]_vars PROVE [Stands]_vars
  <2>. USE NoneIsNoTx, NoneIsNoNamespace DEF At, Goto, Jump, SetRow, SetCkpt, MarkRow,
             MarkCkpt, nsVars, memory, txVars, TypeInv, TypeOK, TxTypeOK, HandInv, WithTx, Signing,
             Sending, FundingInv, RecordsInv, WorkInv, Creating, Building, EvidenceIsTrue,
             HasSubmission, Active
  <2>1. CASE Network
    BY <2>1 DEF Network, NodeStep, Moves, Mine, Bury, Reorg, Evict, ArriveLate, LoseLate,
      Answers
  <2>2. ASSUME NEW n \in Namespace,
              \/ Start(n) \/ LoadNone(n) \/ LoadOne(n) \/ Query(n) \/ Resubmit(n)
              \/ ResubmitAnswered(n) \/ RecordAccepted(n) \/ PollAgain(n)
              \/ RecoveredPending(n) \/ Reconcile(n) \/ Checks(n) \/ ReadEvidence(n)
              \/ InitializeWallets(n) \/ SubmissionKnown(n) \/ Construct(n)
              \/ PersistPending(n) \/ PersistSigned(n) \/ PersistCheckpoint(n) \/ Submit(n)
              \/ SubmitAnswered(n) \/ MarkRowBroadcast(n) \/ MarkCkptAccepted(n)
              \/ RejectRow(n) \/ RejectCkpt(n) \/ Observe(n) \/ ObserveAgain(n)
              \/ RecipientsReady(n) \/ RemoveCheckpoint(n) \/ Finish(n) \/ Bail(n)
              \/ NodeAnswers(n) \/ Deadline(n) \/ Fault(n) \/ Kill(n)
       PROVE  Stands
    <3>1. UNCHANGED <<evidence>>
      BY <2>2 DEF Start, LoadNone, LoadOne, Query, Resubmit, Send, HandToNetwork,
        ResubmitAnswered, Reads, RecordAccepted, PollAgain, RecoveredPending, Reconcile,
        Checks, ReadEvidence, InitializeWallets, SubmissionKnown, Construct, LockFunds,
        PersistPending, ClosePending, PersistSigned, CreateCompleted, PersistCheckpoint,
        PersistPrepared, Submit, SubmitAnswered, MarkRowBroadcast, MarkCkptAccepted,
        RejectRow, RejectCkpt, Observe, ObserveAgain, RecipientsReady, Checkpointed,
        RemoveCheckpoint, Finish, Vanish, Unlock, Bail, NodeAnswers, Answers, Deadline, Fault,
        Kill
    <3>. QED
      BY <3>1
  <2>3. ASSUME NEW n \in Namespace, WriteInitialized(n) PROVE Stands
    BY <1>1, <2>3 DEF WriteInitialized
  <2>4. ASSUME NEW n \in Namespace, Adopt(n) PROVE Stands
    BY <1>1, <2>4 DEF Adopt, RecordSubmission
  <2>5. ASSUME NEW n \in Namespace, RecordBroadcast(n) PROVE Stands
    BY <1>1, <2>5 DEF RecordBroadcast, RecordSubmission
  <2>6. ASSUME NEW n \in Namespace, RecordConfirmed(n) PROVE Stands
    BY <1>1, <2>6 DEF RecordConfirmed
  <2>7. CASE UNCHANGED vars
    BY <2>7 DEF vars
  <2>. QED
    BY <1>1, <2>1, <2>2, <2>3, <2>4, <2>5, <2>6, <2>7 DEF Next, Progress,
      Recover, Prepare, Broadcast, Settle
<1>. QED
  BY <1>1, FundingAlways, PTL DEF Spec, EvidenceNeverReplaced

----------------------------------------------------------------------------
(* The refinement: S0Funding implements FundOnce for an operator who goes forward. *)

FundingOf == [n \in Namespace |-> Funding(n)]
OutcomeOf == [n \in Namespace |-> Outcome(n)]

\* A refusal of a transaction that was sent.
Refused(n) == \E t \in Funding(n) : row[t] = "rejected"

\* The wallet row alone tells a refusal, for the file is marked after it.
OutcomeIsByRow == \A n \in Namespace :
    Outcome(n) = IF ready[n] THEN "funded" ELSE IF Refused(n) THEN "refused" ELSE "open"

LEMMA OutcomeByRow ==
  ASSUME FundingInv, FundingInv'
  PROVE  OutcomeIsByRow /\ OutcomeIsByRow'
<1>1. \A t \in Tx : KnownRejected(t) <=> row[t] = "rejected"
  BY DEF FundingInv, RecordsInv, RecordsAgree, KnownRejected
<1>2. \A t \in Tx : KnownRejected(t)' <=> row'[t] = "rejected"
  BY DEF FundingInv, RecordsInv, RecordsAgree, KnownRejected
<1>3. \A n \in Namespace : Funding(n) \subseteq Tx /\ Funding(n)' \subseteq Tx
  BY DEF FundingInv, RecordsInv, TypeInv, Funding, TypeOK, TxTypeOK
<1>4. \A n \in Namespace : (\E t \in Funding(n) : KnownRejected(t)) <=> Refused(n)
  BY <1>1, <1>3 DEF Refused
<1>5. \A n \in Namespace : (\E t \in Funding(n)' : KnownRejected(t)') <=> Refused(n)'
  BY <1>2, <1>3 DEF Refused
<1>. QED
  BY <1>4, <1>5 DEF OutcomeIsByRow, Outcome

\* Steps that send nothing, refuse nothing and finish nothing do not show.
LEMMA Unseen ==
  ASSUME FundingInv, FundingInv', UNCHANGED <<sent, ready>>,
         \A t \in sent : pays'[t] = pays[t] /\ (row'[t] = "rejected" <=> row[t] = "rejected")
  PROVE  UNCHANGED <<FundingOf, OutcomeOf>>
<1>1. OutcomeIsByRow /\ OutcomeIsByRow'
  BY OutcomeByRow
<1>2. \A n \in Namespace : Funding(n)' = Funding(n)
  BY DEF Funding
<1>3. \A n \in Namespace : Refused(n)' <=> Refused(n)
  BY <1>2 DEF Refused, Funding
<1>4. \A n \in Namespace : Outcome(n)' = Outcome(n)
  BY <1>1, <1>3 DEF OutcomeIsByRow
<1>. QED
  BY <1>2, <1>4 DEF FundingOf, OutcomeOf

\* Handing a transaction to the network commits its namespace, the first time.
LEMMA SendCommits ==
  ASSUME FundingInv, FundingInv', NEW n \in Namespace, Resubmit(n) \/ Submit(n)
  PROVE  [Promise!Next]_<<FundingOf, OutcomeOf>>
<1>1. PICK t \in Tx : t = hand[n] /\ pc[n] \in {"resubmit", "submit"}
  BY DEF Resubmit, Submit, Send, At, FundingInv, RecordsInv, TypeInv, HandInv, WithTx, Signing
<1>2. /\ sent' = sent \cup {t}
      /\ UNCHANGED <<ready, pays, row>>
  BY <1>1 DEF Resubmit, Submit, Send, HandToNetwork, nsVars
<1>3. row[t] \in {"completed", "broadcast"} /\ ckpt[t] # "none"
  BY <1>1 DEF FundingInv, RecordsInv, PlaceInv, Holding
<1>4. CASE t \in sent
  <2>1. sent' = sent
    BY <1>2, <1>4
  <2>. QED
    BY <1>2, <2>1, Unseen
<1>5. CASE t \notin sent
  <2>1. PICK m \in Namespace : m = pays[t]
    <3>1. pays[t] # None
      BY <1>1, <1>3 DEF FundingInv, ForwardInv
    <3>. QED
      BY <1>1, <3>1 DEF FundingInv, RecordsInv, TypeInv, TypeOK
  <2>2. \A u \in sent : pays[u] # m
    BY <1>1, <1>3, <1>5, <2>1 DEF FundingInv, CheckpointInv
  <2>3. Funding(m) = {} /\ Funding(m)' = {t}
    BY <1>1, <1>2, <2>1, <2>2 DEF Funding
  <2>4. \A k \in Namespace : k # m => Funding(k)' = Funding(k)
    BY <1>2, <2>1 DEF Funding
  <2>5. \A k \in Namespace : t \notin Funding(k)
    BY <1>5 DEF Funding
  <2>6. FundingOf' = [FundingOf EXCEPT ![m] = {t}]
    BY <2>1, <2>3, <2>4 DEF FundingOf
  <2>7. \A k \in Namespace : Refused(k)' <=> Refused(k)
    <3>1. ~Refused(m) /\ ~Refused(m)'
      BY <1>2, <1>3, <2>3 DEF Refused
    <3>. QED
      BY <1>2, <2>4, <3>1 DEF Refused
  <2>8. \A k \in Namespace : Outcome(k)' = Outcome(k)
    BY <1>2, <2>7, OutcomeByRow DEF OutcomeIsByRow
  <2>9. UNCHANGED OutcomeOf
    BY <2>8 DEF OutcomeOf
  <2>10. Promise!Commit(m, t)
    BY <2>1, <2>3, <2>5, <2>6, <2>9 DEF Promise!Commit, FundingOf, OutcomeOf
  <2>. QED
    BY <1>1, <2>1, <2>10 DEF Promise!Next
<1>. QED
  BY <1>4, <1>5

\* A refusal concludes the namespace the transaction pays, unless it has passed already.
LEMMA RefusalConcludes ==
  ASSUME FundingInv, FundingInv', NEW n \in Namespace, RejectRow(n)
  PROVE  [Promise!Next]_<<FundingOf, OutcomeOf>>
<1>1. PICK t \in Tx : t = hand[n] /\ pc[n] = "rejectRow"
  BY DEF RejectRow, At, FundingInv, RecordsInv, TypeInv, HandInv, WithTx, Rejecting
<1>2. /\ row' = [row EXCEPT ![t] = "rejected"]
      /\ UNCHANGED <<ready, pays, sent>>
  BY <1>1 DEF RejectRow, MarkRow, SetRow, nsVars
<1>3. \A u \in Tx : row[u] # "rejected"
  BY <1>1 DEF FundingInv, RefusedInv
<1>4. row' \in [Tx -> RowStatus] /\ sent \subseteq Tx /\ row \in [Tx -> RowStatus]
  BY DEF FundingInv, RecordsInv, TypeInv, TypeOK, TxTypeOK
<1>5. OutcomeIsByRow /\ OutcomeIsByRow'
  BY OutcomeByRow
<1>6. \A k \in Namespace : Funding(k)' = Funding(k)
  BY <1>2 DEF Funding
<1>7. \A k \in Namespace : ~Refused(k)
  BY <1>3, <1>4 DEF Refused, Funding
<1>8. \A k \in Namespace : Refused(k)' <=> t \in sent /\ k = pays[t]
  BY <1>1, <1>2, <1>3, <1>4 DEF Refused, Funding
<1>9. ASSUME NEW m \in Namespace, t \in sent, m = pays[t], ~ready[m]
      PROVE  [Promise!Next]_<<FundingOf, OutcomeOf>>
  <2>1. Outcome(m) = "open" /\ Outcome(m)' = "refused"
    BY <1>2, <1>5, <1>7, <1>8, <1>9 DEF OutcomeIsByRow
  <2>2. \A k \in Namespace : k # m => Outcome(k)' = Outcome(k)
    BY <1>2, <1>5, <1>7, <1>8, <1>9 DEF OutcomeIsByRow
  <2>3. OutcomeOf' = [OutcomeOf EXCEPT ![m] = "refused"]
    BY <2>1, <2>2 DEF OutcomeOf
  <2>4. t \in Funding(m)
    BY <1>9 DEF Funding
  <2>5. Promise!Conclude(m, "refused")
    BY <1>6, <2>1, <2>3, <2>4 DEF Promise!Conclude, FundingOf, OutcomeOf
  <2>. QED
    BY <2>5 DEF Promise!Next
<1>10. CASE \A m \in Namespace : t \in sent /\ m = pays[t] => ready[m]
  <2>1. \A k \in Namespace : Outcome(k)' = Outcome(k)
    BY <1>2, <1>5, <1>7, <1>8, <1>10 DEF OutcomeIsByRow
  <2>. QED
    BY <1>6, <2>1 DEF FundingOf, OutcomeOf
<1>. QED
  BY <1>9, <1>10

\* Recipient readiness concludes the namespace.
LEMMA FinishConcludes ==
  ASSUME FundingInv, FundingInv', NEW n \in Namespace, Finish(n)
  PROVE  [Promise!Next]_<<FundingOf, OutcomeOf>>
<1>1. pc[n] = "cleanup"
  BY DEF Finish, At
<1>2. ready' = [ready EXCEPT ![n] = TRUE] /\ UNCHANGED <<row, pays, sent>>
  BY DEF Finish, Vanish
<1>3. CASE ready[n]
  <2>1. ready' = ready
    BY <1>2, <1>3 DEF FundingInv, RecordsInv, TypeInv, TypeOK
  <2>. QED
    BY <1>2, <2>1, Unseen
<1>4. CASE ~ready[n]
  <2>1. \A u \in Tx : row[u] # "rejected"
    BY <1>1 DEF FundingInv, RefusedInv
  <2>2. OutcomeIsByRow /\ OutcomeIsByRow' /\ sent \subseteq Tx /\ TypeOK
    BY OutcomeByRow DEF FundingInv, RecordsInv, TypeInv, TypeOK, TxTypeOK
  <2>3. Outcome(n) = "open"
    BY <1>4, <2>1, <2>2 DEF OutcomeIsByRow, Refused, Funding
  <2>4. pays[evidence[n].tx] = n /\ evidence[n].status = "confirmed"
    BY <1>1 DEF FundingInv, WorkInv, Settling
  <2>5. evidence[n].tx \in Funding(n)
    BY <2>4 DEF FundingInv, EvidenceIsTrue, Funding
  <2>6. \A k \in Namespace : Funding(k)' = Funding(k) /\ (Refused(k)' <=> Refused(k))
    BY <1>2 DEF Funding, Refused
  <2>7. ready'[n] /\ \A k \in Namespace : k # n => ready'[k] = ready[k]
    BY <1>2, <2>2 DEF TypeOK
  <2>8. Outcome(n)' = "funded" /\ \A k \in Namespace : k # n => Outcome(k)' = Outcome(k)
    BY <2>2, <2>6, <2>7 DEF OutcomeIsByRow
  <2>9. OutcomeOf' = [OutcomeOf EXCEPT ![n] = "funded"]
    BY <2>8 DEF OutcomeOf
  <2>10. Promise!Conclude(n, "funded")
    BY <2>3, <2>5, <2>6, <2>9 DEF Promise!Conclude, FundingOf, OutcomeOf
  <2>. QED
    BY <2>10 DEF Promise!Next
<1>. QED
  BY <1>3, <1>4

\* Every step of the command is a step of the promise, or does not show.
LEMMA StepRefines ==
  ASSUME FundingInv, FundingInv', [Next]_vars
  PROVE  [Promise!Next]_<<FundingOf, OutcomeOf>>
<1>. DEFINE Hidden == UNCHANGED <<FundingOf, OutcomeOf>>
<1>. USE DEF Goto, Jump, At, SetCkpt, SetRow, MarkCkpt, MarkRow, nsVars, memory, txVars
<1>1. CASE Network
  <2>1. UNCHANGED <<sent, ready, pays, row>>
    BY <1>1 DEF Network, NodeStep, Moves, Mine, Bury, Reorg, Evict, ArriveLate, LoseLate
  <2>. QED
    BY <2>1, Unseen
<1>2. ASSUME NEW n \in Namespace,
            \/ Start(n) \/ LoadNone(n) \/ LoadOne(n) \/ Query(n) \/ ResubmitAnswered(n)
            \/ RecordAccepted(n) \/ PollAgain(n) \/ RecoveredPending(n) \/ Checks(n)
            \/ WriteInitialized(n) \/ ReadEvidence(n) \/ InitializeWallets(n) \/ Adopt(n)
            \/ SubmissionKnown(n) \/ PersistCheckpoint(n) \/ SubmitAnswered(n)
            \/ MarkCkptAccepted(n) \/ RecordBroadcast(n) \/ RejectCkpt(n) \/ Observe(n)
            \/ ObserveAgain(n) \/ RecordConfirmed(n) \/ RecipientsReady(n)
            \/ RemoveCheckpoint(n) \/ Bail(n) \/ NodeAnswers(n) \/ Deadline(n) \/ Fault(n)
            \/ Kill(n)
     PROVE  Hidden
  <2>1. UNCHANGED <<sent, ready, pays, row>>
    BY <1>2 DEF Start, LoadNone, LoadOne, Query, ResubmitAnswered, Reads, RecordAccepted,
      PollAgain, RecoveredPending, Checks, WriteInitialized, ReadEvidence,
      InitializeWallets, Adopt, RecordSubmission, SubmissionKnown, PersistCheckpoint,
      PersistPrepared, SubmitAnswered, MarkCkptAccepted, RecordBroadcast, RejectCkpt,
      Observe, ObserveAgain, RecordConfirmed, RecipientsReady, Checkpointed,
      RemoveCheckpoint, Bail, Vanish, Unlock, NodeAnswers, Answers, Deadline, Fault, Kill
  <2>. QED
    BY <2>1, Unseen
<1>3. ASSUME NEW n \in Namespace, Resubmit(n) \/ Submit(n)
     PROVE  [Promise!Next]_<<FundingOf, OutcomeOf>>
  BY <1>3, SendCommits
<1>4. ASSUME NEW n \in Namespace, Construct(n) PROVE Hidden
  <2>1. PICK t \in Tx : LockFunds(t) /\ pays' = [pays EXCEPT ![t] = n]
    BY <1>4 DEF Construct
  <2>2. t \notin sent
    BY <2>1, FreshIsNotSent DEF LockFunds, Fresh
  <2>3. \A u \in sent : pays'[u] = pays[u] /\ row'[u] = row[u]
    BY <2>1, <2>2 DEF LockFunds, FundingInv, RecordsInv, TypeInv, TypeOK, TxTypeOK
  <2>4. UNCHANGED <<sent, ready>>
    BY <1>4 DEF Construct, LockFunds
  <2>. QED
    BY <2>3, <2>4, Unseen
<1>5. ASSUME NEW n \in Namespace,
            \/ Reconcile(n) \/ PersistPending(n) \/ PersistSigned(n) \/ MarkRowBroadcast(n)
     PROVE  Hidden
  <2>1. pc[n] \in {"reconcile", "close", "complete", "markRow"}
    BY <1>5 DEF Reconcile, PersistPending, PersistSigned, MarkRowBroadcast
  <2>2. \A t \in Tx : row[t] # "rejected"
    BY <2>1 DEF FundingInv, RefusedInv
  <2>3. \A t \in Tx : row'[t] # "rejected"
    BY <1>5, <2>2 DEF Reconcile, PersistPending, ClosePending, PersistSigned, CreateCompleted,
      MarkRowBroadcast, FundingInv, RecordsInv, TypeInv, TypeOK, TxTypeOK
  <2>4. UNCHANGED <<sent, ready, pays>> /\ sent \subseteq Tx
    BY <1>5 DEF Reconcile, PersistPending, ClosePending, PersistSigned, CreateCompleted,
      MarkRowBroadcast, FundingInv, RecordsInv, TypeInv, TypeOK, TxTypeOK
  <2>. QED
    BY <2>2, <2>3, <2>4, Unseen
<1>6. ASSUME NEW n \in Namespace, RejectRow(n)
     PROVE  [Promise!Next]_<<FundingOf, OutcomeOf>>
  BY <1>6, RefusalConcludes
<1>7. ASSUME NEW n \in Namespace, Finish(n)
     PROVE  [Promise!Next]_<<FundingOf, OutcomeOf>>
  BY <1>7, FinishConcludes
<1>8. CASE UNCHANGED vars
  BY <1>8, Unseen DEF vars
<1>. HIDE DEF Goto, Jump, At, SetCkpt, SetRow, MarkCkpt, MarkRow, nsVars, memory, txVars
<1>. QED
  BY <1>1, <1>2, <1>3, <1>4, <1>5, <1>6, <1>7, <1>8
    DEF Next, Progress, Recover, Prepare, Broadcast, Settle

\* fund-s0, with its recovery, its files and its faults, does no more than FundOnce: a
\* namespace commits to one funding transaction of its own and comes to one outcome.
THEOREM FundsOnceForward ==
  ASSUME Discipline = "forward"
  PROVE  Spec => FundsOnce
<1>1. Init => Promise!Init
  BY DEF Init, TxInit, Promise!Init, Funding, Outcome
<1>2. FundingInv /\ FundingInv' /\ [Next]_vars => [Promise!Next]_<<FundingOf, OutcomeOf>>
  BY StepRefines
<1>. QED
  BY <1>1, <1>2, FundingAlways, PTL DEF Spec, FundsOnce, Promise!Spec, FundingOf, OutcomeOf

=============================================================================
