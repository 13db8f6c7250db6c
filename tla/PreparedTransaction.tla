------------------------ MODULE PreparedTransaction ------------------------
(***************************************************************************)
(* What survives of a prepared transaction: its row in the sending         *)
(* wallet's database, its checkpoint file beside that database, and what   *)
(* the base node holds.  The module gives the durable steps of             *)
(* src/src/live_minotari.rs (persist, checkpoint, submit, mark) and the    *)
(* base node they talk to; the modules that EXTEND it put those steps in   *)
(* the order of the code that takes them.                                  *)
(*                                                                         *)
(* The base node is external.  Its chain is abstracted to where one        *)
(* transaction is: nowhere, in the mempool, in a block above C_min depth,  *)
(* or in a block that C_min blocks bury, which is final.                   *)
(***************************************************************************)

CONSTANTS
    Tx,     \* the transactions a wallet may ever sign
    None    \* no transaction

ASSUME NoneIsNoTx == None \notin Tx

VARIABLES
    node,   \* where the base node holds each transaction
    row,    \* its rows in the wallet database: pending, then completed
    ckpt,   \* its checkpoint file <db>.<tx_id>.prepared-transaction.json
    late,   \* submissions still under way whose caller has gone
    sent    \* history: the transactions ever handed to the network

txVars == <<node, row, ckpt, late, sent>>

Location   == {"notStored", "mempool", "mined", "confirmed"}
RowStatus  == {"none", "locked", "closed", "completed", "broadcast", "rejected"}
CkptState  == {"none", "prepared", "accepted", "rejected"}
Answer     == {"accepted", "alreadyMined", "refused"}

\* The rows mode2_completed_transaction_row finds: those of completed_transactions.
CompletedRow == {"completed", "broadcast", "rejected"}

TxTypeOK ==
    /\ node \in [Tx -> Location]
    /\ row  \in [Tx -> RowStatus]
    /\ ckpt \in [Tx -> CkptState]
    /\ late \in SUBSET Tx
    /\ sent \in SUBSET Tx

TxInit ==
    /\ node = [t \in Tx |-> "notStored"]
    /\ row  = [t \in Tx |-> "none"]
    /\ ckpt = [t \in Tx |-> "none"]
    /\ late = {}
    /\ sent = {}

----------------------------------------------------------------------------
\* The base node.

\* submit_transaction: a transaction the node does not hold enters the mempool or is
\* refused; one already in the mempool is accepted again; one in a block is AlreadyMined.
Answers(t, answer) ==
    \/ /\ node[t] \in {"notStored", "mempool"}
       /\ answer = "accepted"
       /\ node' = [node EXCEPT ![t] = "mempool"]
    \/ /\ node[t] = "notStored"
       /\ answer = "refused"
       /\ UNCHANGED node
    \/ /\ node[t] \in {"mined", "confirmed"}
       /\ answer = "alreadyMined"
       /\ UNCHANGED node

Moves(t, from, to) ==
    /\ node[t] = from
    /\ node' = [node EXCEPT ![t] = to]
    /\ UNCHANGED <<row, ckpt, late, sent>>

Mine(t)  == Moves(t, "mempool", "mined")
Bury(t)  == Moves(t, "mined", "confirmed")
\* A reorganisation shallower than C_min returns a mined transaction to the mempool.
Reorg(t) == Moves(t, "mined", "mempool")
\* The mempool forgets a transaction: the node restarted, or the mempool was full.
Evict(t) == Moves(t, "mempool", "notStored")

\* A submission whose caller timed out or died still reaches the node, or never does.
ArriveLate(t) ==
    /\ t \in late
    /\ \E answer \in Answer : Answers(t, answer)
    /\ late' = late \ {t}
    /\ UNCHANGED <<row, ckpt, sent>>

LoseLate(t) ==
    /\ t \in late
    /\ late' = late \ {t}
    /\ UNCHANGED <<node, row, ckpt, sent>>

NodeStep == \E t \in Tx :
    Mine(t) \/ Bury(t) \/ Reorg(t) \/ Evict(t) \/ ArriveLate(t) \/ LoseLate(t)

----------------------------------------------------------------------------
\* The durable steps of one transaction.

SetRow(t, status) == row' = [row EXCEPT ![t] = status]
SetCkpt(t, state) == ckpt' = [ckpt EXCEPT ![t] = state]

\* A transaction id is fresh while the wallet has never made a row for it.
Fresh(t) == row[t] = "none"

\* FundLocker::lock: the outputs are locked under a new pending_transactions row.
LockFunds(t) ==
    /\ Fresh(t)
    /\ SetRow(t, "locked")
    /\ UNCHANGED <<node, ckpt, late, sent>>

\* persist_signed_transaction makes two statements, each durable by itself.
ClosePending(t) ==
    /\ SetRow(t, "closed")
    /\ UNCHANGED <<node, ckpt, late, sent>>

CreateCompleted(t) ==
    /\ SetRow(t, "completed")
    /\ UNCHANGED <<node, ckpt, late, sent>>

\* persist_prepared_transaction_checkpoint
PersistPrepared(t) ==
    /\ SetCkpt(t, "prepared")
    /\ UNCHANGED <<node, row, late, sent>>

\* submit_transaction_without_retry, up to the request leaving the process
HandToNetwork(t) ==
    /\ sent' = sent \cup {t}
    /\ UNCHANGED <<node, row, ckpt, late>>

\* mark_completed_transaction_as_broadcasted and _as_rejected
MarkRow(t, status) ==
    /\ SetRow(t, status)
    /\ UNCHANGED <<node, ckpt, late, sent>>

\* mark_prepared_transaction_checkpoint_accepted and _rejected: each re-reads the
\* file and fails when it has gone.
MarkCkpt(t, state) ==
    /\ ckpt[t] # "none"
    /\ SetCkpt(t, state)
    /\ UNCHANGED <<node, row, late, sent>>

Checkpointed == {t \in Tx : ckpt[t] # "none"}

\* Mutant of KnownRejected: only the file is asked.
CkptRejected(t) == ckpt[t] = "rejected"

\* recover_prepared_transaction_checkpoint_at calls the transaction rejected when
\* either record says so: the row is marked before the file.
KnownRejected(t) == ckpt[t] = "rejected" \/ row[t] = "rejected"

=============================================================================
