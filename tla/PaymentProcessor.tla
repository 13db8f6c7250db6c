-------------------------- MODULE PaymentProcessor --------------------------
(***************************************************************************)
(* The payment processor as mode 3 meets it: a service with a database of  *)
(* its own that accepts batches of payments over HTTP and pays them by     *)
(* itself, the base node that holds their transactions, and the payment    *)
(* receiver, the wallet whose balance they reduce.  The three programs are *)
(* external; the requests are those of src/src/payment_processor.rs.       *)
(*                                                                         *)
(* One batch is one transaction.  What is deep in the chain stays there,   *)
(* and a batch that the service calls confirmed or failed stays so.        *)
(***************************************************************************)
EXTENDS FiniteSets

CONSTANT
    Batch       \* the batches of payments of S4 and S5

ASSUME BatchAssumption == IsFiniteSet(Batch)

VARIABLES
    rec,        \* what is on record of each request
    wire,       \* the requests that are on their way
    db,         \* each batch in the service's database
    node,       \* its transaction at the base node
    debited     \* the batches the receiver's balance is reduced by

ppVars == <<rec, wire, db, node, debited>>

PPTypeOK ==
    /\ rec \in [Batch -> {"none", "calling", "accepted", "failed"}]
    /\ wire \subseteq {b \in Batch : db[b] = "none"}
    /\ db \in [Batch -> {"none", "PENDING", "CONFIRMED", "FAILED"}]
    /\ node \in [Batch -> {"unsent", "sent", "deep"}]
    /\ debited \subseteq {b \in Batch : node[b] = "deep"}

PPInit ==
    /\ rec = [b \in Batch |-> "none"] /\ wire = {} /\ db = [b \in Batch |-> "none"]
    /\ node = [b \in Batch |-> "unsent"] /\ debited = {}

----------------------------------------------------------------------------
\* create_payment_batch, as the harness calls it.

\* The requests of a set leave.
Call(bs) ==
    /\ rec' = [b \in Batch |-> IF b \in bs THEN "calling" ELSE rec[b]]
    /\ wire' = wire \cup bs
    /\ UNCHANGED <<db, node, debited>>

\* The response names the batch.
Accepted(b) ==
    /\ rec[b] = "calling"
    /\ db[b] # "none"
    /\ rec' = [rec EXCEPT ![b] = "accepted"]
    /\ UNCHANGED <<wire, db, node, debited>>

\* The service refuses, nobody listens, or 30 seconds pass: with the request still on
\* its way, or with the batch accepted and the response lost.
Failed(b) ==
    /\ rec[b] = "calling"
    /\ rec' = [rec EXCEPT ![b] = "failed"]
    /\ UNCHANGED <<wire, db, node, debited>>

----------------------------------------------------------------------------
\* The service, while its process lives.

\* A request that it refuses is one that never arrives.
Receive(b) ==
    /\ b \in wire
    /\ wire' = wire \ {b}
    /\ db' = [db EXCEPT ![b] = "PENDING"]
    /\ UNCHANGED <<rec, node, debited>>

Pay(b) ==
    /\ db[b] = "PENDING"
    /\ node[b] = "unsent"
    /\ node' = [node EXCEPT ![b] = "sent"]
    /\ UNCHANGED <<rec, wire, db, debited>>

\* It calls a batch confirmed on its own count of blocks, and failed after its retries,
\* its transaction sent or not.
Settle(b) ==
    /\ db[b] = "PENDING"
    /\ \/ node[b] # "unsent" /\ db' = [db EXCEPT ![b] = "CONFIRMED"]
       \/ db' = [db EXCEPT ![b] = "FAILED"]
    /\ UNCHANGED <<rec, wire, node, debited>>

Service == \E b \in Batch : Receive(b) \/ Pay(b) \/ Settle(b)

\* The chain goes on.
Deep(b) ==
    /\ node[b] = "sent"
    /\ node' = [node EXCEPT ![b] = "deep"]
    /\ UNCHANGED <<rec, wire, db, debited>>

\* The receiver, while its process lives, scans the chain.
Debit(b) ==
    /\ node[b] = "deep"
    /\ b \notin debited
    /\ debited' = debited \cup {b}
    /\ UNCHANGED <<rec, wire, db, node>>

=============================================================================
