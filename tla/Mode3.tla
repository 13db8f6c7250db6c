------------------------------- MODULE Mode3 -------------------------------
(***************************************************************************)
(* Mode 3 from end to end: the programs it starts (module ManagedProcess), *)
(* its S4 and S5 against the payment processor (module PaymentProcessor),  *)
(* and how it leaves: annotate_mode3_payment_processor and what it calls   *)
(* in src/src/live_minotari/mode3.rs, PpScenarioSummary of                 *)
(* src/src/live_minotari.rs, and the interrupt of src/src/main.rs.         *)
(*                                                                         *)
(* S4 dispatches its configured batches one arm after the other, the       *)
(* requests of an arm at once; S5, here arm 0, one request at a time.      *)
(* The rounds of S1 are in module Scenarios; here S1 just completes or not.*)
(***************************************************************************)
EXTENDS ManagedProcess, PaymentProcessor, Naturals, FiniteSetsExt

CONSTANTS
    Signer, Receiver, Processor,    \* the three programs
    Configs,                        \* the arm of every batch
    Cost                            \* what a batch takes from the balance

ASSUME TopologyAssumption ==
    /\ Process = {Signer, Receiver, Processor}
    /\ Signer # Receiver /\ Signer # Processor /\ Receiver # Processor

ASSUME ConfigAssumption ==
    /\ Configs \subseteq [Batch -> Nat]
    /\ Cost \in [Batch -> Nat \ {0}]

Balance(bs) == MapThenSumSet(LAMBDA b : Cost[b], bs)

\* No batches of S4 take exactly as much from the balance as batches of S5 do.  A batch of S4
\* is one payment and its fee; one of S5 is S5_K payments of that amount with a single fee,
\* which in the reference parameters (S5_K = 10, config.rs) is less than ten fees.  With
\* S5_K = 1, which config.rs admits for runs that are not canonical, it would not hold.
ASSUME CostAssumption ==
    \A config \in Configs :
        \A inS4 \in SUBSET {b \in Batch : config[b] # 0}, inS5 \in SUBSET {b \in Batch : config[b] = 0} :
            Balance(inS4) = Balance(inS5) => inS5 = {}

VARIABLES
    pc,         \* where the harness is
    held,       \* the processes it holds
    fate,       \* why it leaves
    arms,       \* the configuration of this run
    arm,        \* the arm it is at
    overdue,    \* the time of that arm is over
    latest,     \* batches settled in the arm's latest snapshot of the database
    proofs,     \* batches with a proof from the chain: chain_proofs
    shot,       \* batches settled in the scenario's merged snapshots: db_snapshot
    expired,    \* the last observation ran out of time: db_observation_timed_out
    base,       \* the receiver's balance debits when the scenario began, if it was read
    stateError  \* the receiver did not come to the expected balance

summary == <<arm, overdue, latest, proofs, shot, expired, base, stateError>>
vars    == <<procVars, ppVars, pc, held, fate, arms, summary>>

Starting == {"start", "signer", "receiver", "processor", "s0"}
Sending  == {"submit", "observe", "observed", "balance", "record"}
Leaving  == {"shutProcessor", "shutReceiver", "dropping"}

Members(a) == {b \in Batch : arms[b] = a}
IsS5       == arm = 0

\* The batches of the scenario that is at work.
Mine == IF IsS5 THEN Members(0) ELSE Batch \ Members(0)

\* Mutant of accepted: the ids of requests that failed are kept as well.
all_asked == {b \in Mine : rec[b] # "none"}

accepted == {b \in Mine : rec[b] = "accepted"}

\* The service has made up its mind about the batch; FAILED stands for CANCELLED too.
Settled == {b \in Batch : db[b] \in {"CONFIRMED", "FAILED"}}

TypeOK ==
    /\ ProcTypeOK
    /\ PPTypeOK
    /\ pc \in Starting \cup Sending \cup Leaving \cup {"ended"}
    /\ held \subseteq Process
    /\ fate \in {"none", "complete", "blocked", "startup", "error", "interrupted"}
    /\ arms \in Configs
    /\ arm \in Nat
    /\ overdue \in BOOLEAN
    /\ latest \subseteq {b \in Members(arm) : rec[b] = "accepted" /\ b \in Settled}
    /\ proofs \subseteq {b \in Batch : rec[b] = "accepted" /\ node[b] = "deep"}
    /\ shot \subseteq {b \in Mine : rec[b] = "accepted" /\ b \in Settled}
    /\ expired \in BOOLEAN
    /\ base \in 0..Balance(Batch) \cup {None}
    /\ stateError \in BOOLEAN

\* PpScenarioSummary::default
FreshSummary ==
    /\ arm = 1 /\ overdue = FALSE /\ latest = {} /\ proofs = {} /\ shot = {} /\ expired = FALSE
    /\ base = 0 /\ stateError = FALSE

Init ==
    /\ ProcInit /\ PPInit /\ FreshSummary
    /\ pc = "start" /\ held = {} /\ fate = "none"
    /\ arms \in Configs

\* With run_mode3_send_cells its summaries are gone, and nobody looks at what the
\* service does any more: the model forgets both.
Forget ==
    /\ rec' = [b \in Batch |-> "none"] /\ wire' = {} /\ db' = [b \in Batch |-> "none"]
    /\ node' = [b \in Batch |-> "unsent"] /\ debited' = {}
    /\ arm' = 1 /\ overdue' = FALSE /\ latest' = {} /\ proofs' = {} /\ shot' = {}
    /\ expired' = FALSE /\ base' = 0 /\ stateError' = FALSE

Quiet == UNCHANGED <<ppVars, arms, summary>>

----------------------------------------------------------------------------
\* start_mode3_topology.

Start(p, next) ==
    /\ Spawned(p)
    /\ held' = held \cup {p}
    /\ pc' = next

\* The processes that were started are dropped on the way out.
StartupFails ==
    /\ pc \in {"start", "receiver", "processor"} \/ (pc = "signer" /\ how \in {"ok", "failed"})
    /\ pc' = "dropping" /\ fate' = "startup"
    /\ at' = None /\ how' = "idle"
    /\ UNCHANGED <<leader, rest, told, held>> /\ Quiet

\* ensure_console_wallet_base: the signer is started and waited for.
StartSigner ==
    /\ pc = "start"
    /\ Start(Signer, "signer")
    /\ at' = Signer /\ how' = "wait"
    /\ UNCHANGED fate /\ Quiet

\* The signer ended well and is dropped; the receiver is started.
StartReceiver ==
    /\ pc = "signer" /\ how = "ok"
    /\ Spawned(Receiver)
    /\ held' = {Receiver}
    /\ pc' = "receiver"
    /\ at' = None /\ how' = "idle"
    /\ UNCHANGED fate /\ Quiet

\* wait_for_payment_receiver, and its balance has the funding.
StartProcessor ==
    /\ pc = "receiver"
    /\ Receiver \in leader
    /\ Start(Processor, "processor")
    /\ UNCHANGED <<at, how, fate>> /\ Quiet

\* wait_for_payment_processor
Healthy ==
    /\ pc = "processor"
    /\ Processor \in leader
    /\ pc' = "s0"
    /\ UNCHANGED <<procVars, held, fate>> /\ Quiet

\* record_mode3_s0, then the rounds of S1 and the scans after them.  A cell that is
\* not complete blocks what follows; an error of the scans leaves through the run.
Gate(outcome) ==
    /\ pc = "s0"
    /\ \/ /\ outcome = "complete"
          /\ pc' = "submit" /\ base' \in {Balance(debited), None} /\ UNCHANGED fate
       \/ outcome = "blocked" /\ pc' = "shutProcessor" /\ fate' = "blocked" /\ UNCHANGED base
       \/ outcome = "error" /\ pc' = "dropping" /\ fate' = "error" /\ UNCHANGED base
    /\ UNCHANGED <<procVars, ppVars, held, arms, arm, overdue, latest, proofs, shot, expired, stateError>>

----------------------------------------------------------------------------
\* run_pp_batches_concurrent and run_pp_recipient_batches_sequential.

Asked(a) == {b \in Members(a) : rec[b] # "none"}
InFlight == {b \in Members(arm) : rec[b] = "calling"}
Harness  == UNCHANGED <<procVars, held, fate, arms>>

Submit ==
    /\ pc = "submit"
    /\ IF IsS5 THEN /\ InFlight = {}
                    /\ \E b \in Members(arm) \ Asked(arm) : Call({b})
               ELSE Asked(arm) = {} /\ Call(Members(arm))
    /\ UNCHANGED <<pc, summary>> /\ Harness

Respond(b) ==
    /\ pc = "submit"
    /\ b \in InFlight
    /\ Accepted(b) \/ Failed(b)
    /\ UNCHANGED <<pc, summary>> /\ Harness

\* The S4 deadline is one for the requests and the observation; that of S5 begins here.
AllAnswered ==
    /\ pc = "submit"
    /\ Asked(arm) = Members(arm) /\ InFlight = {}
    /\ pc' = "observe"
    /\ overdue' = (overdue /\ ~IsS5)
    /\ UNCHANGED <<ppVars, arm, latest, proofs, shot, expired, base, stateError>> /\ Harness

\* abort_all; what is pending is recorded as failed.
SubmitDeadline ==
    /\ pc = "submit" /\ ~IsS5 /\ overdue
    /\ InFlight # {}
    /\ rec' = [b \in Batch |-> IF b \in InFlight THEN "failed" ELSE rec[b]]
    /\ pc' = "observe"
    /\ UNCHANGED <<wire, db, node, debited, summary>> /\ Harness

Expire ==
    /\ pc \in {"submit", "observe"}
    /\ ~overdue
    /\ overdue' = TRUE
    /\ UNCHANGED <<ppVars, pc, arm, latest, proofs, shot, expired, base, stateError>> /\ Harness

----------------------------------------------------------------------------
\* observe_db: every second a snapshot of the service's database, and of the batches
\* that it calls confirmed, a query of the chain.

pp_observation_complete(ids, proven) ==
    \A b \in ids : db[b] = "FAILED" \/ (db[b] = "CONFIRMED" /\ b \in proven)

\* Mutant of chain_proofs: what the last snapshot's queries proved, and no more.
proofs_of_last(proved) == proved \cup (proofs \ Members(arm))

chain_proofs(proved) == proofs \cup proved

\* inspect_payment_processor_db: of the ids, those the service calls confirmed or failed.
snapshot(ids) == ids \cap Settled

\* verify_pp_snapshot_chain: a proof for some of the confirmed ones that are deep; a query
\* that fails or comes too late proves nothing.
provable(seen) == SUBSET {b \in seen : db[b] = "CONFIRMED" /\ node[b] = "deep"}

ObserveOnce ==
    LET asked == accepted \cap Members(arm)
    IN  /\ pc = "observe" /\ ~overdue
        /\ asked # {}
        /\ latest' = snapshot(asked)
        /\ \E proved \in provable(latest') : proofs' = chain_proofs(proved)
        /\ pc' = IF pp_observation_complete(asked, proofs') THEN "observed" ELSE "observe"
        /\ UNCHANGED <<ppVars, arm, overdue, shot, expired, base, stateError>> /\ Harness

\* Mutant of merge_pp_snapshot: the later arm's snapshot replaces the earlier one's.
replace_pp_snapshot(target, source) == source

merge_pp_snapshot(target, source) == target \cup source

\* Mutant of TimedOut: what was accepted is waited for.
AllFailedToSend == accepted \cap Members(arm) = {}

\* Without a batch to look for the observation is over before it begins.
TimedOut == overdue \/ accepted \cap Members(arm) = {}

\* add_batch: the arm's observations join the scenario's, and its word on the time replaces
\* the earlier arm's, if it observed anything; then the next arm of S4.
AddBatch ==
    /\ pc = "observed" \/ (pc = "observe" /\ TimedOut)
    /\ shot' = merge_pp_snapshot(shot, latest)
    /\ expired' = IF accepted \cap Members(arm) = {} THEN expired ELSE pc = "observe"
    /\ latest' = {} /\ overdue' = FALSE
    /\ IF ~IsS5 /\ Members(arm + 1) # {} THEN arm' = arm + 1 /\ pc' = "submit"
                            ELSE pc' = "balance" /\ UNCHANGED arm
    /\ UNCHANGED <<ppVars, proofs, base, stateError>> /\ Harness

----------------------------------------------------------------------------
\* wait_for_pp_receiver_balance, record_pp_summary.

expected_balance == base + Balance(proofs \cap Mine)

\* A balance that was not read before cannot be waited for.
BalanceRead ==
    /\ pc = "balance"
    /\ base # None => Balance(debited) = expected_balance
    /\ pc' = "record"
    /\ UNCHANGED <<ppVars, summary>> /\ Harness

BalanceTimesOut ==
    /\ pc = "balance"
    /\ base # None
    /\ stateError' = TRUE
    /\ pc' = "record"
    /\ UNCHANGED <<ppVars, arm, overdue, latest, proofs, shot, expired, base>> /\ Harness

\* verified_transactions: a row needs the service's word and the chain's.
Verified == {b \in shot : db[b] = "CONFIRMED"} \cap proofs

\* Mutant of Status: the accepted batches decide.
StatusOfAccepted(blocked) ==
    IF blocked THEN "BlockedUpstream"
    ELSE IF Cardinality(accepted) = Cardinality(Verified) /\ ~stateError THEN "Ok" ELSE "Failed"

\* record_pp_summary; an error text of the service's that speaks of signing or
\* broadcasting outranks everything.
Status(blocked) ==
    IF blocked THEN "BlockedUpstream"
    ELSE IF Cardinality(Mine) = Cardinality(Verified) /\ ~stateError THEN "Ok" ELSE "Failed"

\* The response said so, or the service, which failed it.
refused == {b \in Mine : rec[b] = "failed"} \cup {b \in shot : db[b] = "FAILED"}

\* transaction_observations
Outcome(b) ==
    CASE b \in proofs            -> "confirmed"
      [] b \in refused \ proofs  -> "rejected"
      [] OTHER -> IF expired THEN "timed_out" ELSE "stalled"

\* S5 begins from the state that S4 left, whatever became of S4, with a new summary.
RecordS4 ==
    /\ pc = "record" /\ ~IsS5
    /\ pc' = "submit" /\ arm' = 0
    /\ base' \in {Balance(debited), None}
    /\ rec' = [b \in Batch |-> "none"]
    /\ proofs' = {} /\ shot' = {} /\ expired' = FALSE /\ stateError' = FALSE
    /\ UNCHANGED <<wire, db, node, debited, overdue, latest>> /\ Harness

\* After S5 come scans, whose error leaves through the run.
RecordS5 ==
    /\ pc = "record" /\ IsS5
    /\ \/ pc' = "shutProcessor" /\ fate' = "complete"
       \/ pc' = "dropping" /\ fate' = "error"
    /\ Forget
    /\ UNCHANGED <<procVars, held, arms>>

----------------------------------------------------------------------------
\* The ways out.

\* ManagedProcess::shutdown of the processor, then of the receiver.
Shutdown ==
    \/ pc = "shutProcessor" /\ how = "idle" /\ BeginShutdown(Processor) /\ UNCHANGED <<pc, fate>>
    \/ pc = "shutReceiver" /\ how = "idle" /\ BeginShutdown(Receiver) /\ UNCHANGED <<pc, fate>>

ShutdownReturns ==
    /\ pc \in {"shutProcessor", "shutReceiver"}
    /\ \/ how = "ok" /\ pc = "shutProcessor" /\ pc' = "shutReceiver" /\ UNCHANGED fate
       \/ how = "ok" /\ pc = "shutReceiver" /\ pc' = "dropping" /\ UNCHANGED fate
       \/ how = "failed" /\ pc' = "dropping" /\ fate' = "error"
    /\ at' = None /\ how' = "idle"
    /\ UNCHANGED <<leader, rest, told>>

\* SIGINT or SIGTERM: main drops the future, wherever it awaits.
Interrupt ==
    /\ pc \in {"signer", "receiver", "processor", "s0", "shutProcessor", "shutReceiver"} \cup Sending
    /\ pc' = "dropping" /\ fate' = "interrupted"
    /\ at' = None /\ how' = "idle"
    /\ Forget
    /\ UNCHANGED <<leader, rest, told, held, arms>>

\* The drop of each process that is held, one after the other.
DropNext ==
    /\ pc = "dropping" /\ how = "idle"
    /\ \E p \in held : BeginDrop(p)
    /\ UNCHANGED <<pc, held, fate>>

Dropped ==
    /\ pc = "dropping" /\ how = "dropped"
    /\ held' = held \ {at}
    /\ at' = None /\ how' = "idle"
    /\ UNCHANGED <<leader, rest, told, pc, fate>>

AllDropped ==
    /\ pc = "dropping" /\ held = {}
    /\ pc' = "ended"
    /\ UNCHANGED <<procVars, held, fate>>

----------------------------------------------------------------------------

\* A limit passes or a check is made: the harness alone decides when.
EndingStep == Ending /\ UNCHANGED <<pc, held, fate>> /\ Quiet

Lifecycle ==
    \/ StartupFails \/ StartSigner \/ StartReceiver \/ StartProcessor \/ Healthy
    \/ \E outcome \in {"complete", "blocked", "error"} : Gate(outcome)
    \/ EndingStep
    \/ (Shutdown \/ ShutdownReturns) /\ UNCHANGED held /\ Quiet
    \/ (DropNext \/ Dropped \/ AllDropped) /\ Quiet

Sends ==
    \/ Submit \/ AllAnswered \/ SubmitDeadline \/ Expire
    \/ \E b \in Batch : Respond(b)
    \/ ObserveOnce \/ AddBatch \/ BalanceRead \/ BalanceTimesOut \/ RecordS4 \/ RecordS5

\* While the scenarios run nobody looks for the children of a process that ended.
World ==
    /\ \/ (\E p \in Process : LeaderExits(p) \/ (pc \notin Sending /\ RestExits(p))) /\ UNCHANGED ppVars
       \/ /\ pc \in Sending
          /\ \/ Processor \in leader /\ Service
             \/ \E b \in Batch : Deep(b)
             \/ Receiver \in leader /\ \E b \in Batch : Debit(b)
          /\ UNCHANGED procVars
    /\ UNCHANGED <<pc, held, fate, arms, summary>>

Next == Lifecycle \/ Sends \/ Interrupt \/ World

Spec == Init /\ [][Next]_vars

\* The harness takes the step it can take, and time passes.  Nothing is assumed of the
\* programs, the chain or the signals.
FairSpec == Spec /\ WF_vars(Lifecycle) /\ WF_vars(Sends)

----------------------------------------------------------------------------
\* Properties.

\* A cell that is recorded a success is settled: every batch that was asked for, not
\* only the accepted ones, is deep in the chain, and the receiver's balance, if it was
\* read before, has been reduced by each of them, not by a late batch of S4 in its place.
OkIsSettled ==
    pc = "record" /\ Status(FALSE) = "Ok" =>
        \A b \in Mine : node[b] = "deep" /\ (base # None => b \in debited)

\* What was proved from the chain stays proved: a later snapshot, a query that fails or
\* the merge of the arms takes no proof away until the scenario is recorded.
ProofsStand == [][pc' \in Sending /\ pc # "record" => proofs \subseteq proofs']_vars

\* At the record the verified transactions of the profile are exactly the attempts whose
\* observation says confirmed, over all arms.
RowsMatchObservations ==
    pc = "record" => Verified = {b \in Mine : Outcome(b) = "confirmed"}

\* A process group the harness lets go of is gone or was killed, however that comes
\* about: success, an error, a start that fails, an interrupt.  After shutdowns that
\* succeeded there is none left.
NoChildSurvives ==
    /\ \A p \in Process \ held : Doomed(p)
    /\ pc = "ended" /\ fate \in {"complete", "blocked"} => leader \cup rest = {}

\* The observation of an arm ends although the service is dead or never gets there.
ObserveEnds == pc = "observe" ~> pc # "observe"

\* Leaving ends although processes ignore SIGTERM, or linger after SIGKILL.
LeavingEnds == pc \in Leaving ~> pc = "ended"

=============================================================================
