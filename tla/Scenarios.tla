----------------------------- MODULE Scenarios -----------------------------
(***************************************************************************)
(* A whole run: the three modes one after the other, S0 to S7 of each, the *)
(* rounds of S1, the cells they leave in the result profile, its           *)
(* checkpoints and the validation of the final one.                        *)
(* annotate_profile_with_library_smoke of src/src/live_minotari.rs, the    *)
(* annotate_ functions and S1 loops of src/src/live_minotari/mode*.rs,     *)
(* src/src/result_profile.rs and src/src/profile_validation/mod.rs.        *)
(*                                                                         *)
(* B0 is imported (module PrepareB0) and left out. What goes on inside one *)
(* scan is in FixedTipScan, inside an S4 or S5 in SendDispatch, Mode3 and  *)
(* Confirmation; here they end in any way they can.                        *)
(*                                                                         *)
(* An S1 transaction turns one spendable output into several. The wallet   *)
(* shows them at its own time, and may have selected more than one input.  *)
(***************************************************************************)
EXTENDS Naturals, Sequences, FiniteSetsExt

CONSTANTS
    Configs,                    \* the configurations
    doubling_rounds,
    fanout_outputs_per_tx,
    volume_target,              \* 512 in the reference configuration
    Calls,                      \* the calls of S4, and those of S5
    None                        \* what could not be read

Modes     == {"old_wallet", "new_wallet", "payment_processor"}
Scenario  == {"S0", "S1", "S2", "S3", "S4", "S5", "S6", "S7"}
ScanCells == {"S2", "S3", "S6", "S7"}

ASSUME ScenariosAssumption ==
    /\ Configs \subseteq [live : SUBSET Modes, scans : BOOLEAN, cap : [Modes -> Nat],
                          scan_repetitions : Nat \ {0}, canonical : BOOLEAN]
    /\ doubling_rounds \in Nat
    /\ fanout_outputs_per_tx \in Nat \ {0}
    /\ volume_target \in Nat \ {0}
    /\ Calls \in Nat \ {0}
    /\ None \notin Nat

VARIABLES
    config,     \* the configuration of this run
    pc,         \* where the harness is
    mode,       \* the mode it is at
    cells,      \* the repetitions recorded for each cell of the mode
    round,      \* the round of S1
    sent,       \* transactions of the round submitted so far
    tx,         \* the summary of the round
    total,      \* the summary of S1, then of S4 and S5
    view,       \* spendable outputs the wallet shows
    late,       \* accepted transactions of the round whose outputs it does not show yet
    observed,   \* the count of outputs read after the latest round
    kept,       \* rounds whose metrics satisfy the contract
    unspent,    \* unspent_after of S1's cell
    profile,    \* of each finished mode, what the final validation reads
    stages,     \* completed_stages
    file        \* the final profile

s1Vars  == <<round, sent, tx, view, late, observed, kept>>
outVars == <<profile, stages, file>>
vars    == <<config, pc, mode, cells, s1Vars, total, unspent, outVars>>

----------------------------------------------------------------------------
(* s1_round_plan *)

Least(a, b) == IF a <= b THEN a ELSE b

\* No cap: more transactions than any plan has.
Uncapped == 2 * volume_target

\* After every doubling round: the outputs there are, and what the cap leaves.
Doubled(cap) ==
    LET after[r \in 0..doubling_rounds] ==
          IF r = 0 THEN [utxos |-> 1, left |-> IF cap = 0 THEN Uncapped ELSE cap]
          ELSE LET before == after[r - 1]
                   n      == Least(before.utxos, before.left)
               IN [utxos |-> before.utxos + n, left |-> before.left - n]
    IN after

Cap == config.cap[mode]

TxCount == [r \in 1..doubling_rounds + 1 |-> Least(Doubled(Cap)[r - 1].utxos, Doubled(Cap)[r - 1].left)]

OutputsPerTx(r) == IF r <= doubling_rounds THEN 2 ELSE fanout_outputs_per_tx

Rounds == {r \in 1..doubling_rounds + 1 : Doubled(Cap)[r - 1].left > 0}

LastRound == Cardinality(Rounds)

Target(r) ==
    IF r <= doubling_rounds
    THEN Doubled(Cap)[r].utxos
    ELSE Least(Doubled(Cap)[doubling_rounds].utxos + (fanout_outputs_per_tx - 1) * TxCount[r], volume_target)

\* The transactions of the first rounds.
TxUpTo(r) == MapThenSumSet(LAMBDA i : TxCount[i], 1..r)

----------------------------------------------------------------------------
(* What the modes' summaries keep: calls attempted, ids on record, ids confirmed, and    *)
(* whether a failure was counted. A row is confirmed or not and belongs to an id: "as    *)
(* many rows as ids and all of them confirmed" is that as many are confirmed.            *)

Fresh == [attempted |-> 0, accepted |-> 0, confirmed |-> 0, failed |-> FALSE, upstream |-> FALSE]

\* Mutant of Plus: the calls of the later rounds are not counted.
PlusWithoutAttempted(s, b) ==
    [s EXCEPT !.accepted = @ + b.accepted, !.confirmed = @ + b.confirmed, !.failed = @ \/ b.failed]

\* add_batch
Plus(s, b) ==
    [attempted |-> s.attempted + b.attempted,
     accepted  |-> s.accepted + b.accepted,
     confirmed |-> s.confirmed + b.confirmed,
     failed    |-> s.failed \/ b.failed,
     upstream  |-> s.upstream \/ b.upstream]

mode1_s1_complete(s, expected) ==
    /\ expected > 0 /\ s.attempted = expected
    /\ ~s.failed
    /\ s.accepted = s.attempted /\ s.confirmed = s.accepted

mode2_summary_complete(s) ==
    /\ s.attempted > 0
    /\ ~s.failed
    /\ s.confirmed = s.attempted /\ s.accepted > 0 /\ s.confirmed >= s.accepted

pp_summary_complete(s) ==
    /\ s.attempted > 0
    /\ ~s.failed /\ ~s.upstream
    /\ s.accepted = s.attempted /\ s.confirmed >= s.accepted

Complete(s, expected) ==
    CASE mode = "old_wallet"        -> mode1_s1_complete(s, expected)
      [] mode = "new_wallet"        -> mode2_summary_complete(s)
      [] mode = "payment_processor" -> pp_summary_complete(s)

\* record_mode1_transfer_summary: the status. Only for S1 a number of calls is expected.
Mode1Status(s, expected) ==
    IF /\ expected # None => mode1_s1_complete(s, expected)
       /\ s.attempted <= s.confirmed /\ s.confirmed >= s.accepted
    THEN "Ok" ELSE "Failed"

\* mode2_send_repetition: the status.
Mode2Status(s, stateObserved) ==
    IF s.attempted <= s.confirmed /\ s.confirmed >= s.accepted /\ stateObserved
    THEN "Ok" ELSE "Failed"

\* record_pp_summary: the status.
Mode3Status(s, stateObserved) ==
    IF s.upstream THEN "BlockedUpstream"
    ELSE IF s.attempted <= s.confirmed /\ s.confirmed >= s.accepted /\ stateObserved
    THEN "Ok" ELSE "Failed"

----------------------------------------------------------------------------
(* The cells *)

\* record_repetition, in each of the cells ss of c.
Record(c, ss, status) == [s \in Scenario |-> IF s \in ss THEN Append(c[s], status) ELSE c[s]]

\* record_blocked_prerequisite_cells
Block(c, ss) == Record(c, ss, "BlockedPrerequisite")

\* refresh_summary
CellStatus(runs) ==
    IF runs = <<>> THEN "none"
    ELSE IF \A i \in 1..Len(runs) : runs[i] = "Ok" THEN "Ok"
    ELSE IF \E i \in 1..Len(runs) : runs[i] = "Ok" THEN "Partial"
    ELSE runs[Len(runs)]

\* A program that did not come up leaves S0 a harness error.
Started == cells["S0"] # <<>> /\ cells["S0"][1] # "HarnessError"

Measured(s) == Started /\ \E i \in 1..Len(cells[s]) : cells[s][i] # "BlockedPrerequisite"

\* Cells of a mode that are marked as not applicable: annotate_fresh_scan_cells_disabled,
\* annotate_mode1_disabled, annotate_mode3_disabled.
NotApplicable(m) ==
    (IF config.scans THEN {} ELSE ScanCells)
      \cup (IF m \in config.live \/ m = "new_wallet" THEN {} ELSE {"S0", "S1", "S4", "S5"})

Statuses == {"Ok", "Failed", "HarnessError", "BlockedPrerequisite", "BlockedUpstream"}

Summary == [attempted : Nat, accepted : Nat, confirmed : Nat, failed : BOOLEAN, upstream : BOOLEAN]

InRound == {"send", "verify", "judge"}

TypeOK ==
    /\ config \in Configs
    /\ pc \in {"precheck", "shutdown", "stage", "final", "ended", "aborted"} \cup InRound \cup Scenario
    /\ mode \in Modes
    /\ cells \in [Scenario -> Seq(Statuses)]
    /\ round \in 1..doubling_rounds + 1
    /\ sent \in Nat
    /\ tx \in Summary /\ total \in Summary
    /\ tx.confirmed <= tx.accepted /\ tx.accepted <= sent /\ sent <= tx.attempted
    /\ total.confirmed <= total.accepted /\ total.accepted <= total.attempted
    /\ view \in Nat /\ late \in Nat
    /\ observed \in Nat \cup {None}
    /\ kept \in 0..doubling_rounds + 1
    /\ unspent \in Nat \cup {None}
    /\ profile \in [Modes -> [final : BOOLEAN, submission : BOOLEAN] \cup {None}]
    /\ stages \subseteq Modes \cup {"fresh_scans"}
    /\ file \in {"none", "final", "refused"}

Init ==
    /\ config \in Configs
    /\ pc = "S0" /\ mode = "old_wallet"
    /\ cells = [s \in Scenario |-> <<>>]
    /\ round = 1 /\ sent = 0 /\ tx = Fresh
    /\ view = 0 /\ late = 0 /\ observed = None /\ kept = 0
    /\ total = Fresh /\ unspent = None
    /\ profile = [m \in Modes |-> None] /\ stages = {} /\ file = "none"

----------------------------------------------------------------------------
(* S0 *)

Live == mode \in config.live

\* How a mode leaves its cells: modes 1 and 3 shut their processes down.
Left == IF mode = "new_wallet" THEN "stage" ELSE "shutdown"

\* Mutant of StartupCells: those that a failed S0 would block.
BlockedCells == Scenario \ {"S0"}

StartupCells == Scenario

\* A program does not come up: record_mode1_startup_failure, record_mode3_startup_failure.
RecordStartupFailure ==
    /\ cells' = Record(cells, StartupCells, "HarnessError")
    /\ pc' = "stage"
    /\ UNCHANGED <<config, mode, s1Vars, total, unspent, outVars>>

\* start_mode1_console_wallet_with_recovery: any of its steps fails.
Mode1StartupFails == pc = "S0" /\ mode = "old_wallet" /\ Live /\ RecordStartupFailure

\* start_mode3_topology: any of its steps fails.
Mode3StartupFails == pc = "S0" /\ mode = "payment_processor" /\ Live /\ RecordStartupFailure

\* Modes 1 and 3 that are switched off.
SwitchedOff ==
    /\ pc = "S0" /\ mode # "new_wallet" /\ ~Live
    /\ pc' = "stage"
    /\ UNCHANGED <<config, mode, cells, s1Vars, total, unspent, outVars>>

\* Balances, in what S0 was funded with, and counts of outputs.
Readings == 0..2

\* strict_s0_status: exactly the funded output, in a wallet whose state could be read and
\* has nothing pending, locked, invalid or unknown.
S0Status(available, count, clean) ==
    IF available = 1 /\ count = 1 /\ clean THEN "Ok" ELSE "Failed"

\* The cell of S0. A mode that is measured goes on to S1, with what it read.
RecordS0(status, count) ==
    /\ IF status = "Ok"
       THEN /\ cells' = Record(cells, {"S0"}, status)
            /\ pc' = IF Live THEN "precheck" ELSE "stage"
            /\ view' = count
       ELSE /\ cells' = Block(Record(cells, {"S0"}, status), BlockedCells)
            /\ pc' = Left
            /\ view' = 0
    /\ UNCHANGED <<config, mode, round, sent, tx, late, observed, kept, total, unspent, outVars>>

\* wait_for_mode1_balance, wait_for_payment_receiver_balance: the wallet is up when it shows
\* at least the funding.
Funded == {available \in Readings : available >= 1}

S0Mode1 ==
    /\ pc = "S0" /\ mode = "old_wallet" /\ Live
    /\ \E available \in Funded, count \in Readings \cup {None}, clean \in BOOLEAN :
         RecordS0(S0Status(available, count, clean), count)

\* S0 is measured whether mode 2's scenarios are switched on or not. A scan that fails
\* reads nothing.
S0Mode2 ==
    /\ pc = "S0" /\ mode = "new_wallet"
    /\ \/ RecordS0("Failed", None)
       \/ \E available \in Readings, count \in Readings \cup {None}, clean \in BOOLEAN :
            RecordS0(S0Status(available, count, clean), count)

\* A balance that cannot be parsed counts as none.
S0Mode3 ==
    /\ pc = "S0" /\ mode = "payment_processor" /\ Live
    /\ \E available \in Funded \cup {0}, count \in Readings \cup {None}, clean \in BOOLEAN :
         RecordS0(S0Status(available, count, clean), count)

----------------------------------------------------------------------------
(* The rounds of S1 *)

\* Every input of the round is there.
BeginRound ==
    /\ pc = "precheck" /\ view = TxCount[round]
    /\ tx' = [Fresh EXCEPT !.attempted = TxCount[round]]
    /\ pc' = "send"
    /\ UNCHANGED <<config, mode, cells, round, sent, view, late, observed, kept, total, unspent, outVars>>

\* A refused round as mode 2 counts it, and as the other modes do, which have not counted
\* its calls yet.
RefusedByMode2 == [Fresh EXCEPT !.attempted = TxCount[round], !.failed = TRUE]

RefusedUncounted == [Fresh EXCEPT !.failed = TRUE]

\* The spendable outputs cannot be read or split, or they are not as many as the round
\* has transactions.
RefuseRound ==
    /\ pc = "precheck"
    /\ total' = Plus(total, IF mode = "new_wallet" THEN RefusedByMode2 ELSE RefusedUncounted)
    /\ pc' = "S1"
    /\ UNCHANGED <<config, mode, cells, s1Vars, unspent, outVars>>

Submit ==
    /\ pc = "send"
    /\ tx' = [tx EXCEPT !.accepted = @ + 1]
    /\ sent' = sent + 1
    /\ pc' = IF sent' = tx.attempted THEN "verify" ELSE "send"
    /\ UNCHANGED <<config, mode, cells, round, view, late, observed, kept, total, unspent, outVars>>

\* A failed call ends mode 3's round; the other modes go on, except that mode 1 stops at
\* an input it cannot split.
FailureStops ==
    CASE mode = "old_wallet"        -> BOOLEAN
      [] mode = "new_wallet"        -> {FALSE}
      [] mode = "payment_processor" -> {TRUE}

SubmitFails ==
    /\ pc = "send"
    /\ tx' = [tx EXCEPT !.failed = TRUE]
    /\ sent' = sent + 1
    /\ \E stops \in FailureStops : pc' = IF stops \/ sent' = tx.attempted THEN "verify" ELSE "send"
    /\ UNCHANGED <<config, mode, cells, round, view, late, observed, kept, total, unspent, outVars>>

\* The wallet selected taken inputs for the round, and shows the outputs of n of the
\* accepted transactions.
Settle(taken, n) ==
    /\ view' = (view - taken) + n * OutputsPerTx(round)
    /\ late' = tx.accepted - n

\* wait_for_mode1_summary_verification: it counts anew, unless there is no id.
Recounted(s, confirmed) ==
    [s EXCEPT !.confirmed = confirmed, !.failed = IF s.accepted = 0 THEN @ ELSE s.attempted > confirmed]

VerifyMode1 ==
    /\ pc = "verify" /\ mode = "old_wallet"
    /\ \E confirmed \in 0..tx.accepted : tx' = Recounted(tx, confirmed)
    /\ \E taken \in tx.accepted..view, n \in 0..tx.accepted : Settle(taken, n)
    /\ pc' = "judge"
    /\ UNCHANGED <<config, mode, cells, round, sent, observed, kept, total, unspent, outVars>>

\* Mode 2: the verification ends or fails, and the wallet is scanned to the tip or that
\* fails; it shows nothing new before it is scanned.
VerifyMode2 ==
    /\ pc = "verify" /\ mode = "new_wallet"
    /\ \E confirmed \in 0..tx.accepted, failed \in BOOLEAN :
         /\ failed => confirmed = 0
         /\ \E taken \in tx.accepted..view, n \in 0..tx.accepted, scanned \in BOOLEAN :
              /\ IF scanned THEN n >= confirmed ELSE n = 0
              /\ Settle(taken, n)
              /\ tx' = [tx EXCEPT !.confirmed = confirmed,
                                  !.failed = @ \/ (tx.accepted > 0 /\ (failed \/ ~scanned))]
    /\ pc' = "judge"
    /\ UNCHANGED <<config, mode, cells, round, sent, observed, kept, total, unspent, outVars>>

\* Mode 3: observe_db; the processor may report an upstream error.
ObserveMode3 ==
    /\ pc = "verify" /\ mode = "payment_processor"
    /\ \E confirmed \in 0..tx.accepted, upstream \in BOOLEAN :
         /\ upstream => tx.accepted > 0
         /\ tx' = [tx EXCEPT !.confirmed = confirmed, !.upstream = upstream]
    /\ \E taken \in tx.accepted..view, n \in 0..tx.accepted : Settle(taken, n)
    /\ pc' = "judge"
    /\ UNCHANGED <<config, mode, cells, round, sent, observed, kept, total, unspent, outVars>>

\* The console wallet and the payment receiver scan by themselves.
WalletShows ==
    /\ pc \in {"judge", "S1"} /\ mode # "new_wallet" /\ late > 0
    /\ view' = view + OutputsPerTx(round)
    /\ late' = late - 1
    /\ UNCHANGED <<config, pc, mode, cells, round, sent, tx, observed, kept, total, unspent, outVars>>

\* Mutant of Exact: the balance is on record only.
CountExact(count, balanced) == count = Target(round)

\* What every mode asks of a round: exactly the outputs it should leave, and a balance that
\* fell by the fees of what is confirmed.
Exact(count, balanced) == count = Target(round) /\ balanced

\* add_batch, and the next round or the end of S1. A balance that fell by the fees has
\* nothing in flight. The round's metrics are kept with the contract they satisfy or not.
EndRound(complete, contract, count, balanced) ==
    /\ balanced => late = 0 /\ tx.confirmed = tx.accepted
    /\ observed' = count
    /\ kept' = kept + (IF contract THEN 1 ELSE 0)
    /\ total' = Plus(total, [tx EXCEPT !.failed = @ \/ ~complete])
    /\ IF complete /\ round < LastRound
       THEN round' = round + 1 /\ pc' = "precheck"
       ELSE round' = round /\ pc' = "S1"
    /\ tx' = Fresh /\ sent' = 0
    /\ UNCHANGED <<config, mode, cells, view, late, unspent, outVars>>

\* Modes 1 and 3 keep the metrics before a round that is not exact counts as failed.
JudgeMode1 ==
    /\ pc = "judge" /\ mode = "old_wallet"
    /\ \E count \in {view, None}, balanced \in BOOLEAN :
         LET complete == mode1_s1_complete(tx, TxCount[round]) /\ Exact(count, balanced)
         IN EndRound(complete, balanced /\ ~tx.failed, count, balanced)

JudgeMode2 ==
    /\ pc = "judge" /\ mode = "new_wallet"
    /\ \E count \in {view, None}, balanced \in BOOLEAN :
         LET complete == mode2_summary_complete(tx) /\ Exact(count, balanced)
         IN EndRound(complete, complete, count, balanced)

\* wait_for_pp_receiver_round_state: inTime when the receiver showed the round's outputs
\* and balance before the deadline; it is not asked about an incomplete round.
Converged(inTime) == pp_summary_complete(tx) => inTime /\ view = Target(round)

JudgeMode3 ==
    /\ pc = "judge" /\ mode = "payment_processor"
    /\ \E count \in {view, None}, balanced, inTime \in BOOLEAN :
         LET complete == pp_summary_complete(tx) /\ Converged(inTime) /\ Exact(count, balanced)
         IN EndRound(complete, balanced /\ ~tx.failed /\ Converged(inTime), count, balanced)

----------------------------------------------------------------------------
(* S1 to S7 *)

\* Mutant of S1Complete: the calls are confirmed, whatever failed besides.
S1Confirmed == total.attempted <= total.confirmed

S1Complete == Complete(total, TxUpTo(LastRound))

AfterS1 == IF config.scans THEN "S2" ELSE "S4"

\* The cell, unspent_after, and what the failure of S1 blocks.
RecordS1(status, count) ==
    /\ unspent' = count
    /\ LET recorded == Record(cells, {"S1"}, status)
       IN IF S1Complete
          THEN cells' = recorded /\ pc' = AfterS1
          ELSE cells' = Block(recorded, BlockedCells \ {"S1"}) /\ pc' = Left
    /\ UNCHANGED <<config, mode, s1Vars, total, outVars>>

RecordS1Mode1 ==
    /\ pc = "S1" /\ mode = "old_wallet"
    /\ \E count \in {view, None} : RecordS1(Mode1Status(total, TxUpTo(LastRound)), count)

RecordS1Mode2 ==
    /\ pc = "S1" /\ mode = "new_wallet"
    /\ \E count \in {view, None} : RecordS1(Mode2Status(total, TRUE), count)

\* The count of the latest round stays when another cannot be read.
RecordS1Mode3 ==
    /\ pc = "S1" /\ mode = "payment_processor"
    /\ \E count \in {view, observed} : RecordS1(Mode3Status(total, TRUE), count)

\* checkpoint_from_mode1_summary, checkpoint_from_mode2_summary, checkpoint_from_pp_summary
Checkpoint ==
    LET done == IF mode = "payment_processor" THEN total.accepted ELSE total.confirmed
    IN
    CASE pc \in {"S2", "S3"} -> IF S1Complete THEN "post_s1"
                                ELSE IF done = 0 THEN "post_s1_blocked" ELSE "post_s1_partial"
      [] pc \in {"S6", "S7"} -> IF Complete(total, total.attempted) THEN "post_s5_complete" ELSE "post_s5_partial"

\* scan_expectations_from_profile: the outputs a scan after S1 must find.
ExpectedOutputs == IF unspent = None /\ Checkpoint = "post_s1" THEN volume_target ELSE unspent

\* How one repetition of a scan ends. A scan after S1 is verified when it finds what
\* unspent_after says.
ScanEnds ==
    IF Checkpoint = "post_s1_blocked" THEN {"BlockedPrerequisite"}
    ELSE {"Failed", "HarnessError"}
           \cup (IF pc \in {"S6", "S7"} \/ ExpectedOutputs \in {view, None} THEN {"Ok"} ELSE {})

AfterScan == CASE pc = "S2" -> "S3" [] pc = "S3" -> "S4" [] pc = "S6" -> "S7" [] pc = "S7" -> Left

\* run_library_fresh_scan_cell, run_mode1_fresh_scan_cell: one repetition.
Scan ==
    /\ pc \in ScanCells
    /\ \E end \in ScanEnds : cells' = Record(cells, {pc}, end)
    /\ pc' = IF Checkpoint = "post_s1_blocked" \/ Len(cells[pc]) + 1 = config.scan_repetitions THEN AfterScan ELSE pc
    /\ UNCHANGED <<config, mode, s1Vars, total, unspent, outVars>>

\* Modes 2 and 3 in S4 and S5: any of the calls leaves an id, any of those is confirmed.
Outcomes ==
    {s \in [attempted : {Calls}, accepted : 0..Calls, confirmed : 0..Calls, failed : BOOLEAN, upstream : BOOLEAN] :
        /\ s.confirmed <= s.accepted /\ s.failed = (s.accepted < Calls)
        /\ s.upstream => mode = "payment_processor"}

\* submit_mode1_transfer_to_recipients: the wallet may know the id of a transaction it did
\* not see in time; the id is kept, and the call is a failure.
CallEnds == {"accepted", "not found in time", "refused"}

\* record_batch, for every call.
Recorded(ends) ==
    [Fresh EXCEPT !.attempted = Calls,
                  !.accepted  = Cardinality({c \in 1..Calls : ends[c] # "refused"}),
                  !.failed    = \E c \in 1..Calls : ends[c] # "accepted"]

\* run_mode1_s5: one call after the other, then all of them are verified.
OneByOne(ends) == {Recounted(Recorded(ends), n) : n \in 0..Recorded(ends).accepted}

\* run_mode1_transfers_concurrent: nothing is verified when its deadline has passed, and a
\* call that is still running then is refused.
AtOnce(ends) == OneByOne(ends) \cup {Recorded(ends)}

Sent(summary, status) ==
    /\ total' = summary
    /\ cells' = Record(cells, {pc}, status)
    /\ pc' = IF pc = "S4" THEN "S5" ELSE IF config.scans THEN "S6" ELSE Left
    /\ UNCHANGED <<config, mode, s1Vars, unspent, outVars>>

SendMode1 ==
    /\ pc \in {"S4", "S5"} /\ mode = "old_wallet"
    /\ \E ends \in [1..Calls -> CallEnds] :
         \E summary \in IF pc = "S4" THEN AtOnce(ends) ELSE OneByOne(ends) :
            Sent(summary, Mode1Status(summary, None))

\* Only S4 depends on the wallet's refresh, S5 ends with the run when it fails (Abort).
SendMode2 ==
    /\ pc \in {"S4", "S5"} /\ mode = "new_wallet"
    /\ \E summary \in Outcomes, refreshed \in BOOLEAN :
         /\ pc = "S5" => refreshed
         /\ Sent(summary, Mode2Status(summary, refreshed))

SendMode3 ==
    /\ pc \in {"S4", "S5"} /\ mode = "payment_processor"
    /\ \E summary \in Outcomes, stateObserved \in BOOLEAN : Sent(summary, Mode3Status(summary, stateObserved))

Leave ==
    /\ pc = "shutdown"
    /\ pc' = "stage"
    /\ UNCHANGED <<config, mode, cells, s1Vars, total, unspent, outVars>>

----------------------------------------------------------------------------
(* The profile *)

NextMode == IF mode = "old_wallet" THEN "new_wallet" ELSE "payment_processor"

\* A submission: the rounds of a successful S1 are all there, with their metrics.
RoundContract == CellStatus(cells["S1"]) = "Ok" => kept = doubling_rounds + 1

\* validate_reference_configuration: what a submission also has to show of one mode.
SubmissionValid ==
    /\ CellStatus(cells["S0"]) = "Ok"
    /\ \A s \in Scenario : \A i \in 1..Len(cells[s]) : cells[s][i] # "HarnessError"
    /\ RoundContract

\* validate_s1_exact_outputs
ExactS1 == CellStatus(cells["S1"]) = "Ok" => unspent = volume_target

\* validate_final_document: what it asks of one mode.
FinalValid == ExactS1 /\ \A s \in Scenario \ NotApplicable(mode) : cells[s] # <<>>

\* A mode's part of the profile is not written again: what the final validation will say
\* of it.
Entry == [final |-> FinalValid, submission |-> SubmissionValid]

\* write_profile_checkpoint; after mode 2 there are two of them.
WriteCheckpoint ==
    /\ pc = "stage"
    /\ profile' = [profile EXCEPT ![mode] = Entry]
    /\ stages' = stages \cup {mode} \cup (IF mode = "new_wallet" THEN {"fresh_scans"} ELSE {})
    /\ IF mode = "payment_processor"
       THEN pc' = "final" /\ UNCHANGED <<mode, cells, s1Vars, total, unspent>>
       ELSE /\ pc' = "S0" /\ mode' = NextMode
            /\ cells' = [s \in Scenario |-> <<>>]
            /\ round' = 1 /\ sent' = 0 /\ tx' = Fresh
            /\ view' = 0 /\ late' = 0 /\ observed' = None /\ kept' = 0
            /\ total' = Fresh /\ unspent' = None
    /\ UNCHANGED <<config, file>>

\* The configuration of a submission.
CanonicalConfig ==
    /\ config.scans /\ config.live = Modes
    /\ stages = Modes \cup {"fresh_scans"}
    /\ \A m \in Modes : config.cap[m] = 0

\* mark_final, write_validated_atomic
WriteFinal ==
    /\ pc = "final"
    /\ file' = IF /\ \A m \in Modes : profile[m].final
                  /\ config.canonical => CanonicalConfig /\ \A m \in Modes : profile[m].submission
               THEN "final" ELSE "refused"
    /\ pc' = "ended"
    /\ UNCHANGED <<config, mode, cells, s1Vars, total, unspent, profile, stages>>

\* Where an error leaves the run, in every mode: the pools of recipients before S4 and S5; the
\* scans after S1 and S5 when the funding has no birthday; a process that outlives its
\* shutdown; a checkpoint that cannot be written; the final tip.  In mode 2 also S0, the
\* signing wallet before the first round, the sends and verification of S4, and the
\* verification and scan of S5.
ErrorLeaves ==
    \/ pc \in {"S4", "S5", "shutdown", "stage", "final"}
    \/ pc \in {"S2", "S6"} /\ cells[pc] = <<>>
    \/ mode = "new_wallet" /\ (pc = "S0" \/ (pc = "precheck" /\ round = 1))

\* Nothing is written any more.
Abort ==
    /\ ErrorLeaves
    /\ pc' = "aborted"
    /\ UNCHANGED <<config, mode, cells, s1Vars, total, unspent, outVars>>

Rounding ==
    \/ BeginRound \/ RefuseRound \/ Submit \/ SubmitFails
    \/ VerifyMode1 \/ VerifyMode2 \/ ObserveMode3 \/ WalletShows
    \/ JudgeMode1 \/ JudgeMode2 \/ JudgeMode3

Next ==
    \/ Mode1StartupFails \/ Mode3StartupFails \/ SwitchedOff
    \/ S0Mode1 \/ S0Mode2 \/ S0Mode3
    \/ Rounding
    \/ RecordS1Mode1 \/ RecordS1Mode2 \/ RecordS1Mode3
    \/ Scan \/ SendMode1 \/ SendMode2 \/ SendMode3 \/ Leave
    \/ WriteCheckpoint \/ WriteFinal \/ Abort

Spec == Init /\ [][Next]_vars

----------------------------------------------------------------------------

\* Whatever is measured after S1 is measured on a wallet that S1 really prepared: every
\* round left exactly its outputs, and nothing of it is still in flight (the gates of
\* annotate_mode2_live_scenarios, run_mode1_send_cells and run_mode3_send_cells).
NothingOnFailedS1 ==
    (\E s \in Scenario \ {"S0", "S1"} : Measured(s)) =>
        round = LastRound /\ kept = LastRound /\ view = Target(LastRound) /\ late = 0

\* While a round sends, every earlier round is whole: each transaction confirmed, each
\* balance matched, and the wallet holds one output per transaction of this round.
EarlierRoundsWhole ==
    pc \in {"send", "verify"} =>
        /\ kept = round - 1 /\ ~total.failed
        /\ total.confirmed = TxUpTo(round - 1)
        /\ view = tx.attempted /\ late = 0

\* A checkpoint is written with every cell of its mode settled: a cell that applies has
\* exactly its repetitions, a blocked one has a single unmeasured repetition, and only a
\* mode that is switched off leaves cells without any.
EveryCellSettled ==
    pc = "stage" =>
        \A s \in Scenario :
            \/ Len(cells[s]) = IF s \in ScanCells /\ Measured(s) THEN config.scan_repetitions ELSE 1
            \/ cells[s] = <<>> /\ (s \in NotApplicable(mode) \/ ~Live)

\* The final validation says of every mode: a successful S1 must prove
\* unspent_after=512.
S1SuccessIsExact ==
    Len(cells["S1"]) > 0 /\ cells["S1"][1] = "Ok" => unspent = volume_target

=============================================================================
